-------------------------- MODULE EventLoopProofs --------------------------
(***************************************************************************)
(* Proofs about EventLoop: kernel, pool, queues and flags agree, whatever  *)
(* the handlers of a batch do, and a report never reaches another          *)
(* connection.                                                             *)
(*                                                                         *)
(* What SelectSeq-like recursion over a queue leaves is found by induction *)
(* over sets of numbers: the library's induction theorems have an operator *)
(* as a parameter, but the one on least elements of a set has not.         *)
(***************************************************************************)
EXTENDS EventLoop, WellFoundedInduction, FiniteSetTheorems, FunctionTheorems, SequenceTheorems,
        TLAPS

LEMMA Induction ==
  ASSUME NEW T, T \subseteq Nat, 0 \in T, \A n \in T : n + 1 \in T
  PROVE  T = Nat
  <1> DEFINE R == {ss \in Nat \X Nat : ss[1] < ss[2]}
             U == Nat \ T
  <1>1. IsWellFoundedOn(R, Nat)
    BY NatLessThanWellFounded DEF OpToRel
  <1>2. SUFFICES ASSUME U # {} PROVE FALSE
    OBVIOUS
  <1>3. \E x \in U : \A y \in U : ~(<<y, x>> \in R)
    <2> HIDE DEF R, U
    <2>1. U \subseteq Nat
      BY DEF U
    <2> QED BY <1>1, <1>2, <2>1, WFMin
  <1>4. PICK x \in U : \A y \in U : ~(<<y, x>> \in R)
    BY <1>3
  <1>5. x \in Nat /\ x # 0 /\ x - 1 \in Nat
    OBVIOUS
  <1>6. <<x - 1, x>> \in R
    BY <1>5
  <1>7. x - 1 \notin U
    BY <1>4, <1>6
  <1>8. x - 1 \in T
    BY <1>7, <1>5
  <1>9. x - 1 + 1 \in T
    BY <1>8
  <1> QED BY <1>9, <1>5

-----------------------------------------------------------------------------
(* Queues. *)

Step(s, X, q, i) == IF s[i] \in X THEN q ELSE Append(q, s[i])

(* The function that Without() defines by recursion. *)
Rests(s, X, f, n) ==
  f = [i \in 0..n |-> IF i = 0 THEN <<>> ELSE Step(s, X, f[i - 1], i)]

LEMMA RestsExists ==
  ASSUME NEW S, NEW s \in Seq(S), NEW X, NEW n \in Nat
  PROVE  \E f : Rests(s, X, f, n)
  <1> DEFINE T == {m \in Nat : \E f : Rests(s, X, f, m)}
  <1>1. 0 \in T
    <2>1. Rests(s, X, [i \in 0..0 |-> <<>>], 0)
      BY DEF Rests
    <2> QED BY <2>1
  <1>2. ASSUME NEW m \in T PROVE m + 1 \in T
    <2>1. PICK f : Rests(s, X, f, m)
      OBVIOUS
    <2> DEFINE g == [i \in 0..(m + 1) |-> IF i = m + 1 THEN Step(s, X, f[m], m + 1) ELSE f[i]]
    <2>2. ASSUME NEW i \in 0..(m + 1)
          PROVE  g[i] = IF i = 0 THEN <<>> ELSE Step(s, X, g[i - 1], i)
      <3>1. CASE i = m + 1
        <4>1. i # 0 /\ i - 1 = m /\ m \in 0..(m + 1) /\ m # m + 1
          BY <3>1
        <4>2. g[i - 1] = f[m]
          BY <4>1
        <4>3. g[i] = Step(s, X, f[m], m + 1)
          BY <3>1
        <4> QED BY <3>1, <4>1, <4>2, <4>3
      <3>2. CASE i # m + 1
        <4>1. i \in 0..m /\ g[i] = f[i]
          BY <3>2
        <4>2. f[i] = IF i = 0 THEN <<>> ELSE Step(s, X, f[i - 1], i)
          BY <4>1, <2>1 DEF Rests
        <4>3. i # 0 => i - 1 \in 0..(m + 1) /\ i - 1 # m + 1
          BY <4>1
        <4>4. i # 0 => g[i - 1] = f[i - 1]
          BY <4>3
        <4> QED BY <4>1, <4>2, <4>4
      <3> QED BY <3>1, <3>2
    <2>3. Rests(s, X, g, m + 1)
      <3>1. g = [i \in 0..(m + 1) |-> g[i]]
        OBVIOUS
      <3> HIDE DEF g
      <3>2. [i \in 0..(m + 1) |-> g[i]] =
              [i \in 0..(m + 1) |-> IF i = 0 THEN <<>> ELSE Step(s, X, g[i - 1], i)]
        BY <2>2
      <3> QED BY <3>1, <3>2 DEF Rests
    <2> QED BY <2>3
  <1>3. T = Nat
    <2> HIDE DEF T
    <2>1. T \subseteq Nat
      BY DEF T
    <2> QED BY <1>1, <1>2, <2>1, Induction
  <1> QED BY <1>3

LEMMA WithoutRests ==
  ASSUME NEW S, NEW s \in Seq(S), NEW X
  PROVE  \E f : Rests(s, X, f, Len(s)) /\ Without(s, X) = f[Len(s)]
  <1>1. Len(s) \in Nat
    OBVIOUS
  <1>2. \E f : Rests(s, X, f, Len(s))
    BY <1>1, RestsExists
  <1> DEFINE g == CHOOSE f : Rests(s, X, f, Len(s))
  <1>3. Rests(s, X, g, Len(s))
    BY <1>2
  <1>4. Without(s, X) = g[Len(s)]
    BY DEF Without, Rests, Step
  <1> QED BY <1>3, <1>4

LEMMA AppendLists ==
  ASSUME NEW S, NEW s \in Seq(S), NEW x \in S, NEW Q, Lists(s, Q), x \notin Q
  PROVE  Append(s, x) \in Seq(S) /\ Lists(Append(s, x), Q \cup {x})
  <1> DEFINE t == Append(s, x)
  <1>1. /\ t \in Seq(S) /\ Len(t) = Len(s) + 1 /\ Len(s) \in Nat /\ t[Len(s) + 1] = x
        /\ DOMAIN t = 1..Len(t) /\ DOMAIN s = 1..Len(s)
    OBVIOUS
  <1>2. \A i \in DOMAIN s : t[i] = s[i]
    OBVIOUS
  <1> HIDE DEF t
  <1>3. ASSUME NEW y \in Q \cup {x} PROVE \E i \in DOMAIN t : t[i] = y
    <2>1. CASE y = x
      BY <2>1, <1>1
    <2>2. CASE y \in Q
      <3>1. PICK j \in DOMAIN s : s[j] = y
        BY <2>2 DEF Lists
      <3>2. j \in DOMAIN t /\ t[j] = y
        BY <3>1, <1>1, <1>2
      <3> QED BY <3>2
    <2> QED BY <2>1, <2>2
  <1>4. ASSUME NEW i \in DOMAIN t
        PROVE  i \in DOMAIN s \/ i = Len(s) + 1
    BY <1>1
  <1>5. ASSUME NEW i \in DOMAIN s PROVE t[i] = s[i] /\ t[i] \in Q /\ t[i] # x
    BY <1>2 DEF Lists
  <1>6. ASSUME NEW i \in DOMAIN t, NEW j \in DOMAIN t, t[i] = t[j] PROVE i = j
    <2>1. CASE i \in DOMAIN s /\ j \in DOMAIN s
      BY <2>1, <1>5, <1>6 DEF Lists
    <2>2. CASE i \notin DOMAIN s \/ j \notin DOMAIN s
      BY <2>2, <1>1, <1>4, <1>5, <1>6
    <2> QED BY <2>1, <2>2
  <1>7. \A i \in DOMAIN t : t[i] \in Q \cup {x}
    BY <1>1, <1>4, <1>5
  <1>8. Lists(t, Q \cup {x})
    BY <1>3, <1>6, <1>7 DEF Lists
  <1> QED BY <1>1, <1>8 DEF t

(* What is left of a queue without repetition is all that was not taken    *)
(* out, without repetition.                                                *)
LEMMA WithoutLists ==
  ASSUME NEW S, NEW s \in Seq(S), NEW X, NEW Q, Lists(s, Q)
  PROVE  Without(s, X) \in Seq(S) /\ Lists(Without(s, X), Q \ X)
  <1>1. PICK f : Rests(s, X, f, Len(s)) /\ Without(s, X) = f[Len(s)]
    BY WithoutRests
  <1>2. /\ Len(s) \in Nat /\ \A i \in 1..Len(s) : s[i] \in S
        /\ f[0] = <<>>
        /\ \A i \in 1..Len(s) : f[i] = Step(s, X, f[i - 1], i)
    <2>1. Len(s) \in Nat /\ \A i \in 1..Len(s) : s[i] \in S
      OBVIOUS
    <2> QED BY <1>1, <2>1 DEF Rests
  <1> DEFINE Upto(i) == {s[j] : j \in 1..i} \ X
             Good(i) == f[i] \in Seq(S) /\ Lists(f[i], Upto(i))
             T == {i \in Nat : i <= Len(s) => Good(i)}
  <1>3. 0 \in T
    <2>1. <<>> \in Seq(S) /\ Lists(<<>>, Upto(0))
      BY DEF Lists
    <2> QED BY <2>1, <1>2
  <1>4. ASSUME NEW i \in T PROVE i + 1 \in T
    <2>1. SUFFICES ASSUME i + 1 <= Len(s) PROVE Good(i + 1)
      OBVIOUS
    <2>2. i \in Nat /\ i + 1 \in 1..Len(s) /\ i <= Len(s) /\ i + 1 - 1 = i
      BY <2>1, <1>2
    <2>3. Good(i)
      BY <2>2
    <2>4. f[i + 1] = Step(s, X, f[i], i + 1)
      BY <2>2, <1>2
    <2> DEFINE x == s[i + 1]
    <2>5. x \in S /\ {s[j] : j \in 1..(i + 1)} = {s[j] : j \in 1..i} \cup {x}
      BY <2>2, <1>2
    <2>6. CASE x \in X
      <3>1. f[i + 1] = f[i] /\ Upto(i + 1) = Upto(i)
        BY <2>6, <2>4, <2>5 DEF Step
      <3> QED BY <3>1, <2>3
    <2>7. CASE x \notin X
      <3>1. f[i + 1] = Append(f[i], x) /\ Upto(i + 1) = Upto(i) \cup {x}
        BY <2>7, <2>4, <2>5 DEF Step
      <3>2. x \notin Upto(i)
        <4>1. SUFFICES ASSUME NEW j \in 1..i, s[j] = x PROVE FALSE
          OBVIOUS
        <4>2. j \in DOMAIN s /\ i + 1 \in DOMAIN s /\ j # i + 1
          BY <2>2
        <4> QED BY <4>1, <4>2 DEF Lists
      <3> HIDE DEF Upto, x
      <3>3. Append(f[i], x) \in Seq(S) /\ Lists(Append(f[i], x), Upto(i) \cup {x})
        BY <2>3, <2>5, <3>2, AppendLists
      <3> QED BY <3>1, <3>3
    <2> QED BY <2>6, <2>7
  <1>5. T = Nat
    <2> HIDE DEF T
    <2>1. T \subseteq Nat
      BY DEF T
    <2> QED BY <1>3, <1>4, <2>1, Induction
  <1>6. Good(Len(s))
    <2>1. Len(s) \in T
      <3> HIDE DEF T
      <3> QED BY <1>5, <1>2
    <2> HIDE DEF Good
    <2> QED BY <2>1, <1>2
  <1>7. Upto(Len(s)) = Q \ X
    <2>1. Q = {s[j] : j \in 1..Len(s)}
      BY <1>2 DEF Lists
    <2> QED BY <2>1
  <1> QED BY <1>1, <1>6, <1>7

LEMMA PushLists ==
  ASSUME NEW S, NEW s \in Seq(S), NEW x \in S, NEW Q, Lists(s, Q), x \notin Q
  PROVE  <<x>> \o s \in Seq(S) /\ Lists(<<x>> \o s, Q \cup {x})
  <1> DEFINE t == <<x>> \o s
  <1>1. t \in Seq(S) /\ Len(t) = Len(s) + 1 /\ t[1] = x
    OBVIOUS
  <1>2. \A i \in 2..Len(t) : t[i] = s[i - 1]
    OBVIOUS
  <1>3. \A i \in 1..Len(s) : t[i + 1] = s[i]
    OBVIOUS
  <1>4. DOMAIN t = 1..Len(t) /\ DOMAIN s = 1..Len(s) /\ Len(s) \in Nat
    OBVIOUS
  <1> HIDE DEF t
  <1>5. \A y \in Q \cup {x} : \E i \in DOMAIN t : t[i] = y
    <2>1. ASSUME NEW y \in Q PROVE \E i \in DOMAIN t : t[i] = y
      <3>1. PICK j \in DOMAIN s : s[j] = y
        BY DEF Lists
      <3>2. j + 1 \in DOMAIN t /\ t[j + 1] = y
        BY <3>1, <1>1, <1>3, <1>4
      <3> QED BY <3>2
    <2>2. 1 \in DOMAIN t
      BY <1>1, <1>4
    <2> QED BY <2>1, <2>2, <1>1
  <1>6. ASSUME NEW i \in DOMAIN t
        PROVE  t[i] \in Q \cup {x} /\ (i # 1 => t[i] \in Q)
    <2>1. i = 1 \/ (i \in 2..Len(t) /\ i - 1 \in DOMAIN s)
      BY <1>1, <1>4
    <2> QED BY <2>1, <1>1, <1>2 DEF Lists
  <1>7. ASSUME NEW i \in DOMAIN t, NEW j \in DOMAIN t, t[i] = t[j] PROVE i = j
    <2>1. CASE i = 1 \/ j = 1
      BY <2>1, <1>6, <1>7, <1>1
    <2>2. CASE i # 1 /\ j # 1
      <3>1. i \in 2..Len(t) /\ j \in 2..Len(t) /\ i - 1 \in DOMAIN s /\ j - 1 \in DOMAIN s
        BY <2>2, <1>1, <1>4
      <3>2. s[i - 1] = s[j - 1]
        BY <3>1, <1>2, <1>7
      <3>3. i - 1 = j - 1
        BY <3>1, <3>2 DEF Lists
      <3> QED BY <3>1, <3>3
    <2> QED BY <2>1, <2>2
  <1>8. Lists(t, Q \cup {x})
    BY <1>5, <1>6, <1>7 DEF Lists
  <1> QED BY <1>1, <1>8 DEF t

LEMMA TailLists ==
  ASSUME NEW S, NEW s \in Seq(S), s # <<>>, NEW Q, Lists(s, Q)
  PROVE  /\ Tail(s) \in Seq(S) /\ Head(s) \in Q /\ Head(s) \in S
         /\ Lists(Tail(s), Q \ {Head(s)})
  <1> DEFINE t == Tail(s)
             x == Head(s)
  <1>1. /\ t \in Seq(S) /\ Len(s) = Len(t) + 1 /\ x = s[1] /\ x \in S
        /\ DOMAIN t = 1..Len(t) /\ DOMAIN s = 1..Len(s) /\ Len(t) \in Nat
    OBVIOUS
  <1>2. \A i \in 1..Len(t) : t[i] = s[i + 1]
    OBVIOUS
  <1> HIDE DEF t, x
  <1>3. 1 \in DOMAIN s
    BY <1>1
  <1>4. x \in Q
    BY <1>1, <1>3 DEF Lists
  <1>5. ASSUME NEW y \in Q \ {x} PROVE \E i \in DOMAIN t : t[i] = y
    <2>1. PICK j \in DOMAIN s : s[j] = y
      BY DEF Lists
    <2>2. j # 1
      BY <2>1, <1>1
    <2>3. j - 1 \in DOMAIN t /\ t[j - 1] = s[j - 1 + 1] /\ j - 1 + 1 = j
      BY <2>2, <1>1, <1>2
    <2> QED BY <2>1, <2>3
  <1>6. ASSUME NEW i \in DOMAIN t PROVE t[i] \in Q \ {x} /\ i + 1 \in DOMAIN s
    <2>1. i + 1 \in DOMAIN s /\ t[i] = s[i + 1] /\ i + 1 # 1
      BY <1>1, <1>2
    <2> QED BY <2>1, <1>1, <1>3 DEF Lists
  <1>7. ASSUME NEW i \in DOMAIN t, NEW j \in DOMAIN t, t[i] = t[j] PROVE i = j
    <2>1. i + 1 \in DOMAIN s /\ j + 1 \in DOMAIN s /\ s[i + 1] = s[j + 1]
      BY <1>6, <1>7, <1>1, <1>2
    <2>2. i + 1 = j + 1
      BY <2>1 DEF Lists
    <2> QED BY <2>2, <1>1
  <1>8. Lists(t, Q \ {x})
    BY <1>5, <1>6, <1>7 DEF Lists
  <1> QED BY <1>1, <1>4, <1>8 DEF t, x

-----------------------------------------------------------------------------
(* The inductive invariant. *)

(* Only what is open is watched, and the kernel reports only what it       *)
(* watches.                                                                *)
Watched ==
  /\ \A e \in active : e[1] \in open
  /\ rdl \subseteq open /\ \A c \in rdl : kev[c] # {}

(* There is a batch only between epoll_wait() and its last report, and a   *)
(* report while its second half is ahead.                                  *)
Control ==
  /\ pc # "handler" => ret = "wait" /\ run = None
  /\ pc \in {"wait", "accept", "timers", "posted"} => batch = <<>>
  /\ pc = "handler" /\ ret \notin {"read", "write"} => batch = <<>>
  /\ "write" \in {pc, ret} => batch # <<>>

IInv == LoopSound /\ Watched /\ Control

Reports == [c : Conns, inst : {0, 1}, ev : SUBSET Dirs]

LEMMA ReportTypes ==
  /\ \A b \in Reports : b.c \in Conns /\ b.inst \in {0, 1} /\ b.ev \subseteq Dirs
  /\ None \notin Events /\ Dirs = {"in", "out"}
  /\ \A e \in Events : e[1] \in Conns /\ e[2] \in Dirs /\ e = <<e[1], e[2]>>
  /\ \A c \in Conns, d \in Dirs : <<c, d>> \in Events /\ <<c, d>>[1] = c /\ <<c, d>>[2] = d
  BY EventLoopAssumption DEF Reports, Events, Conns, Dirs, None

LEMMA BatchTypes ==
  ASSUME TypeOK
  PROVE  /\ batch \in Seq(Reports) /\ DOMAIN batch = 1..Len(batch) /\ Len(batch) \in Nat
         /\ \A i \in DOMAIN batch : batch[i] \in Reports
  <1>1. batch \in Seq(Reports)
    BY DEF TypeOK, Reports
  <1> QED BY <1>1

(* Event e waits in the batch. *)
InBatch(e) ==
  \E i \in DOMAIN batch :
    /\ batch[i].c = e[1] /\ e[2] \in batch[i].ev /\ ~Stale(batch[i])
    /\ ~(i = 1 /\ e[2] = "in" /\ "write" \in {pc, ret})

LEMMA EdgeKept ==
  NoLostEdge <=> \A e \in active : e[2] \in avail[e[1]] => e[1] \in rdl \/ e \in ready \/ InBatch(e)
  BY DEF NoLostEdge, InBatch

LEMMA EdgeKeptNext ==
  NoLostEdge' <=> \A e \in active' : e[2] \in avail'[e[1]] => e[1] \in rdl' \/ e \in ready' \/ InBatch(e)'
  BY DEF NoLostEdge, InBatch

LEMMA InBatchSame ==
  ASSUME NEW e, InBatch(e), UNCHANGED loop,
         e[1] \in open => e[1] \in open', inst'[e[1]] = inst[e[1]]
  PROVE  InBatch(e)'
  BY DEF InBatch, Stale, loop

(* Timers, posted events and the queue of reusable connections. *)
LEMMA QueuesKept ==
  ASSUME IInv, UNCHANGED <<pool, active, ready, kernel, loop>>,
         posted' \subseteq Events, timer_set' \subseteq Events, tree' \subseteq Events, reusable' \subseteq Conns,
         postq' \in Seq(Events), reuseq' \in Seq(Conns), LinksTrue'
  PROVE  IInv'
  <1> USE DEF IInv, LoopSound
  <1>1. TypeOK'
    BY DEF TypeOK, pool, kernel, loop
  <1>2. PoolExact' /\ EpollAgrees' /\ Watched' /\ Control'
    BY DEF PoolExact, EpollAgrees, Watched, Control, pool, kernel, loop
  <1>3. NoLostEdge'
    BY DEF NoLostEdge, Stale, pool, kernel, loop
  <1> QED BY <1>1, <1>2, <1>3

LEMMA ReusableKept == ASSUME IInv, NEW c \in Conns, NEW on \in BOOLEAN, Reusable(c, on) PROVE IInv'
  <1> DEFINE q == IF c \in reusable THEN Without(reuseq, {c}) ELSE reuseq
  <1>1. reuseq \in Seq(Conns) /\ Lists(reuseq, reusable) /\ reusable \subseteq open /\ reusable \subseteq Conns
    BY DEF IInv, LoopSound, TypeOK, LinksTrue
  <1>2. q \in Seq(Conns) /\ Lists(q, reusable \ {c})
    <2>1. CASE c \in reusable
      BY <2>1, <1>1, WithoutLists
    <2>2. CASE c \notin reusable
      <3>1. reusable \ {c} = reusable /\ q = reuseq
        BY <2>2
      <3> QED BY <3>1, <1>1
    <2> QED BY <2>1, <2>2
  <1>3. c \in open /\ reuseq' = (IF on THEN <<c>> \o q ELSE q)
        /\ reusable' = (IF on THEN reusable \cup {c} ELSE reusable \ {c})
        /\ UNCHANGED <<pool, active, ready, posted, timer_set, postq, tree, kernel, loop>>
    BY DEF Reusable
  <1> HIDE DEF q
  <1>4. reuseq' \in Seq(Conns) /\ Lists(reuseq', reusable')
    <2>1. CASE on
      <3>1. <<c>> \o q \in Seq(Conns) /\ Lists(<<c>> \o q, (reusable \ {c}) \cup {c})
        BY <1>2, PushLists
      <3>2. (reusable \ {c}) \cup {c} = reusable \cup {c}
        OBVIOUS
      <3> QED BY <2>1, <3>1, <3>2, <1>3
    <2>2. CASE ~on
      BY <2>2, <1>2, <1>3
    <2> QED BY <2>1, <2>2
  <1>5. reusable' \subseteq open' /\ reusable' \subseteq Conns
    BY <1>1, <1>3 DEF pool
  <1>6. LinksTrue'
    BY <1>3, <1>4, <1>5 DEF LinksTrue, IInv, LoopSound, pool
  <1>7. posted' \subseteq Events /\ timer_set' \subseteq Events /\ tree' \subseteq Events /\ postq' \in Seq(Events)
    BY <1>3 DEF IInv, LoopSound, TypeOK
  <1> QED BY <1>3, <1>4, <1>5, <1>6, <1>7, QueuesKept

LEMMA TimersKept == ASSUME IInv, NEW e \in Events, AddTimer(e) \/ DelTimer(e) PROVE IInv'
  <1>1. /\ UNCHANGED <<pool, active, ready, posted, reusable, postq, reuseq, kernel, loop>>
        /\ e[1] \in open
        /\ \/ tree' = tree \cup {e} /\ timer_set' = timer_set \cup {e}
           \/ tree' = tree \ {e} /\ timer_set' = timer_set \ {e}
    BY DEF AddTimer, DelTimer
  <1>2. LinksTrue'
    BY <1>1 DEF LinksTrue, IInv, LoopSound, pool
  <1>3. /\ posted' \subseteq Events /\ timer_set' \subseteq Events /\ tree' \subseteq Events
        /\ postq' \in Seq(Events) /\ reusable' \subseteq Conns /\ reuseq' \in Seq(Conns)
    BY <1>1 DEF IInv, LoopSound, TypeOK
  <1> QED BY <1>1, <1>2, <1>3, QueuesKept

(* ngx_post_event() keeps the queue and the flags together. *)
LEMMA EventPosted ==
  ASSUME TypeOK, LinksTrue, NEW e \in Events, e[1] \in open, PostEvent(e)
  PROVE  /\ posted' \subseteq Events /\ postq' \in Seq(Events) /\ Lists(postq', posted')
         /\ \A f \in posted' : f[1] \in open
  <1>1. postq \in Seq(Events) /\ Lists(postq, posted) /\ posted \subseteq Events
        /\ \A f \in posted : f[1] \in open
    BY DEF TypeOK, LinksTrue
  <1>2. CASE e \in posted
    <2>1. posted' = posted /\ postq' = postq
      BY <1>2 DEF PostEvent
    <2> QED BY <2>1, <1>1
  <1>3. CASE e \notin posted
    <2>1. posted' = posted \cup {e} /\ postq' = Append(postq, e)
      BY <1>3 DEF PostEvent
    <2>2. Append(postq, e) \in Seq(Events) /\ Lists(Append(postq, e), posted \cup {e})
      BY <1>1, <1>3, AppendLists
    <2> QED BY <2>1, <2>2, <1>1
  <1> QED BY <1>2, <1>3

LEMMA PostKept == ASSUME IInv, NEW e \in Events, Post(e) PROVE IInv'
  <1>1. /\ PostEvent(e) /\ e[1] \in open
        /\ UNCHANGED <<pool, active, ready, timer_set, reusable, tree, reuseq, kernel, loop>>
    BY DEF Post
  <1>2. TypeOK /\ LinksTrue
    BY DEF IInv, LoopSound
  <1>3. /\ posted' \subseteq Events /\ postq' \in Seq(Events) /\ Lists(postq', posted')
        /\ \A f \in posted' : f[1] \in open
    BY <1>1, <1>2, EventPosted
  <1>4. LinksTrue'
    BY <1>1, <1>2, <1>3 DEF LinksTrue, pool
  <1>5. timer_set' \subseteq Events /\ tree' \subseteq Events /\ reusable' \subseteq Conns /\ reuseq' \in Seq(Conns)
    BY <1>1, <1>2 DEF TypeOK
  <1> QED BY <1>1, <1>3, <1>4, <1>5, QueuesKept

(* epoll_ctl(): the socket of an open connection is polled with the        *)
(* interest its active events ask for.                                     *)
LEMMA InterestKept ==
  ASSUME IInv, NEW c \in open, NEW ev \in SUBSET Dirs, Watch(c, ev),
         active' = (active \ Both(c)) \cup ({c} \X ev),
         UNCHANGED <<pool, ready, posted, timer_set, reusable, queues, avail, loop>>
  PROVE  IInv'
  <1> USE DEF IInv, LoopSound
  <1>1. /\ c \in Conns /\ active' \subseteq Events /\ ev \subseteq {"in", "out"}
        /\ \A d \in Dirs : <<c, d>> \in active' <=> d \in ev
        /\ \A e \in Events : e[1] # c => (e \in active' <=> e \in active)
        /\ \A e \in active' : e[1] \in open
    <2>1. c \in Conns /\ ev \subseteq Dirs /\ active \subseteq Events /\ \A e \in active : e[1] \in open
      BY DEF TypeOK, Watched
    <2>2. \A e \in {c} \X ev : e[1] = c /\ e \in Events
      BY <2>1 DEF Events
    <2>3. active' \subseteq Events /\ \A e \in active' : e[1] \in open
      BY <2>1, <2>2
    <2>4. ASSUME NEW d \in Dirs PROVE <<c, d>> \in active' <=> d \in ev
      BY DEF Both
    <2>5. ASSUME NEW e \in Events, e[1] # c PROVE e \in active' <=> e \in active
      BY <2>2, <2>5 DEF Both
    <2> QED BY <2>1, <2>3, <2>4, <2>5 DEF Dirs
  <1>2. /\ kev' = [kev EXCEPT ![c] = ev] /\ kinst' = [kinst EXCEPT ![c] = inst[c]]
        /\ ev = {} => rdl' = rdl \ {c}
        /\ ev # {} => rdl' = IF avail[c] \cap (ev \cup {"err"}) # {} THEN rdl \cup {c} ELSE rdl
    BY DEF Watch
  <1>3. TypeOK'
    <2>1. kev' \in [Conns -> SUBSET Dirs] /\ kinst' \in [Conns -> {0, 1}] /\ rdl' \subseteq Conns
      BY <1>1, <1>2 DEF TypeOK
    <2> QED BY <1>1, <2>1 DEF TypeOK, pool, queues, loop
  <1>4. PoolExact' /\ LinksTrue' /\ Control'
    BY DEF PoolExact, LinksTrue, Control, pool, queues, loop
  <1>5. /\ kev'[c] = ev /\ kinst'[c] = inst[c]
        /\ \A d \in Conns \ {c} : kev'[d] = kev[d] /\ kinst'[d] = kinst[d]
    BY <1>1, <1>2 DEF TypeOK
  <1>6. EpollAgrees'
    <2>1. ASSUME NEW d \in Conns PROVE kev'[d] = {x \in Dirs : <<d, x>> \in active'}
      <3>1. CASE d = c
        BY <3>1, <1>1, <1>5 DEF Dirs
      <3>2. CASE d # c
        <4>1. \A x \in Dirs : <<d, x>> \in active' <=> <<d, x>> \in active
          BY <3>2, <1>1, ReportTypes
        <4> QED BY <3>2, <4>1, <1>5 DEF EpollAgrees
      <3> QED BY <3>1, <3>2
    <2>2. ASSUME NEW d \in open', kev'[d] # {} PROVE kinst'[d] = inst'[d]
      <3>1. d \in open /\ inst' = inst /\ d \in Conns
        BY DEF pool, TypeOK
      <3> QED BY <3>1, <2>2, <1>5 DEF EpollAgrees
    <2> QED BY <2>1, <2>2 DEF EpollAgrees
  <1>7. Watched'
    <2>1. open' = open
      BY DEF pool
    <2>2. ASSUME NEW d \in rdl' PROVE d \in open /\ kev'[d] # {}
      <3>1. CASE d = c
        BY <3>1, <1>2, <1>5
      <3>2. CASE d # c
        <4>1. d \in rdl
          BY <3>2, <1>2
        <4> QED BY <3>2, <4>1, <1>5 DEF Watched, TypeOK
      <3> QED BY <3>1, <3>2
    <2> QED BY <1>1, <2>1, <2>2 DEF Watched
  <1>8. NoLostEdge'
    <2>1. SUFFICES ASSUME NEW e \in active', e[2] \in avail'[e[1]]
                   PROVE  e[1] \in rdl' \/ e \in ready' \/ InBatch(e)'
      BY EdgeKeptNext
    <2>2. e \in Events /\ avail' = avail /\ ready' = ready
      BY <1>1
    <2>3. CASE e[1] = c
      <3>1. e[2] \in ev /\ ev # {}
        BY <2>2, <2>3, <1>1, ReportTypes
      <3>2. c \in rdl'
        BY <3>1, <2>1, <2>2, <2>3, <1>2
      <3> QED BY <3>2, <2>3
    <2>4. CASE e[1] # c
      <3>1. e \in active /\ (e[1] \in rdl => e[1] \in rdl')
        BY <2>2, <2>4, <1>1, <1>2
      <3>2. InBatch(e) => InBatch(e)'
        BY InBatchSame DEF pool
      <3> QED BY <3>1, <3>2, <2>1, <2>2, EdgeKept
    <2> QED BY <2>3, <2>4
  <1> QED BY <1>3, <1>4, <1>6, <1>7, <1>8

LEMMA AddKept == ASSUME IInv, NEW c \in Conns, NEW d \in Dirs, AddEvent(c, d) PROVE IInv'
  <1> DEFINE mod == <<c, Other(d)>> \in active
             ev == IF mod THEN Dirs ELSE {d}
  <1>1. /\ c \in open /\ <<c, d>> \notin active
        /\ UNCHANGED <<pool, ready, posted, timer_set, reusable, queues, avail, loop>>
    BY DEF AddEvent
  <1>2. kev[c] = {x \in Dirs : <<c, x>> \in active}
    BY DEF IInv, LoopSound, EpollAgrees
  <1>3. Dirs = {d, Other(d)} /\ Other(d) \in Dirs
    BY DEF Dirs, Other
  <1>4. mod = (kev[c] # {})
    <2>1. ASSUME mod PROVE kev[c] # {}
      BY <2>1, <1>2, <1>3
    <2>2. ASSUME NEW x \in kev[c] PROVE mod
      <3>1. x \in Dirs /\ <<c, x>> \in active
        BY <2>2, <1>2
      <3>2. x = Other(d)
        BY <3>1, <1>1, <1>3
      <3> QED BY <3>1, <3>2
    <2> QED BY <2>1, <2>2
  <1>5. active' = active \cup {<<c, d>>} /\ Watch(c, ev)
    BY <1>4 DEF AddEvent
  <1>6. active' = (active \ Both(c)) \cup ({c} \X ev)
    <2>1. active \cap Both(c) = IF mod THEN {<<c, Other(d)>>} ELSE {}
      BY <1>1, <1>3 DEF Both
    <2>2. {c} \X ev = (IF mod THEN {<<c, Other(d)>>} ELSE {}) \cup {<<c, d>>}
      BY <1>3
    <2> HIDE DEF ev, mod
    <2> QED BY <2>1, <2>2, <1>5
  <1>7. ev \in SUBSET Dirs
    OBVIOUS
  <1> HIDE DEF ev, mod
  <1> QED BY <1>1, <1>5, <1>6, <1>7, InterestKept

LEMMA DelKept == ASSUME IInv, NEW c \in Conns, NEW d \in Dirs, DelEvent(c, d) PROVE IInv'
  <1> DEFINE ev == IF <<c, Other(d)>> \in active THEN {Other(d)} ELSE {}
  <1>1. /\ c \in open /\ <<c, d>> \in active /\ active' = active \ {<<c, d>>} /\ Watch(c, ev)
        /\ UNCHANGED <<pool, ready, posted, timer_set, reusable, queues, avail, loop>>
    BY DEF DelEvent
  <1>2. Dirs = {d, Other(d)} /\ Other(d) \in Dirs /\ Other(d) # d
    BY DEF Dirs, Other
  <1>3. active' = (active \ Both(c)) \cup ({c} \X ev)
    <2>1. active \cap Both(c) = {<<c, d>>} \cup ({c} \X ev)
      BY <1>1, <1>2 DEF Both
    <2>2. <<c, d>> \notin {c} \X ev
      BY <1>2
    <2> HIDE DEF ev
    <2> QED BY <2>1, <2>2, <1>1
  <1>4. ev \in SUBSET Dirs
    BY <1>2
  <1> HIDE DEF ev
  <1> QED BY <1>1, <1>3, <1>4, InterestKept

LEMMA AddConnKept == ASSUME IInv, NEW c \in Conns, AddConn(c) PROVE IInv'
  <1>1. /\ c \in open /\ Both(c) \cap active = {}
        /\ UNCHANGED <<pool, ready, posted, timer_set, reusable, queues, avail, loop>>
    BY DEF AddConn
  <1>2. kev[c] = {}
    <2>1. kev[c] = {x \in Dirs : <<c, x>> \in active}
      BY DEF IInv, LoopSound, EpollAgrees
    <2> QED BY <2>1, <1>1 DEF Both
  <1>3. active' = active \cup Both(c) /\ Watch(c, Dirs)
    BY <1>2 DEF AddConn
  <1>4. active' = (active \ Both(c)) \cup ({c} \X Dirs) /\ Dirs \in SUBSET Dirs
    BY <1>3 DEF Both
  <1> QED BY <1>1, <1>3, <1>4, InterestKept

(* A socket is read or written until EAGAIN.                               *)
LEMMA ConsumeKept == ASSUME IInv, NEW c \in Conns, NEW d \in Dirs, Consume(c, d) PROVE IInv'
  <1> USE DEF IInv, LoopSound
  <1>1. /\ c \in open /\ ready' = ready \ {<<c, d>>} /\ avail' = [avail EXCEPT ![c] = @ \ {d, "err"}]
        /\ UNCHANGED <<pool, active, posted, timer_set, reusable, queues, kev, kinst, rdl, loop>>
    BY DEF Consume
  <1>2. TypeOK'
    BY <1>1 DEF TypeOK, pool, queues, loop
  <1>3. PoolExact' /\ LinksTrue' /\ EpollAgrees' /\ Watched' /\ Control'
    BY <1>1 DEF PoolExact, LinksTrue, EpollAgrees, Watched, Control, pool, queues, loop
  <1>4. NoLostEdge'
    <2>1. SUFFICES ASSUME NEW e \in active', e[2] \in avail'[e[1]]
                   PROVE  e[1] \in rdl' \/ e \in ready' \/ InBatch(e)'
      BY EdgeKeptNext
    <2>2. e \in active /\ e \in Events
      BY <1>1 DEF TypeOK
    <2>3. e[2] \in avail[e[1]] /\ e # <<c, d>>
      <3>1. \A x \in Conns : avail'[x] = IF x = c THEN avail[x] \ {d, "err"} ELSE avail[x]
        BY <1>1 DEF TypeOK
      <3>2. e[1] \in Conns
        BY <2>2, ReportTypes
      <3>3. e[2] \in avail[e[1]] /\ (e[1] = c => e[2] # d)
        BY <2>1, <3>1, <3>2
      <3> QED BY <3>3
    <2>4. InBatch(e) => InBatch(e)'
      BY <1>1, InBatchSame DEF pool
    <2> QED BY <2>2, <2>3, <2>4, <1>1, EdgeKept
  <1> QED BY <1>2, <1>3, <1>4

(* Something happens to a socket.                                          *)
LEMMA ArriveKept == ASSUME IInv, NEW c \in Conns, NEW s \in Signals, Arrive(c, s) PROVE IInv'
  <1> USE DEF IInv, LoopSound
  <1>1. /\ c \in open /\ avail' = [avail EXCEPT ![c] = @ \cup {s}]
        /\ rdl' = IF kev[c] # {} /\ s \in kev[c] \cup {"err"} THEN rdl \cup {c} ELSE rdl
        /\ UNCHANGED <<pool, flags, queues, kev, kinst, loop>>
    BY DEF Arrive
  <1>2. s \in Dirs \cup {"err"}
    BY EventLoopAssumption DEF Dirs
  <1>3. TypeOK'
    <2>1. avail' \in [Conns -> SUBSET (Dirs \cup {"err"})] /\ rdl' \subseteq Conns
      BY <1>1, <1>2 DEF TypeOK
    <2> QED BY <1>1, <2>1 DEF TypeOK, pool, flags, queues, loop
  <1>4. PoolExact' /\ LinksTrue' /\ EpollAgrees' /\ Watched' /\ Control'
    BY <1>1 DEF PoolExact, LinksTrue, EpollAgrees, Watched, Control, pool, flags, queues, loop
  <1>5. NoLostEdge'
    <2>1. SUFFICES ASSUME NEW e \in active', e[2] \in avail'[e[1]]
                   PROVE  e[1] \in rdl' \/ e \in ready' \/ InBatch(e)'
      BY EdgeKeptNext
    <2>2. e \in active /\ e \in Events /\ ready' = ready /\ (e[1] \in rdl => e[1] \in rdl')
      BY <1>1 DEF TypeOK, flags
    <2>3. e[2] \in avail[e[1]] \/ (e[1] = c /\ e[2] = s)
      <3>1. \A x \in Conns : avail'[x] = IF x = c THEN avail[x] \cup {s} ELSE avail[x]
        BY <1>1 DEF TypeOK
      <3>2. e[1] \in Conns
        BY <2>2, ReportTypes
      <3> QED BY <2>1, <3>1, <3>2
    <2>4. CASE e[2] \in avail[e[1]]
      <3>1. InBatch(e) => InBatch(e)'
        BY <1>1, InBatchSame DEF pool
      <3> QED BY <2>2, <2>4, <3>1, EdgeKept
    <2>5. CASE e[1] = c /\ e[2] = s
      <3>1. e[2] \in kev[e[1]]
        BY <2>2, ReportTypes DEF EpollAgrees
      <3> QED BY <2>5, <3>1, <1>1
    <2> QED BY <2>3, <2>4, <2>5
  <1> QED BY <1>3, <1>4, <1>5

LEMMA ReturnKept == ASSUME IInv, Return PROVE IInv'
  <1> USE DEF IInv, LoopSound
  <1>1. /\ pc = "handler" /\ pc' = ret /\ run' = None /\ ret' = "wait"
        /\ UNCHANGED <<pool, flags, queues, kernel, batch, post>>
    BY DEF Return, Handler
  <1>2. TypeOK'
    BY <1>1 DEF TypeOK, pool, flags, queues, kernel
  <1>3. PoolExact' /\ LinksTrue' /\ EpollAgrees' /\ Watched'
    BY <1>1 DEF PoolExact, LinksTrue, EpollAgrees, Watched, pool, flags, queues, kernel
  <1>4. Control'
    BY <1>1 DEF Control, TypeOK
  <1>5. NoLostEdge'
    <2>1. ("write" \in {pc, ret})' <=> "write" \in {pc, ret}
      BY <1>1
    <2>2. ASSUME NEW e, InBatch(e) PROVE InBatch(e)'
      BY <1>1, <2>1, <2>2 DEF InBatch, Stale, pool
    <2> QED BY <1>1, <2>2, EdgeKept, EdgeKeptNext DEF flags, kernel
  <1> QED BY <1>2, <1>3, <1>4, <1>5

-----------------------------------------------------------------------------
(* The connection pool. *)

(* The connections of K are closed, and those of new, which are closed     *)
(* then, are taken.                                                        *)
LEMMA Recycled ==
  ASSUME IInv, NEW K \in SUBSET open, NEW new \in SUBSET ((Conns \ open) \cup K),
         Recycle(K, new), UNCHANGED loop, free' \in Seq(Conns), Lists(free', Conns \ open')
  PROVE  IInv'
  <1> DEFINE gone  == K \X Dirs
             clear == (K \cup new) \X Dirs
  <1> USE DEF IInv, LoopSound
  <1>1. /\ open \subseteq Conns /\ reusable \subseteq open /\ rdl \subseteq open
        /\ active \subseteq Events /\ posted \subseteq Events /\ timer_set \subseteq Events /\ ready \subseteq Events
        /\ \A e \in active \cup posted \cup timer_set : e[1] \in open
        /\ postq \in Seq(Events) /\ reuseq \in Seq(Conns) /\ tree = timer_set
        /\ Lists(postq, posted) /\ Lists(reuseq, reusable)
    BY DEF TypeOK, LinksTrue, Watched
  <1>2. /\ open' = (open \ K) \cup new
        /\ tree' = tree \ (gone \cap timer_set) /\ timer_set' = timer_set \ clear
        /\ postq' = Without(postq, gone \cap posted) /\ posted' = posted \ clear
        /\ reuseq' = Without(reuseq, K \cap reusable) /\ reusable' = reusable \ (K \cup new)
        /\ active' = active \ clear /\ ready' = ready \ (new \X Dirs)
        /\ inst' = [c \in Conns |-> IF c \in new THEN 1 - inst[c] ELSE inst[c]]
        /\ reborn' = [c \in Conns |-> IF c \in new THEN reborn[c] + 1 ELSE reborn[c]]
        /\ kev' = [c \in Conns |-> IF c \in K THEN {} ELSE kev[c]]
        /\ avail' = [c \in Conns |-> IF c \in K THEN {} ELSE avail[c]]
        /\ rdl' = rdl \ K /\ kinst' = kinst
    BY DEF Recycle, Unposted, Inverted
  <1>3. \A e \in Events : e[1] \in open => (e \in clear <=> e \in gone) /\ (e \in gone <=> e[1] \in K)
    BY ReportTypes
  <1>4. open' \subseteq Conns /\ new \subseteq Conns /\ K \subseteq Conns
    BY <1>1, <1>2
  <1> HIDE DEF gone, clear
  <1>5. timer_set' = timer_set \ gone /\ posted' = posted \ gone /\ active' = active \ gone
    BY <1>1, <1>2, <1>3
  <1>6. reusable' = reusable \ K
    BY <1>1, <1>2
  <1>7. postq' \in Seq(Events) /\ Lists(postq', posted')
    <2>1. postq' \in Seq(Events) /\ Lists(postq', posted \ (gone \cap posted))
      BY <1>1, <1>2, WithoutLists
    <2>2. posted \ (gone \cap posted) = posted'
      BY <1>5
    <2> QED BY <2>1, <2>2
  <1>8. reuseq' \in Seq(Conns) /\ Lists(reuseq', reusable')
    <2>1. reuseq' \in Seq(Conns) /\ Lists(reuseq', reusable \ (K \cap reusable))
      BY <1>1, <1>2, WithoutLists
    <2>2. reusable \ (K \cap reusable) = reusable'
      BY <1>6
    <2> QED BY <2>1, <2>2
  <1>9. TypeOK'
    <2>1. inst' \in [Conns -> {0, 1}] /\ reborn' \in [Conns -> Nat]
      BY <1>2 DEF TypeOK
    <2>2. kev' \in [Conns -> SUBSET Dirs] /\ avail' \in [Conns -> SUBSET (Dirs \cup {"err"})]
      BY <1>2 DEF TypeOK
    <2>3. /\ open' \subseteq Conns /\ reusable' \subseteq Conns /\ rdl' \subseteq Conns
          /\ active' \subseteq Events /\ ready' \subseteq Events /\ posted' \subseteq Events
          /\ timer_set' \subseteq Events /\ tree' \subseteq Events
      BY <1>1, <1>2, <1>4
    <2> QED BY <1>2, <1>7, <1>8, <2>1, <2>2, <2>3 DEF TypeOK, loop
  <1>10. LinksTrue'
    <2>1. tree' = timer_set'
      BY <1>1, <1>2, <1>5
    <2>2. ASSUME NEW e \in posted' \cup timer_set' PROVE e[1] \in open'
      BY <1>1, <1>2, <1>3, <1>5
    <2>3. reusable' \subseteq open'
      BY <1>1, <1>2, <1>6
    <2> QED BY <1>7, <1>8, <2>1, <2>2, <2>3 DEF LinksTrue
  <1>11. ASSUME NEW c \in Conns, c \notin open
         PROVE  kev[c] = {} /\ \A d \in Dirs : <<c, d>> \notin active
    <2>1. \A d \in Dirs : <<c, d>> \notin active
      BY <1>1, <1>11
    <2> QED BY <2>1 DEF EpollAgrees
  <1>12. EpollAgrees'
    <2>1. ASSUME NEW c \in Conns PROVE kev'[c] = {d \in Dirs : <<c, d>> \in active'}
      <3>1. kev[c] = {d \in Dirs : <<c, d>> \in active}
        BY DEF EpollAgrees
      <3>2. kev'[c] = IF c \in K THEN {} ELSE kev[c]
        BY <1>2
      <3>3. ASSUME NEW d \in Dirs PROVE <<c, d>> \in active' <=> <<c, d>> \in active /\ c \notin K
        <4>1. <<c, d>> \in gone <=> c \in K
          BY DEF gone
        <4> QED BY <4>1, <1>5
      <3> QED BY <3>1, <3>2, <3>3
    <2>2. ASSUME NEW c \in open', kev'[c] # {} PROVE kinst'[c] = inst'[c]
      <3>1. c \in Conns /\ c \notin K /\ kev[c] # {}
        BY <2>2, <1>2, <1>4
      <3>2. c \in open /\ c \notin new
        BY <3>1, <1>11
      <3>3. inst'[c] = inst[c]
        BY <3>1, <3>2, <1>2
      <3> QED BY <3>1, <3>2, <3>3, <1>2 DEF EpollAgrees
    <2> QED BY <2>1, <2>2 DEF EpollAgrees
  <1>13. Watched'
    <2>1. ASSUME NEW e \in active' PROVE e[1] \in open'
      BY <1>1, <1>2, <1>3, <1>5
    <2>2. ASSUME NEW c \in rdl' PROVE c \in open' /\ kev'[c] # {}
      <3>1. c \in rdl /\ c \notin K /\ c \in open /\ c \in Conns /\ kev[c] # {}
        BY <1>1, <1>2 DEF Watched
      <3> QED BY <3>1, <1>2
    <2> QED BY <2>1, <2>2 DEF Watched
  <1>14. NoLostEdge'
    <2>1. SUFFICES ASSUME NEW e \in active', e[2] \in avail'[e[1]]
                   PROVE  e[1] \in rdl' \/ e \in ready' \/ InBatch(e)'
      BY EdgeKeptNext
    <2>2. e \in active /\ e \in Events /\ e[1] \in open /\ e[1] \notin K /\ e[1] \in Conns /\ e[1] \notin new
      <3>1. e \in active /\ e \in Events /\ e[1] \in open /\ e[1] \notin K
        BY <1>1, <1>3, <1>5
      <3> QED BY <3>1, <1>1
    <2>3. avail'[e[1]] = avail[e[1]] /\ inst'[e[1]] = inst[e[1]] /\ e[1] \in open'
      BY <2>2, <1>2
    <2>4. InBatch(e) => InBatch(e)'
      BY <2>3, InBatchSame
    <2>5. e \in ready => e \in ready'
      <3>1. e \notin new \X Dirs
        BY <2>2
      <3> QED BY <3>1, <1>2
    <2> QED BY <2>1, <2>2, <2>3, <2>4, <2>5, <1>2, EdgeKept
  <1>15. PoolExact' /\ Control'
    BY DEF PoolExact, Control, loop
  <1> QED BY <1>9, <1>10, <1>12, <1>13, <1>14, <1>15

LEMMA CloseKept == ASSUME IInv, NEW c \in Conns, Close(c) PROVE IInv'
  <1>1. c \in open /\ free' = <<c>> \o free /\ Recycle({c}, {}) /\ UNCHANGED loop
    BY DEF Close
  <1>2. free \in Seq(Conns) /\ Lists(free, Conns \ open) /\ open' = (open \ {c}) \cup {}
    BY <1>1 DEF IInv, LoopSound, TypeOK, PoolExact, Recycle
  <1>3. free' \in Seq(Conns) /\ Lists(free', (Conns \ open) \cup {c})
    BY <1>1, <1>2, PushLists
  <1>4. (Conns \ open) \cup {c} = Conns \ open'
    BY <1>1, <1>2
  <1>5. {c} \in SUBSET open /\ {} \in SUBSET ((Conns \ open) \cup {c})
    BY <1>1
  <1> QED BY <1>1, <1>3, <1>4, <1>5, Recycled

LEMMA TakeKept == ASSUME IInv, Take PROVE IInv'
  <1> DEFINE c == Head(free)
  <1>1. free # <<>> /\ free' = Tail(free) /\ Recycle({}, {c}) /\ UNCHANGED loop
    BY DEF Take
  <1>2. free \in Seq(Conns) /\ Lists(free, Conns \ open) /\ open' = (open \ {}) \cup {c}
    BY <1>1 DEF IInv, LoopSound, TypeOK, PoolExact, Recycle
  <1>3. free' \in Seq(Conns) /\ c \in Conns \ open /\ Lists(free', (Conns \ open) \ {c})
    BY <1>1, <1>2, TailLists
  <1> HIDE DEF c
  <1>4. (Conns \ open) \ {c} = Conns \ open'
    BY <1>2
  <1>5. {} \in SUBSET open /\ {c} \in SUBSET ((Conns \ open) \cup {})
    BY <1>3
  <1> QED BY <1>1, <1>3, <1>4, <1>5, Recycled

(* ngx_drain_connections(): what was closed last is taken.                 *)
LEMMA DrainKept == ASSUME IInv, DrainAndTake PROVE IInv'
  <1> DEFINE n == Len(Oldest)
             c == Oldest[n]
             K == {Oldest[i] : i \in 1..n}
  <1>1. /\ free = <<>> /\ reuseq # <<>> /\ free' = [i \in 1..(n - 1) |-> Oldest[n - i]]
        /\ Recycle(K, {c}) /\ UNCHANGED loop
    BY DEF DrainAndTake
  <1>2. /\ reuseq \in Seq(Conns) /\ Lists(reuseq, reusable) /\ reusable \subseteq open
        /\ Lists(free, Conns \ open) /\ open \subseteq Conns
    BY DEF IInv, LoopSound, TypeOK, LinksTrue, PoolExact
  <1>3. PICK m \in 1..Len(reuseq) : Oldest = [i \in 1..m |-> reuseq[Len(reuseq) + 1 - i]]
    <2>1. Len(reuseq) \in Nat /\ Len(reuseq) > 0
      BY <1>1, <1>2
    <2>2. (IF Len(reuseq) < DrainMax THEN Len(reuseq) ELSE DrainMax) \in 1..Len(reuseq)
      BY <2>1, EventLoopAssumption
    <2> QED BY <2>2 DEF Oldest
  <1>4. /\ Len(reuseq) \in Nat /\ m \in 1..Len(reuseq)
        /\ \A i \in 1..Len(reuseq) : reuseq[i] \in Conns /\ reuseq[i] \in open
        /\ \A i, j \in 1..Len(reuseq) : reuseq[i] = reuseq[j] => i = j
    BY <1>2, <1>3 DEF Lists
  <1>5. n = m /\ \A i \in 1..m : Oldest[i] = reuseq[Len(reuseq) + 1 - i]
    <2> HIDE DEF c, K
    <2>1. Len([i \in 1..m |-> reuseq[Len(reuseq) + 1 - i]]) = m
      BY <1>4
    <2> QED BY <1>3, <2>1
  <1> HIDE DEF n
  <1>6. \A i \in 1..m : Oldest[i] \in open
    BY <1>4, <1>5
  <1>7. ASSUME NEW i \in 1..m, NEW j \in 1..m, Oldest[i] = Oldest[j] PROVE i = j
    <2>1. reuseq[Len(reuseq) + 1 - i] = reuseq[Len(reuseq) + 1 - j]
      BY <1>5, <1>7
    <2>2. Len(reuseq) + 1 - i \in 1..Len(reuseq) /\ Len(reuseq) + 1 - j \in 1..Len(reuseq)
      BY <1>4
    <2>3. Len(reuseq) + 1 - i = Len(reuseq) + 1 - j
      BY <2>1, <2>2, <1>4
    <2> QED BY <2>3, <1>4
  <1>8. m \in Nat /\ m > 0 /\ n \in 1..m /\ n = m
    BY <1>4, <1>5
  <1>9. /\ free' = [i \in 1..(m - 1) |-> Oldest[m - i]] /\ DOMAIN free' = 1..(m - 1)
        /\ \A i \in 1..(m - 1) : free'[i] = Oldest[m - i] /\ m - i \in 1..m /\ m - i # m
    BY <1>1, <1>8
  <1>10. c \in K /\ K \subseteq open
    BY <1>6, <1>8
  <1>11. free' \in Seq(Conns)
    <2>1. \A i \in 1..(m - 1) : Oldest[m - i] \in Conns
      BY <1>6, <1>9, <1>2
    <2>2. m - 1 \in Nat
      BY <1>8
    <2> QED BY <1>9, <2>1, <2>2
  <1>12. Lists(free', K \ {c})
    <2>1. ASSUME NEW x \in K \ {c} PROVE \E i \in DOMAIN free' : free'[i] = x
      <3>1. PICK i \in 1..m : x = Oldest[i]
        BY <1>8
      <3>2. i # m
        BY <3>1, <1>8
      <3>3. m - i \in 1..(m - 1) /\ m - (m - i) = i
        BY <3>2, <1>8
      <3> QED BY <3>1, <3>3, <1>9
    <2>2. ASSUME NEW i \in DOMAIN free' PROVE free'[i] \in K \ {c}
      <3>1. free'[i] = Oldest[m - i] /\ m - i \in 1..m /\ m - i # m
        BY <1>9
      <3>2. Oldest[m - i] # Oldest[m]
        BY <3>1, <1>7, <1>8
      <3> QED BY <3>1, <3>2, <1>8
    <2>3. ASSUME NEW i \in DOMAIN free', NEW j \in DOMAIN free', free'[i] = free'[j] PROVE i = j
      <3>1. m - i \in 1..m /\ m - j \in 1..m /\ Oldest[m - i] = Oldest[m - j]
        BY <1>9, <2>3
      <3>2. m - i = m - j
        BY <3>1, <1>7
      <3>3. i \in 1..(m - 1) /\ j \in 1..(m - 1)
        BY <1>9
      <3> QED BY <3>2, <3>3, <1>8
    <2> QED BY <2>1, <2>2, <2>3 DEF Lists
  <1>13. open' = (open \ K) \cup {c}
    BY <1>1 DEF Recycle
  <1> HIDE DEF c, K
  <1>14. Conns \ open = {}
    BY <1>1, <1>2 DEF Lists
  <1>15. K \ {c} = Conns \ open'
    BY <1>2, <1>10, <1>13, <1>14
  <1>16. K \in SUBSET open /\ {c} \in SUBSET ((Conns \ open) \cup K)
    BY <1>10
  <1> QED BY <1>1, <1>11, <1>12, <1>15, <1>16, Recycled

-----------------------------------------------------------------------------
(* The loop. *)

Points == {"wait", "read", "write", "accept", "timers", "posted"}

(* The loop moves on, or calls a handler, and no report is worked off.     *)
LEMMA MoveKept ==
  ASSUME IInv, UNCHANGED <<pool, active, ready, reusable, reuseq, kernel, batch, post>>,
         LinksTrue', Control', "write" \notin {pc', ret'},
         posted' \subseteq Events, timer_set' \subseteq Events, tree' \subseteq Events, postq' \in Seq(Events),
         run' \in Events \cup {None}, pc' \in Points \cup {"handler"}, ret' \in Points
  PROVE  IInv'
  <1> USE DEF IInv, LoopSound
  <1>1. TypeOK'
    BY DEF TypeOK, pool, kernel, Points
  <1>2. PoolExact' /\ EpollAgrees' /\ Watched'
    BY DEF PoolExact, EpollAgrees, Watched, pool, kernel
  <1>3. NoLostEdge'
    <2>1. ASSUME NEW e, InBatch(e) PROVE InBatch(e)'
      BY <2>1 DEF InBatch, Stale, pool
    <2>2. UNCHANGED <<active, avail, rdl, ready>>
      BY DEF kernel
    <2> QED BY <2>1, <2>2, EdgeKept, EdgeKeptNext
  <1> QED BY <1>1, <1>2, <1>3

LEMMA AcceptKept == ASSUME IInv, Accept PROVE IInv'
  <1>1. /\ pc \in {"read", "accept"} /\ pc' = "handler" /\ run' = None /\ ret' = pc
        /\ UNCHANGED <<pool, flags, queues, kernel, batch, post>>
    BY DEF Accept, Call
  <1>2. LinksTrue' /\ posted' \subseteq Events /\ timer_set' \subseteq Events /\ tree' \subseteq Events
        /\ postq' \in Seq(Events)
    BY <1>1 DEF IInv, LoopSound, TypeOK, LinksTrue, pool, flags, queues
  <1>3. Control'
    BY <1>1 DEF IInv, Control
  <1>4. UNCHANGED <<pool, active, ready, reusable, reuseq, kernel, batch, post>>
    BY <1>1 DEF flags, queues
  <1> QED BY <1>1, <1>2, <1>3, <1>4, MoveKept DEF Points

LEMMA BatchEndKept == ASSUME IInv, BatchEnd PROVE IInv'
  <1>1. /\ \/ pc = "read" /\ batch = <<>> /\ pc' = "accept"
           \/ pc = "accept" /\ pc' = "timers"
           \/ pc = "posted" /\ pc' = "wait"
        /\ UNCHANGED <<pool, flags, queues, kernel, batch, post, ret, run>>
    BY DEF BatchEnd
  <1>2. LinksTrue' /\ posted' \subseteq Events /\ timer_set' \subseteq Events /\ tree' \subseteq Events
        /\ postq' \in Seq(Events)
    BY <1>1 DEF IInv, LoopSound, TypeOK, LinksTrue, pool, flags, queues
  <1>3. Control' /\ ret' = "wait" /\ run' = None
    BY <1>1 DEF IInv, Control
  <1>4. UNCHANGED <<pool, active, ready, reusable, reuseq, kernel, batch, post>>
    BY <1>1 DEF flags, queues
  <1>5. pc' \in Points /\ pc' # "write"
    BY <1>1 DEF Points
  <1> QED BY <1>1, <1>2, <1>3, <1>4, <1>5, MoveKept DEF Points

LEMMA ExpireKept == ASSUME IInv, Expire PROVE IInv'
  <1>1. /\ pc = "timers"
        /\ UNCHANGED <<pool, active, ready, posted, reusable, postq, reuseq, kernel, batch, post>>
        /\ \/ \E e \in tree : /\ tree' = tree \ {e} /\ timer_set' = timer_set \ {e}
                              /\ pc' = "handler" /\ run' = e /\ ret' = "timers"
           \/ pc' = "posted" /\ UNCHANGED <<tree, timer_set, run, ret>>
    BY DEF Expire, Call
  <1>2. LinksTrue'
    BY <1>1 DEF IInv, LoopSound, LinksTrue, pool
  <1>3. /\ posted' \subseteq Events /\ timer_set' \subseteq Events /\ tree' \subseteq Events
        /\ postq' \in Seq(Events) /\ run' \in Events \cup {None}
    BY <1>1 DEF IInv, LoopSound, TypeOK
  <1>4. Control' /\ ret' \in {"wait", "timers"} /\ pc' \in {"handler", "posted"}
    BY <1>1 DEF IInv, Control
  <1> QED BY <1>1, <1>2, <1>3, <1>4, MoveKept DEF Points

LEMMA ProcessPostedKept == ASSUME IInv, ProcessPosted PROVE IInv'
  <1>1. /\ pc = "posted" /\ postq # <<>>
        /\ posted' = posted \ {Head(postq)} /\ postq' = Tail(postq)
        /\ pc' = "handler" /\ run' = Head(postq) /\ ret' = "posted"
        /\ UNCHANGED <<pool, active, ready, timer_set, reusable, tree, reuseq, kernel, batch, post>>
    BY DEF ProcessPosted, Call
  <1>2. postq \in Seq(Events) /\ Lists(postq, posted) /\ posted \subseteq Events
    BY DEF IInv, LoopSound, LinksTrue, TypeOK
  <1>3. /\ Tail(postq) \in Seq(Events) /\ Head(postq) \in Events
        /\ Lists(Tail(postq), posted \ {Head(postq)})
    BY <1>1, <1>2, TailLists
  <1>4. LinksTrue'
    BY <1>1, <1>3 DEF IInv, LoopSound, LinksTrue, pool
  <1>5. /\ posted' \subseteq Events /\ timer_set' \subseteq Events /\ tree' \subseteq Events
        /\ postq' \in Seq(Events) /\ run' \in Events \cup {None}
    BY <1>1, <1>3 DEF IInv, LoopSound, TypeOK
  <1>6. Control'
    BY <1>1 DEF IInv, Control
  <1> QED BY <1>1, <1>4, <1>5, <1>6, MoveKept DEF Points

(* A half turn for the first report: the events of R, at most one, are     *)
(* delivered, and what else waits in the batch still does.                 *)
LEMMA TurnKept ==
  ASSUME IInv, pc \in {"read", "write"}, batch # <<>>, NEW next \in {"read", "write"},
         UNCHANGED <<pool, active, timer_set, reusable, tree, reuseq, kernel, post>>,
         NEW R \in SUBSET Events, \A e \in R : e[1] \in open,
         \/ R = {} /\ pc' = next /\ UNCHANGED <<ret, run, ready, posted, postq>>
         \/ \E e \in R : R = {e} /\ Deliver(e, next),
         batch' = batch \/ (batch' = Tail(batch) /\ next = "read"),
         \A e \in active : InBatch(e) => InBatch(e)' \/ e \in R
  PROVE  IInv'
  <1> USE DEF IInv, LoopSound
  <1>1. ready' = ready \cup R /\ ready' \subseteq Events
    BY DEF TypeOK, Deliver
  <1>2. /\ posted' \subseteq Events /\ postq' \in Seq(Events) /\ Lists(postq', posted')
        /\ \A f \in posted' : f[1] \in open
    <2>1. CASE UNCHANGED <<posted, postq>>
      BY <2>1 DEF TypeOK, LinksTrue
    <2>2. CASE \E e \in R : PostEvent(e)
      <3>1. PICK e \in R : PostEvent(e)
        BY <2>2
      <3>2. e \in Events /\ e[1] \in open
        OBVIOUS
      <3> QED BY <3>1, <3>2, EventPosted
    <2> QED BY <2>1, <2>2 DEF Deliver
  <1>3. ret = "wait" /\ run = None
    BY DEF Control
  <1>4. \/ pc' = next /\ ret' = ret /\ run' = run
        \/ pc' = "handler" /\ ret' = next /\ run' \in R
    BY DEF Deliver, Call
  <1>5. batch \in Seq(Reports) /\ batch' \in Seq(Reports) /\ (next = "write" => batch' # <<>>)
    BY BatchTypes
  <1>6. TypeOK'
    <2>1. run' \in Events \cup {None} /\ pc' \in Points \cup {"handler"} /\ ret' \in Points
      BY <1>3, <1>4 DEF Points
    <2> QED BY <1>1, <1>2, <1>5, <2>1 DEF TypeOK, pool, kernel, Points, Reports
  <1>7. PoolExact' /\ EpollAgrees' /\ Watched' /\ LinksTrue'
    BY <1>2 DEF PoolExact, EpollAgrees, Watched, LinksTrue, pool, kernel
  <1>8. Control'
    BY <1>3, <1>4, <1>5 DEF Control
  <1>9. NoLostEdge'
    <2>1. UNCHANGED <<active, avail, rdl>>
      BY DEF kernel
    <2> QED BY <2>1, <1>1, EdgeKept, EdgeKeptNext
  <1> QED BY <1>6, <1>7, <1>8, <1>9

(* What is not the first report waits in the batch as before.              *)
LEMMA TailKept ==
  ASSUME TypeOK, batch # <<>>, batch' = Tail(batch), UNCHANGED <<open, inst>>, "write" \notin {pc', ret'},
         NEW e, NEW i \in DOMAIN batch, i # 1,
         batch[i].c = e[1], e[2] \in batch[i].ev, ~Stale(batch[i])
  PROVE  InBatch(e)'
  <1>1. batch \in Seq(Reports) /\ DOMAIN batch = 1..Len(batch) /\ Len(batch) \in Nat
    BY BatchTypes
  <1>2. i - 1 \in DOMAIN batch' /\ batch'[i - 1] = batch[i]
    <2>1. Len(batch') = Len(batch) - 1 /\ DOMAIN batch' = 1..(Len(batch) - 1)
      BY <1>1
    <2>2. i - 1 \in 1..(Len(batch) - 1) /\ i - 1 + 1 = i
      BY <1>1
    <2> QED BY <1>1, <2>1, <2>2
  <1>3. batch[i].c \in open' /\ inst'[batch[i].c] = batch[i].inst
    BY DEF Stale
  <1> QED BY <1>2, <1>3 DEF InBatch, Stale

LEMMA ReadPartKept == ASSUME IInv, ReadPart PROVE IInv'
  <1> DEFINE b == Head(batch)
             e == <<b.c, "in">>
  <1>1. /\ pc = "read" /\ batch # <<>>
        /\ UNCHANGED <<pool, active, timer_set, reusable, tree, reuseq, kernel, post>>
    BY DEF ReadPart
  <1>2. ret = "wait" /\ TypeOK /\ UNCHANGED <<open, inst>>
    BY <1>1 DEF IInv, LoopSound, Control, pool
  <1>3. b \in Reports /\ b = batch[1] /\ 1 \in DOMAIN batch
    <2>1. batch \in Seq(Reports) /\ DOMAIN batch = 1..Len(batch) /\ Len(batch) \in Nat
      BY <1>2, BatchTypes
    <2> QED BY <2>1, <1>1
  <1>4. CASE Stale(b)
    <2>1. batch' = Tail(batch) /\ UNCHANGED <<pc, ret, run, ready, posted, postq>>
      BY <1>4 DEF ReadPart
    <2>2. ASSUME NEW f \in active, InBatch(f) PROVE InBatch(f)'
      <3>1. PICK i \in DOMAIN batch : batch[i].c = f[1] /\ f[2] \in batch[i].ev /\ ~Stale(batch[i])
        BY <2>2 DEF InBatch
      <3>2. i # 1
        BY <3>1, <1>3, <1>4
      <3>3. "write" \notin {pc', ret'}
        BY <1>1, <1>2, <2>1
      <3> QED BY <3>1, <3>2, <3>3, <1>1, <1>2, <2>1, TailKept
    <2>3. {} \in SUBSET Events /\ pc' = "read"
      BY <1>1, <2>1
    <2> HIDE DEF b, e
    <2> QED BY <1>1, <2>1, <2>2, <2>3, TurnKept
  <1>5. CASE ~Stale(b)
    <2> DEFINE R == IF "in" \in b.ev /\ e \in active THEN {e} ELSE {}
    <2>1. /\ batch' = batch
          /\ IF "in" \in b.ev /\ e \in active
               THEN Deliver(e, "write")
               ELSE pc' = "write" /\ UNCHANGED <<ret, run, ready, posted, postq>>
      BY <1>5 DEF ReadPart
    <2>2. R \in SUBSET Events /\ \A f \in R : f[1] \in open
      BY <1>2, <1>5 DEF Stale, TypeOK
    <2>3. ASSUME NEW f \in active, InBatch(f) PROVE InBatch(f)' \/ f \in R
      <3>1. PICK i \in DOMAIN batch : batch[i].c = f[1] /\ f[2] \in batch[i].ev /\ ~Stale(batch[i])
        BY <2>3 DEF InBatch
      <3>2. CASE i = 1 /\ f[2] = "in"
        <4>1. f = <<f[1], f[2]>>
          BY <1>2, ReportTypes DEF TypeOK
        <4> QED BY <3>1, <3>2, <4>1, <1>3
      <3>3. CASE ~(i = 1 /\ f[2] = "in")
        <4>1. ~Stale(batch[i])'
          BY <3>1, <1>2, <2>1 DEF Stale
        <4>2. InBatch(f)'
          BY <3>1, <3>3, <4>1, <2>1 DEF InBatch
        <4> QED BY <4>2
      <3> QED BY <3>2, <3>3
    <2>4. \/ R = {} /\ pc' = "write" /\ UNCHANGED <<ret, run, ready, posted, postq>>
          \/ \E f \in R : R = {f} /\ Deliver(f, "write")
      <3>1. CASE "in" \in b.ev /\ e \in active
        <4>1. R = {e} /\ Deliver(e, "write")
          BY <3>1, <2>1
        <4> HIDE DEF R, e
        <4> QED BY <4>1
      <3>2. CASE ~("in" \in b.ev /\ e \in active)
        BY <3>2, <2>1
      <3> QED BY <3>1, <3>2
    <2> HIDE DEF R, b, e
    <2> QED BY <1>1, <2>1, <2>2, <2>3, <2>4, TurnKept
  <1> QED BY <1>4, <1>5

LEMMA WritePartKept == ASSUME IInv, WritePart PROVE IInv'
  <1> DEFINE b == Head(batch)
             e == <<b.c, "out">>
             R == IF "out" \in b.ev /\ e \in active /\ ~Stale(b) THEN {e} ELSE {}
  <1>1. /\ pc = "write" /\ batch' = Tail(batch)
        /\ UNCHANGED <<pool, active, timer_set, reusable, tree, reuseq, kernel, post>>
        /\ IF "out" \in b.ev /\ e \in active /\ ~Stale(b)
             THEN Deliver(e, "read")
             ELSE pc' = "read" /\ UNCHANGED <<ret, run, ready, posted, postq>>
    BY DEF WritePart
  <1>2. ret = "wait" /\ TypeOK /\ UNCHANGED <<open, inst>> /\ batch # <<>>
    BY <1>1 DEF IInv, LoopSound, Control, pool
  <1>3. b \in Reports /\ b = batch[1] /\ 1 \in DOMAIN batch
    <2>1. batch \in Seq(Reports) /\ DOMAIN batch = 1..Len(batch) /\ Len(batch) \in Nat
      BY <1>2, BatchTypes
    <2> QED BY <2>1, <1>2
  <1>4. R \in SUBSET Events /\ \A f \in R : f[1] \in open
    BY <1>2 DEF Stale, TypeOK
  <1>5. \/ R = {} /\ pc' = "read" /\ UNCHANGED <<ret, run, ready, posted, postq>>
        \/ \E f \in R : R = {f} /\ Deliver(f, "read")
    <2>1. CASE "out" \in b.ev /\ e \in active /\ ~Stale(b)
      <3>1. R = {e} /\ Deliver(e, "read")
        BY <2>1, <1>1
      <3> HIDE DEF R, e
      <3> QED BY <3>1
    <2>2. CASE ~("out" \in b.ev /\ e \in active /\ ~Stale(b))
      BY <2>2, <1>1
    <2> QED BY <2>1, <2>2
  <1>6. "write" \notin {pc', ret'}
    BY <1>1, <1>2 DEF Deliver, Call
  <1>7. ASSUME NEW f \in active, InBatch(f) PROVE InBatch(f)' \/ f \in R
    <2>1. PICK i \in DOMAIN batch : /\ batch[i].c = f[1] /\ f[2] \in batch[i].ev /\ ~Stale(batch[i])
                                    /\ ~(i = 1 /\ f[2] = "in" /\ "write" \in {pc, ret})
      BY <1>7 DEF InBatch
    <2>2. CASE i = 1
      <3>1. f = <<f[1], f[2]>> /\ f[2] \in Dirs
        BY <1>2, ReportTypes DEF TypeOK
      <3>2. f[2] = "out"
        BY <3>1, <2>1, <2>2, <1>1 DEF Dirs
      <3> QED BY <2>1, <2>2, <3>1, <3>2, <1>3
    <2>3. CASE i # 1
      BY <2>1, <2>3, <1>1, <1>2, <1>6, TailKept
    <2> QED BY <2>2, <2>3
  <1> HIDE DEF R, b, e
  <1> QED BY <1>1, <1>2, <1>4, <1>5, <1>7, TurnKept

(* epoll_wait() reports what is ready, in any order, each socket once.     *)
LEMMA OrdersCover ==
  ASSUME NEW S \in SUBSET Conns, NEW s \in Orders(S)
  PROVE  s \in Seq(S) /\ DOMAIN s = 1..Len(s) /\ \A c \in S : \E i \in DOMAIN s : s[i] = c
  <1>1. IsFiniteSet(Conns)
    BY EventLoopAssumption, FS_Interval DEF Conns
  <1>2. IsFiniteSet(S)
    BY <1>1, FS_Subset
  <1> DEFINE k == Cardinality(S)
  <1>3. k \in Nat
    BY <1>2, FS_CardinalityType
  <1>4. s \in [1..k -> S] /\ \A i, j \in 1..k : s[i] = s[j] => i = j
    BY DEF Orders
  <1>5. Cardinality(1..k) = k
    <2>1. 0 <= k /\ 1 \in Int /\ k \in Int
      BY <1>3
    <2> HIDE DEF k
    <2>2. Cardinality(1..k) = IF 1 > k THEN 0 ELSE k - 1 + 1
      BY <2>1, FS_Interval
    <2> QED BY <2>1, <2>2
  <1>6. s \in Injection(1..k, S)
    BY <1>4, Fun_IsInj
  <1>7. s \in Surjection(1..k, S)
    BY <1>2, <1>5, <1>6, FS_Injection
  <1> HIDE DEF k
  <1>8. \A c \in S : \E i \in 1..k : s[i] = c
    BY <1>7 DEF Surjection
  <1>9. s \in Seq(S) /\ DOMAIN s = 1..k /\ Len(s) = k
    BY <1>3, <1>4
  <1> QED BY <1>8, <1>9

LEMMA WaitStep ==
  ASSUME Wait
  PROVE  /\ \E S \in SUBSET Reportable : /\ rdl' = Reportable \ S
              /\ \E s \in Orders(S) :
                   batch' = [i \in DOMAIN s |-> [c |-> s[i], inst |-> kinst[s[i]], ev |-> Revents(s[i])]]
         /\ pc = "wait" /\ pc' = "read" /\ post' \in BOOLEAN /\ reborn' = [c \in Conns |-> 0]
         /\ UNCHANGED <<free, open, inst, flags, queues, kev, kinst, avail, ret, run>>
  BY DEF Wait

(* A fresh report carries the instance bit of its connection.              *)
LEMMA Fresh ==
  ASSUME IInv, Wait
  PROVE  /\ batch' \in Seq(Reports)
         /\ \A i \in DOMAIN batch' : batch'[i].c \in open /\ batch'[i].inst = inst[batch'[i].c]
  <1>0. PICK S \in SUBSET Reportable :
          \E s \in Orders(S) :
            batch' = [i \in DOMAIN s |-> [c |-> s[i], inst |-> kinst[s[i]], ev |-> Revents(s[i])]]
    BY WaitStep
  <1>1. PICK s \in Orders(S) :
          batch' = [i \in DOMAIN s |-> [c |-> s[i], inst |-> kinst[s[i]], ev |-> Revents(s[i])]]
    BY <1>0
  <1>2. Reportable \subseteq open /\ Reportable \subseteq Conns /\ \A c \in Reportable : kinst[c] = inst[c]
    <2>1. ASSUME NEW c \in Reportable PROVE c \in open /\ c \in Conns /\ kev[c] # {}
      BY DEF IInv, LoopSound, Watched, TypeOK, Reportable
    <2> QED BY <2>1 DEF IInv, LoopSound, EpollAgrees
  <1>3. s \in Seq(S) /\ DOMAIN s = 1..Len(s) /\ Len(s) \in Nat
    BY <1>2, OrdersCover
  <1>4. ASSUME NEW i \in DOMAIN s
        PROVE  /\ s[i] \in open /\ kinst[s[i]] = inst[s[i]]
               /\ [c |-> s[i], inst |-> kinst[s[i]], ev |-> Revents(s[i])] \in Reports
    <2>1. s[i] \in S
      BY <1>3
    <2>2. s[i] \in open /\ s[i] \in Conns /\ kinst[s[i]] = inst[s[i]]
      BY <2>1, <1>2
    <2>3. kinst[s[i]] \in {0, 1} /\ Revents(s[i]) \subseteq Dirs
      BY <2>2 DEF IInv, LoopSound, TypeOK, Revents
    <2> QED BY <2>2, <2>3 DEF Reports
  <1>5. batch' \in Seq(Reports)
    BY <1>1, <1>3, <1>4
  <1>6. ASSUME NEW i \in DOMAIN batch' PROVE batch'[i].c \in open /\ batch'[i].inst = inst[batch'[i].c]
    <2>1. i \in DOMAIN s /\ batch'[i].c = s[i] /\ batch'[i].inst = kinst[s[i]]
      BY <1>1
    <2> QED BY <2>1, <1>4
  <1> QED BY <1>5, <1>6

LEMMA WaitKept == ASSUME IInv, Wait PROVE IInv'
  <1> USE DEF IInv, LoopSound
  <1>1. PICK S \in SUBSET Reportable : /\ rdl' = Reportable \ S
           /\ \E s \in Orders(S) :
                batch' = [i \in DOMAIN s |-> [c |-> s[i], inst |-> kinst[s[i]], ev |-> Revents(s[i])]]
    BY WaitStep
  <1>2. PICK s \in Orders(S) :
           batch' = [i \in DOMAIN s |-> [c |-> s[i], inst |-> kinst[s[i]], ev |-> Revents(s[i])]]
    BY <1>1
  <1>3. /\ pc = "wait" /\ pc' = "read" /\ post' \in BOOLEAN /\ reborn' = [c \in Conns |-> 0]
        /\ UNCHANGED <<free, open, inst, flags, queues, kev, kinst, avail, ret, run>>
    BY WaitStep
  <1>4. ret = "wait" /\ run = None /\ batch = <<>>
    BY <1>3 DEF Control
  <1>5. batch' \in Seq(Reports)
        /\ \A i \in DOMAIN batch' : batch'[i].c \in open /\ batch'[i].inst = inst[batch'[i].c]
    BY Fresh
  <1>6. Reportable \subseteq rdl
    BY DEF Reportable
  <1>7. TypeOK'
    <2>1. reborn' \in [Conns -> Nat] /\ rdl' \subseteq Conns
      BY <1>1, <1>3, <1>6 DEF TypeOK
    <2> QED BY <1>3, <1>4, <1>5, <2>1 DEF TypeOK, flags, queues, Reports
  <1>8. PoolExact' /\ LinksTrue' /\ EpollAgrees'
    BY <1>3 DEF PoolExact, LinksTrue, EpollAgrees, flags, queues
  <1>9. Watched' /\ Control'
    BY <1>1, <1>3, <1>4, <1>6 DEF Watched, Control, flags
  <1>10. NoLostEdge'
    <2>1. SUFFICES ASSUME NEW e \in active', e[2] \in avail'[e[1]]
                   PROVE  e[1] \in rdl' \/ e \in ready' \/ InBatch(e)'
      BY EdgeKeptNext
    <2>2. e \in active /\ e \in Events /\ e[2] \in avail[e[1]] /\ ready' = ready
      BY <2>1, <1>3 DEF TypeOK, flags
    <2>3. ~InBatch(e)
      BY <1>4 DEF InBatch
    <2>4. CASE e \in ready
      BY <2>2, <2>4
    <2>5. CASE e[1] \in rdl
      <3>1. e[2] \in kev[e[1]] /\ e[2] \in avail[e[1]] \cap kev[e[1]]
        BY <2>2, ReportTypes DEF EpollAgrees
      <3>2. e[1] \in Reportable /\ e[2] \in Revents(e[1])
        BY <2>5, <3>1 DEF Reportable, Revents
      <3>3. CASE e[1] \notin S
        BY <3>2, <3>3, <1>1
      <3>4. CASE e[1] \in S
        <4>1. S \in SUBSET Conns
          BY <1>6 DEF TypeOK
        <4>2. PICK i \in DOMAIN s : s[i] = e[1]
          BY <3>4, <4>1, OrdersCover
        <4>3. i \in DOMAIN batch' /\ batch'[i].c = e[1] /\ e[2] \in batch'[i].ev
          BY <4>2, <3>2, <1>2
        <4>4. batch'[i].c \in open' /\ inst'[batch'[i].c] = batch'[i].inst
          BY <4>3, <1>3, <1>5
        <4>5. "write" \notin {pc', ret'}
          BY <1>3, <1>4
        <4> QED BY <4>3, <4>4, <4>5 DEF InBatch, Stale
      <3> QED BY <3>3, <3>4
    <2> QED BY <2>2, <2>3, <2>4, <2>5, EdgeKept
  <1> QED BY <1>7, <1>8, <1>9, <1>10

-----------------------------------------------------------------------------
LEMMA InitIInv == ASSUME Init PROVE IInv
  <1>1. TypeOK
    <2>1. free \in Seq(Conns) /\ reuseq \in Seq(Conns) /\ postq \in Seq(Events) /\ batch \in Seq(Reports)
      <3>1. free \in Seq(Conns)
        BY EventLoopAssumption DEF Init, Conns
      <3> QED BY <3>1 DEF Init
    <2>2. /\ inst \in [Conns -> {0, 1}] /\ kinst \in [Conns -> {0, 1}] /\ reborn \in [Conns -> Nat]
          /\ kev \in [Conns -> SUBSET Dirs] /\ avail \in [Conns -> SUBSET (Dirs \cup {"err"})]
      BY DEF Init
    <2> QED BY <2>1, <2>2 DEF Init, TypeOK, Reports
  <1>2. PoolExact
    BY EventLoopAssumption DEF Init, PoolExact, Lists, Conns
  <1>3. LinksTrue
    BY DEF Init, LinksTrue, Lists
  <1>4. EpollAgrees /\ NoLostEdge /\ Watched
    BY DEF Init, EpollAgrees, NoLostEdge, Watched
  <1>5. Control
    BY DEF Init, Control
  <1> QED BY <1>1, <1>2, <1>3, <1>4, <1>5 DEF IInv, LoopSound

LEMMA StutterKept == ASSUME IInv, UNCHANGED vars PROVE IInv'
  <1>1. TypeOK' /\ PoolExact' /\ LinksTrue' /\ EpollAgrees'
    BY DEF IInv, LoopSound, TypeOK, PoolExact, LinksTrue, EpollAgrees, vars, pool, flags, queues, kernel, loop
  <1>2. NoLostEdge' /\ Watched' /\ Control'
    BY DEF IInv, LoopSound, NoLostEdge, Stale, Watched, Control, vars, pool, flags, queues, kernel, loop
  <1> QED BY <1>1, <1>2 DEF IInv, LoopSound

LEMMA StepKept == ASSUME IInv, [Next]_vars PROVE IInv'
  <1>1. CASE Loop
    <2>1. CASE Wait
      BY <2>1, WaitKept
    <2>2. CASE Accept
      BY <2>2, AcceptKept
    <2>3. CASE ReadPart
      BY <2>3, ReadPartKept
    <2>4. CASE WritePart
      BY <2>4, WritePartKept
    <2>5. CASE BatchEnd
      BY <2>5, BatchEndKept
    <2>6. CASE Expire
      BY <2>6, ExpireKept
    <2>7. CASE ProcessPosted
      BY <2>7, ProcessPostedKept
    <2> QED BY <1>1, <2>1, <2>2, <2>3, <2>4, <2>5, <2>6, <2>7 DEF Loop
  <1>2. CASE Return \/ Take \/ DrainAndTake
    BY <1>2, ReturnKept, TakeKept, DrainKept
  <1>3. ASSUME NEW c \in Conns,
               \/ Close(c) \/ AddConn(c)
               \/ \E on \in BOOLEAN : Reusable(c, on)
               \/ \E s \in Signals : Arrive(c, s)
               \/ \E d \in Dirs \cap Signals : AddEvent(c, d) \/ DelEvent(c, d) \/ Consume(c, d)
        PROVE  IInv'
    <2>1. CASE Close(c) \/ AddConn(c)
      BY <2>1, CloseKept, AddConnKept
    <2>2. CASE \E on \in BOOLEAN : Reusable(c, on)
      BY <2>2, ReusableKept
    <2>3. CASE \E s \in Signals : Arrive(c, s)
      BY <2>3, ArriveKept
    <2>4. ASSUME NEW d \in Dirs, AddEvent(c, d) \/ DelEvent(c, d) \/ Consume(c, d) PROVE IInv'
      BY <2>4, AddKept, DelKept, ConsumeKept
    <2> QED BY <1>3, <2>1, <2>2, <2>3, <2>4
  <1>4. ASSUME NEW e \in Events, AddTimer(e) \/ DelTimer(e) \/ Post(e) PROVE IInv'
    BY <1>4, TimersKept, PostKept
  <1>5. CASE UNCHANGED vars
    BY <1>5, StutterKept
  <1> QED BY <1>1, <1>2, <1>3, <1>4, <1>5 DEF Next

(* Whatever the handlers of a batch do, the free list holds every unused   *)
(* connection once (ngx_get_connection(), ngx_free_connection()), queues   *)
(* and timer tree hold what the flags say, epoll watches exactly the       *)
(* active events with the present instance bit, and no readiness that the  *)
(* kernel had to report is forgotten.                                      *)
THEOREM LoopKept == Spec => []LoopSound
  <1>1. IInv => LoopSound
    BY DEF IInv
  <1>2. Init => IInv
    BY InitIInv
  <1>3. IInv /\ [Next]_vars => IInv'
    BY StepKept
  <1> QED BY <1>1, <1>2, <1>3, PTL DEF Spec

-----------------------------------------------------------------------------
(* The instance bit tells how often, but for the last bit of that number,  *)
(* the connection of a report was taken since epoll_wait() returned.       *)
Parity(n) == n % 2

BitTells ==
  \A i \in DOMAIN batch :
    batch[i].inst = inst[batch[i].c] <=> Parity(reborn[batch[i].c]) = 0

LEMMA ParityNext ==
  ASSUME NEW n \in Nat
  PROVE  Parity(n) \in {0, 1} /\ Parity(n + 1) = 1 - Parity(n) /\ Parity(0) = 0
  BY DEF Parity

(* Only ngx_get_connection() changes the bit, and each time it does.       *)
LEMMA PoolSteps ==
  ASSUME IInv, [Next]_vars
  PROVE  \/ Wait
         \/ /\ UNCHANGED <<inst, reborn>>
            /\ batch' = batch \/ (batch' = Tail(batch) /\ batch # <<>>)
         \/ \E K, new : /\ Recycle(K, new) /\ batch' = batch
                        /\ \A c \in new : reborn[c] < MaxReborn
  <1>1. CASE Loop
    <2>1. CASE Accept \/ BatchEnd \/ Expire \/ ProcessPosted
      BY <2>1 DEF Accept, BatchEnd, Expire, ProcessPosted, pool
    <2>2. CASE ReadPart
      BY <2>2 DEF ReadPart, pool
    <2>3. CASE WritePart
      BY <2>3 DEF WritePart, pool, IInv, Control
    <2> QED BY <1>1, <2>1, <2>2, <2>3 DEF Loop
  <1>2. CASE Return
    BY <1>2 DEF Return, pool
  <1>3. CASE Take
    <2>1. Recycle({}, {Head(free)}) /\ UNCHANGED loop /\ reborn[Head(free)] < MaxReborn
      BY <1>3 DEF Take
    <2>2. \A c \in {Head(free)} : reborn[c] < MaxReborn
      BY <2>1
    <2> QED BY <2>1, <2>2 DEF loop
  <1>4. CASE DrainAndTake
    <2> DEFINE n == Len(Oldest)
               c == Oldest[n]
               K == {Oldest[i] : i \in 1..n}
    <2>1. Recycle(K, {c}) /\ UNCHANGED loop /\ reborn[c] < MaxReborn
      BY <1>4 DEF DrainAndTake
    <2> HIDE DEF c, K
    <2>2. \A x \in {c} : reborn[x] < MaxReborn
      BY <2>1
    <2> QED BY <2>1, <2>2 DEF loop
  <1>5. ASSUME NEW c \in Conns, Close(c)
        PROVE  \E K, new : Recycle(K, new) /\ batch' = batch /\ \A x \in new : reborn[x] < MaxReborn
    <2>1. Recycle({c}, {}) /\ batch' = batch
      BY <1>5 DEF Close, loop
    <2> QED BY <2>1
  <1>6. ASSUME NEW c \in Conns,
               \/ AddConn(c) \/ \E on \in BOOLEAN : Reusable(c, on)
               \/ \E s \in Signals : Arrive(c, s)
               \/ \E d \in Dirs \cap Signals : AddEvent(c, d) \/ DelEvent(c, d) \/ Consume(c, d)
        PROVE  UNCHANGED pool /\ UNCHANGED loop
    BY <1>6 DEF AddConn, Reusable, Arrive, AddEvent, DelEvent, Consume
  <1>7. ASSUME NEW e \in Events, AddTimer(e) \/ DelTimer(e) \/ Post(e)
        PROVE  UNCHANGED pool /\ UNCHANGED loop
    BY <1>7 DEF AddTimer, DelTimer, Post
  <1>8. CASE UNCHANGED vars
    BY <1>8 DEF vars, pool, loop
  <1>9. UNCHANGED pool /\ UNCHANGED loop => UNCHANGED <<inst, reborn>> /\ batch' = batch
    BY DEF pool, loop
  <1> QED BY <1>1, <1>2, <1>3, <1>4, <1>5, <1>6, <1>7, <1>8, <1>9 DEF Next

RebornBound == \A c \in Conns : reborn[c] <= MaxReborn

LEMMA BitInit == ASSUME Init PROVE BitTells /\ RebornBound
  BY EventLoopAssumption DEF Init, BitTells, RebornBound

LEMMA BitKept == ASSUME IInv, BitTells, RebornBound, [Next]_vars PROVE BitTells' /\ RebornBound'
  <1>1. TypeOK /\ MaxReborn \in Nat
    BY EventLoopAssumption DEF IInv, LoopSound
  <1>2. /\ batch \in Seq(Reports) /\ DOMAIN batch = 1..Len(batch) /\ Len(batch) \in Nat
        /\ \A i \in DOMAIN batch : batch[i].c \in Conns /\ batch[i].inst \in {0, 1}
    <2>1. /\ batch \in Seq(Reports) /\ DOMAIN batch = 1..Len(batch) /\ Len(batch) \in Nat
          /\ \A i \in DOMAIN batch : batch[i] \in Reports
      BY <1>1, BatchTypes
    <2> QED BY <2>1, ReportTypes
  <1>3. \A c \in Conns : inst[c] \in {0, 1} /\ reborn[c] \in Nat
    BY <1>1 DEF TypeOK
  <1>4. CASE Wait
    <2>1. reborn' = [c \in Conns |-> 0] /\ inst' = inst
      BY <1>4, WaitStep
    <2>2. batch' \in Seq(Reports) /\ \A i \in DOMAIN batch' : batch'[i].inst = inst[batch'[i].c]
      BY <1>4, Fresh
    <2>3. RebornBound'
      BY <2>1, <1>1 DEF RebornBound
    <2>4. ASSUME NEW i \in DOMAIN batch' PROVE batch'[i].c \in Conns
      <3>1. batch'[i] \in Reports
        BY <2>2
      <3> QED BY <3>1, ReportTypes
    <2>5. \A i \in DOMAIN batch' : Parity(reborn'[batch'[i].c]) = 0
      BY <2>1, <2>4, ParityNext
    <2>6. BitTells'
      BY <2>1, <2>2, <2>5 DEF BitTells
    <2> QED BY <2>3, <2>6
  <1>5. CASE UNCHANGED <<inst, reborn>> /\ batch' = batch
    BY <1>5 DEF BitTells, RebornBound
  <1>6. CASE UNCHANGED <<inst, reborn>> /\ batch' = Tail(batch) /\ batch # <<>>
    <2>1. ASSUME NEW i \in DOMAIN batch' PROVE i + 1 \in DOMAIN batch /\ batch'[i] = batch[i + 1]
      BY <1>2, <1>6
    <2>2. BitTells'
      BY <2>1, <1>6 DEF BitTells
    <2> QED BY <1>6, <2>2 DEF RebornBound
  <1>7. ASSUME NEW K, NEW new, Recycle(K, new), batch' = batch, \A c \in new : reborn[c] < MaxReborn
        PROVE  BitTells' /\ RebornBound'
    <2>1. \A c \in Conns :
            /\ inst'[c] = (IF c \in new THEN 1 - inst[c] ELSE inst[c])
            /\ reborn'[c] = (IF c \in new THEN reborn[c] + 1 ELSE reborn[c])
      BY <1>7 DEF Recycle, Inverted
    <2>2. RebornBound'
      <3>1. ASSUME NEW c \in Conns PROVE reborn'[c] <= MaxReborn
        <4>1. CASE c \in new
          BY <4>1, <2>1, <1>1, <1>3, <1>7
        <4>2. CASE c \notin new
          BY <4>2, <2>1 DEF RebornBound
        <4> QED BY <4>1, <4>2
      <3> QED BY <3>1 DEF RebornBound
    <2>3. ASSUME NEW i \in DOMAIN batch
          PROVE  batch[i].inst = inst'[batch[i].c] <=> Parity(reborn'[batch[i].c]) = 0
      <3> DEFINE c == batch[i].c
                 p == Parity(reborn[c])
      <3>1. /\ c \in Conns /\ batch[i].inst \in {0, 1} /\ inst[c] \in {0, 1} /\ p \in {0, 1}
            /\ Parity(reborn[c] + 1) = 1 - p
        BY <1>2, <1>3, ParityNext
      <3>2. batch[i].inst = inst[c] <=> p = 0
        BY DEF BitTells
      <3> HIDE DEF p, c
      <3>3. CASE c \in new
        <4>1. inst'[c] = 1 - inst[c] /\ Parity(reborn'[c]) = 1 - p
          BY <3>1, <3>3, <2>1
        <4>2. batch[i].inst = inst'[c] <=> Parity(reborn'[c]) = 0
          BY <3>1, <3>2, <4>1
        <4> QED BY <4>2 DEF c
      <3>4. CASE c \notin new
        <4>1. inst'[c] = inst[c] /\ reborn'[c] = reborn[c]
          BY <3>1, <3>4, <2>1
        <4> QED BY <4>1, <3>2 DEF c, p
      <3> QED BY <3>3, <3>4
    <2>4. BitTells'
      BY <2>3, <1>7 DEF BitTells
    <2> QED BY <2>2, <2>4
  <1> QED BY <1>4, <1>5, <1>6, <1>7, PoolSteps

(* While the batch is worked off, an event is given to a handler only for  *)
(* the first report, which is not stale.                                   *)
LEMMA Delivered ==
  ASSUME IInv, [Next]_vars, pc \in {"read", "write"}, run' \in Events
  PROVE  batch # <<>> /\ run'[1] = Head(batch).c /\ ~Stale(Head(batch))
  <1>1. run = None /\ run' # run /\ pc # "handler"
    BY ReportTypes DEF IInv, Control
  <1>2. ReadPart \/ WritePart
    <2>1. ~Wait /\ ~Expire /\ ~ProcessPosted
      BY DEF Wait, Expire, ProcessPosted
    <2>2. ~Accept /\ ~BatchEnd
      BY <1>1 DEF Accept, BatchEnd, Call
    <2>3. ~Return /\ ~Take /\ ~DrainAndTake
      BY <1>1 DEF Return, Take, DrainAndTake, Handler
    <2>4. ASSUME NEW c \in Conns,
                 \/ Close(c) \/ AddConn(c)
                 \/ \E on \in BOOLEAN : Reusable(c, on)
                 \/ \E s \in Signals : Arrive(c, s)
                 \/ \E d \in Dirs \cap Signals : AddEvent(c, d) \/ DelEvent(c, d) \/ Consume(c, d)
          PROVE  FALSE
      <3>1. ~(UNCHANGED loop)
        BY <1>1 DEF loop
      <3> QED BY <2>4, <3>1, <1>1 DEF Close, AddConn, Reusable, Arrive, AddEvent, DelEvent, Consume, Handler
    <2>5. ASSUME NEW e \in Events, AddTimer(e) \/ DelTimer(e) \/ Post(e) PROVE FALSE
      BY <2>5, <1>1 DEF AddTimer, DelTimer, Post, Handler
    <2>6. ~(UNCHANGED vars)
      BY <1>1 DEF vars, loop
    <2> QED BY <2>1, <2>2, <2>3, <2>4, <2>5, <2>6 DEF Next, Loop
  <1> DEFINE b == Head(batch)
  <1>3. CASE ReadPart
    <2>1. batch # <<>>
      BY <1>3 DEF ReadPart
    <2>2. ~Stale(b)
      BY <1>3, <1>1 DEF ReadPart
    <2>3. Deliver(<<b.c, "in">>, "write")
      BY <1>3, <2>2, <1>1 DEF ReadPart
    <2>4. run' = <<b.c, "in">>
      BY <2>3, <1>1 DEF Deliver, Call
    <2> QED BY <2>1, <2>2, <2>4
  <1>4. CASE WritePart
    <2>1. batch # <<>>
      BY <1>4 DEF WritePart, IInv, Control
    <2>2. ~Stale(b) /\ Deliver(<<b.c, "out">>, "read")
      BY <1>4, <1>1 DEF WritePart
    <2>3. run' = <<b.c, "out">>
      BY <2>2, <1>1 DEF Deliver, Call
    <2> QED BY <2>1, <2>2, <2>3
  <1> QED BY <1>2, <1>3, <1>4

LEMMA DeliveredEven ==
  ASSUME IInv, BitTells, [Next]_vars, pc \in {"read", "write"}, run' \in Events
  PROVE  run'[1] \in Conns /\ Parity(reborn[run'[1]]) = 0
  <1>1. batch # <<>> /\ run'[1] = Head(batch).c /\ ~Stale(Head(batch))
    BY Delivered
  <1>2. batch \in Seq(Reports) /\ DOMAIN batch = 1..Len(batch) /\ Len(batch) \in Nat
    BY BatchTypes DEF IInv, LoopSound
  <1>3. 1 \in DOMAIN batch /\ Head(batch) = batch[1]
    BY <1>1, <1>2
  <1>4. batch[1].inst = inst[batch[1].c]
    BY <1>1, <1>3 DEF Stale
  <1> QED BY <1>1, <1>3, <1>4, ReportTypes DEF BitTells

(* However often connections are taken again during one batch, a report    *)
(* that reaches a handler is of a connection that was taken an even number *)
(* of times since epoll_wait(): that is all that one instance bit can      *)
(* tell.                                                                   *)
THEOREM EvenTaken ==
  Spec => [][(pc \in {"read", "write"} /\ run' \in Events) => (Parity(reborn[run'[1]]) = 0)]_vars
  <1>1. Init => IInv /\ BitTells /\ RebornBound
    BY InitIInv, BitInit
  <1>2. IInv /\ BitTells /\ RebornBound /\ [Next]_vars => (IInv /\ BitTells /\ RebornBound)'
    BY StepKept, BitKept
  <1>3. IInv /\ BitTells /\ [Next]_vars
        => ((pc \in {"read", "write"} /\ run' \in Events) => (Parity(reborn[run'[1]]) = 0))
    BY DeliveredEven
  <1> QED BY <1>1, <1>2, <1>3, PTL DEF Spec

(* When no connection is taken more than once during a batch, a report     *)
(* never reaches a handler of another connection than the one it is about: *)
(* the instance bit of ngx_epoll_process_events() tells every stale one.   *)
THEOREM NoStale == ASSUME MaxReborn = 1 PROVE Spec => NoStaleEvent
  <1>1. Init => IInv /\ BitTells /\ RebornBound
    BY InitIInv, BitInit
  <1>2. IInv /\ BitTells /\ RebornBound /\ [Next]_vars => (IInv /\ BitTells /\ RebornBound)'
    BY StepKept, BitKept
  <1>3. IInv /\ BitTells /\ RebornBound /\ [Next]_vars
        => ((pc \in {"read", "write"} /\ run' \in Events) => (reborn[run'[1]] = 0))
    <2>1. SUFFICES ASSUME IInv, BitTells, RebornBound, [Next]_vars, pc \in {"read", "write"}, run' \in Events
                   PROVE  reborn[run'[1]] = 0
      OBVIOUS
    <2>2. run'[1] \in Conns /\ Parity(reborn[run'[1]]) = 0
      BY <2>1, DeliveredEven
    <2> DEFINE c == run'[1]
    <2>3. reborn[c] \in Nat /\ reborn[c] <= 1
      <3>1. c \in Conns /\ reborn \in [Conns -> Nat] /\ \A x \in Conns : reborn[x] <= MaxReborn
        BY <2>1, <2>2 DEF IInv, LoopSound, TypeOK, RebornBound
      <3> QED BY <3>1
    <2>4. Parity(1) = 1
      BY DEF Parity
    <2> QED BY <2>2, <2>3, <2>4
  <1> QED BY <1>1, <1>2, <1>3, PTL DEF Spec, NoStaleEvent

=============================================================================
