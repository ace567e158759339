--------------------------- MODULE UpstreamProofs ---------------------------
(***************************************************************************)
(* What holds of Upstream for any number of requests, servers, connections *)
(* and answers: peers are counted exactly, a connection has one holder and *)
(* is idle only between two requests, a client gets the answer to its own  *)
(* request, and what must not be repeated reaches one server.              *)
(*                                                                         *)
(* First the inductive invariant IInv, what the helpers of Upstream return *)
(* and how a step that leaves a part of the state alone keeps the          *)
(* conjuncts about it.  Then the steps that send a request and those that  *)
(* read the answer of a server and pass it on: through the pipe, through   *)
(* the buffer or into memory.  Then those in which a connection changes    *)
(* its holder (a server is chosen and connected to, from scratch or from   *)
(* the cache, left for the next one, or given back when the request ends), *)
(* the events, and the theorems.                                           *)
(***************************************************************************)
EXTENDS Upstream, FiniteSetTheorems, SequenceTheorems, TLAPS

-----------------------------------------------------------------------------
(* What the variables are.                                                 *)
AnswerPieces == [to : Requests, x : Nat, n : Nat, rsp : Answers]

Kinds ==
  [body : BOOLEAN, idempotent : BOOLEAN, mode : {"pipe", "direct", "memory"},
   unbuffered : BOOLEAN, cacheable : BOOLEAN]

UpstreamStates ==
  [st : {"new", "running", "done"}, kind : Kinds, peer : Peers \cup {None},
   conn : Conns \cup {None}, cached : BOOLEAN, tries : 0..Cardinality(Peers),
   tried : SUBSET Peers, x : Nat, left : 0..2, reading : BOOLEAN,
   request_sent : BOOLEAN, body_sent : BOOLEAN, header_sent : BOOLEAN,
   keepalive : BOOLEAN, length : Int, weh : {"send", "dummy"},
   reh : {"header", "pipe", "direct", "memory"}, head : Seq(AnswerPieces),
   busy : Seq(AnswerPieces), error : BOOLEAN, down : BOOLEAN, wtimer : BOOLEAN,
   served : SUBSET Nat, again : BOOLEAN]

Exchanges == [to : Requests \cup {0}, x : Nat]

ConnStates ==
  [st : {"closed", "connecting", "open", "refused"}, peer : Peers \cup {None},
   srv : Exchanges, rsp : Seq(Answers), n : Nat, need : Nat,
   inq : Seq(AnswerPieces), fin : BOOLEAN, rnews : BOOLEAN, wnews : BOOLEAN,
   rready : BOOLEAN, wready : BOOLEAN, rtimer : BOOLEAN, wtimer : BOOLEAN,
   eof : BOOLEAN, rtimedout : BOOLEAN, wtimedout : BOOLEAN]

Types ==
  /\ u \in [Requests -> UpstreamStates]
  /\ conn \in [Conns -> ConnStates]
  /\ conns \in [Peers -> Int]
  /\ cache \in Seq(Conns) /\ Len(cache) <= CacheMax
  /\ exiting \in BOOLEAN
  /\ got \in [Requests -> Seq(AnswerPieces)]

-----------------------------------------------------------------------------
(* The worker runs a request that is running; a request without connection *)
(* is not started, done, or the one that the worker runs.                  *)
Control ==
  /\ at.f # "rest" => at.i \in Requests /\ u[at.i].st = "running"
  /\ at.f = "connect" => u[at.i].conn = None /\ u[at.i].peer = None
  /\ at.f = "next" => u[at.i].peer # None \/ at.v # "ERROR"
  /\ \A i \in Requests :
       /\ u[i].st # "running" => u[i].conn = None /\ u[i].peer = None
       /\ u[i].conn # None => u[i].peer # None
       /\ u[i].st = "running" /\ u[i].conn = None
            => at.i = i /\ at.f \in {"connect", "next", "finalize"}
       /\ u[i].st = "new" => u[i].served = {}

(* Who holds a connection.                                                 *)
In(s, k) == \E a \in 1..Len(s) : s[a] = k
Distinct(s) == \A a, b \in 1..Len(s) : s[a] = s[b] => a = b

Holding ==
  /\ \A i, j \in Requests : u[i].conn # None /\ u[i].conn = u[j].conn => i = j
  /\ Distinct(cache)
  /\ \A i \in Requests : ~In(cache, u[i].conn)
  /\ \A k \in Conns :
       conn[k].st = "closed" <=> (\A i \in Requests : u[i].conn # k) /\ ~In(cache, k)
  /\ exiting => cache = <<>>

-----------------------------------------------------------------------------
(* A connection: what is in flight is the end of what the server sent of   *)
(* its answer.                                                             *)
PieceOf(c, n) == [to |-> c.srv.to, x |-> c.srv.x, n |-> n, rsp |-> c.rsp[1]]

ConnSound(c) ==
  /\ c.rsp = <<>> => c.n = 0 /\ c.inq = <<>>
  /\ c.rsp # <<>> =>
       /\ c.rsp = <<c.rsp[1]>> /\ c.srv # Nobody
       /\ c.n \in 1..(1 + c.rsp[1].body) /\ Len(c.inq) <= c.n
       /\ \A j \in 1..Len(c.inq) : c.inq[j] = PieceOf(c, c.n - Len(c.inq) + j - 1)

\* nothing is in flight and the server has nothing more to say
Quiet(c) ==
  /\ c.inq = <<>>
  /\ c.srv = Nobody \/ (c.rsp # <<>> /\ c.n = 1 + c.rsp[1].body)

IdleSound(c) ==
  /\ Quiet(c) /\ c.rsp # <<>> /\ c.need = 0 /\ ~c.rready
  /\ ~c.rtimer /\ ~c.wtimer /\ ~c.rtimedout /\ ~c.wtimedout

ConnsSound ==
  /\ \A k \in Conns : ConnSound(conn[k])
  /\ \A k \in Conns : In(cache, k) => IdleSound(conn[k])
  /\ \A k \in Conns, i \in Requests :
       conn[k].srv.to = i =>
         u[i].st # "new" /\ (u[i].st = "running" => conn[k].srv.x <= u[i].x)

-----------------------------------------------------------------------------
(* A request i with w = u[i], its connection c and what its client got, g, *)
(* while the worker runs a.                                                *)
PiecesOf(w) == IF w.kind.body THEN 2 ELSE 1
Current(i, w, c) == c.srv = [to |-> i, x |-> w.x]
ReadOf(c) == c.n - Len(c.inq)
Runs(a, i, F) == a.i = i /\ a.f \in F

\* what the server has of the request
Sending(i, w, c) ==
  /\ w.left <= PiecesOf(w)
  /\ w.left = PiecesOf(w) => ~Current(i, w, c)
  /\ ~Current(i, w, c) => Quiet(c)
  /\ Current(i, w, c) => w.request_sent
  /\ ~c.fin /\ w.left < PiecesOf(w) => Current(i, w, c)
  /\ ~c.fin => c.need = IF w.left = PiecesOf(w) THEN 0 ELSE w.left
  /\ w.reading => w.left >= 1
  /\ w.body_sent => w.left = 0

\* a header was read, and what follows it is counted
Headed(i, w, c) ==
  /\ Current(i, w, c) /\ c.rsp # <<>> /\ ReadOf(c) >= 1
  /\ w.head # <<>> /\ w.head[1].rsp = c.rsp[1]

Passing(i, w, c, g, a) ==
  /\ Headed(i, w, c) /\ w.reh = w.kind.mode
  /\ w.length = IF c.rsp[1].framed THEN 1 + c.rsp[1].body - ReadOf(c) ELSE -1
  /\ w.keepalive => /\ c.rsp[1].framed /\ w.length = 0
                    /\ \/ c.rready
                       \/ w.left = 0 /\ c.need = 0
                       \/ (c.eof \/ ~w.body_sent) /\ Runs(a, i, {"finalize"})
  /\ ~w.down => /\ Len(g \o w.busy) = ReadOf(c)
                /\ \A n \in 1..ReadOf(c) : (g \o w.busy)[n] = PieceOf(c, n - 1)

\* ... it was just read
Parsed(i, w, c) ==
  /\ Headed(i, w, c) /\ w.reh = "header" /\ c.rready
  /\ c.inq = <<>> /\ Len(w.head) = c.n
  /\ \A n \in 1..Len(w.head) : w.head[n] = PieceOf(c, n - 1)
  /\ w.length = IF c.rsp[1].framed THEN c.rsp[1].body ELSE -1

ReqSound(i, w, c, g, a) ==
  /\ Sending(i, w, c)
  /\ w.reh = "header" =>
       /\ ~w.keepalive
       /\ c.rready => Runs(a, i, {"header", "respond", "next", "finalize"})
  /\ w.reh # "header" /\ ~Runs(a, i, {"next"}) => Passing(i, w, c, g, a)
  /\ w.wtimer => w.reh = "direct" \/ (w.again /\ w.reh = "header")
  /\ w.reh \in {"pipe", "direct"} => w.header_sent
  /\ Runs(a, i, {"header"}) => w.reh = "header" \/ w.left = 0
  /\ Runs(a, i, {"header", "memory"}) => c.rready \/ c.rtimedout
  /\ Runs(a, i, {"respond"}) => Parsed(i, w, c)
  /\ Runs(a, i, {"pipe", "memory"}) => w.reh = a.f
  /\ Runs(a, i, {"direct"}) => w.reh = "direct" \/ (w.again /\ a.v # "read" /\ w.reh = "header")
  /\ Runs(a, i, {"direct"}) /\ a.v = "fill" => w.busy # <<>> \/ w.length # 0
  /\ Runs(a, i, {"next"}) => a.v # "HTTP_404" \/ ~w.keepalive

OneAnswer(i, s) ==
  \A n \in 1..Len(s) : s[n].to = i /\ s[n].x = s[1].x /\ s[n].n = n - 1

Complete(w, g) ==
  w.kind.mode # "memory" /\ ~w.down /\ ~w.again
    => g # <<>> /\ (g[1].rsp.framed => Len(g) = 1 + g[1].rsp.body)

OnceOnly(w) ==
  \/ ~w.kind.idempotent /\ "NON_IDEMPOTENT" \notin NextOn
  \/ w.kind.body /\ w.kind.unbuffered

\* what holds of a request with and without a connection
BaseSound(i, w, g, a) ==
  /\ ~w.header_sent => w.busy = <<>> /\ ~w.wtimer /\ ~w.down
  /\ w.keepalive => w.request_sent
  /\ w.down => w.kind.mode = "pipe"
  /\ w.kind.mode # "direct" => w.busy = <<>>
  /\ w.header_sent => w.kind.mode # "memory"
  /\ w.conn = None => w.again \/ ~w.header_sent
  /\ OneAnswer(i, g \o w.busy)
  /\ Runs(a, i, {"finalize"}) /\ a.v = "0" => Complete(w, g)
  /\ OnceOnly(w) =>
       /\ w.served \subseteq {w.x}
       /\ w.served # {} => w.request_sent
       /\ Runs(a, i, {"connect"}) => w.served = {}

Exchange ==
  \A i \in Requests :
    /\ BaseSound(i, u[i], got[i], at)
    /\ u[i].conn # None => ReqSound(i, u[i], conn[u[i].conn], got[i], at)

IInv == Types /\ Control /\ Holding /\ ConnsExact /\ ConnsSound /\ Exchange

-----------------------------------------------------------------------------
(* Sequences without repetition.                                           *)
LEMMA Removed ==
  ASSUME NEW S, NEW s \in Seq(S), NEW j \in 1..Len(s)
  PROVE  /\ Remove(s, j) \in Seq(S) /\ Len(Remove(s, j)) = Len(s) - 1
         /\ \A a \in 1..(Len(s) - 1) : Remove(s, j)[a] = IF a < j THEN s[a] ELSE s[a + 1]
  <1> DEFINE p == SubSeq(s, 1, j - 1)
             q == SubSeq(s, j + 1, Len(s))
  <1>1. p \in Seq(S) /\ Len(p) = j - 1 /\ \A a \in 1..(j - 1) : p[a] = s[a]
    <2>1. \A a \in 1..(j - 1) : s[a] \in S
      OBVIOUS
    <2>2. QED
      BY <2>1, SubSeqProperties
  <1>2. q \in Seq(S) /\ Len(q) = Len(s) - j /\ \A a \in 1..(Len(s) - j) : q[a] = s[j + a]
    <2>1. \A a \in (j + 1)..Len(s) : s[a] \in S
      OBVIOUS
    <2>2. QED
      BY <2>1, SubSeqProperties
  <1> HIDE DEF p, q
  <1>3. /\ p \o q \in Seq(S) /\ Len(p \o q) = Len(s) - 1
        /\ \A a \in 1..(Len(s) - 1) : (p \o q)[a] = IF a <= j - 1 THEN p[a] ELSE q[a - (j - 1)]
    BY <1>1, <1>2, ConcatProperties
  <1>4. ASSUME NEW a \in 1..(Len(s) - 1)
        PROVE  (p \o q)[a] = IF a < j THEN s[a] ELSE s[a + 1]
    <2>1. CASE a < j
      BY <2>1, <1>1, <1>3
    <2>2. CASE ~(a < j)
      <3>1. a - (j - 1) \in 1..(Len(s) - j) /\ j + (a - (j - 1)) = a + 1
        BY <2>2
      <3>2. q[a - (j - 1)] = s[a + 1]
        BY <3>1, <1>2
      <3>3. ~(a <= j - 1)
        BY <2>2
      <3>4. QED
        BY <3>2, <3>3, <2>2, <1>3
    <2>3. QED
      BY <2>1, <2>2
  <1>5. QED
    BY <1>3, <1>4 DEF Remove, p, q

LEMMA RemovedDistinct ==
  ASSUME NEW S, NEW s \in Seq(S), Distinct(s), NEW j \in 1..Len(s)
  PROVE  /\ Remove(s, j) \in Seq(S) /\ Len(Remove(s, j)) = Len(s) - 1
         /\ Distinct(Remove(s, j))
         /\ \A x : In(Remove(s, j), x) <=> In(s, x) /\ x # s[j]
  <1> DEFINE r == Remove(s, j)
  <1>1. /\ r \in Seq(S) /\ Len(r) = Len(s) - 1 /\ Len(s) \in Nat
        /\ \A a \in 1..(Len(s) - 1) : r[a] = IF a < j THEN s[a] ELSE s[a + 1]
    BY Removed
  <1> HIDE DEF r
  <1>2. Distinct(r)
    BY <1>1 DEF Distinct
  <1>3. ASSUME NEW x, In(r, x) PROVE In(s, x) /\ x # s[j]
    <2>1. PICK a \in 1..(Len(s) - 1) : r[a] = x
      BY <1>1, <1>3 DEF In
    <2>2. CASE a < j
      BY <2>1, <2>2, <1>1 DEF In, Distinct
    <2>3. CASE ~(a < j)
      BY <2>1, <2>3, <1>1 DEF In, Distinct
    <2>4. QED
      BY <2>2, <2>3
  <1>4. ASSUME NEW x, In(s, x), x # s[j] PROVE In(r, x)
    <2>1. PICK a \in 1..Len(s) : s[a] = x /\ a # j
      BY <1>4 DEF In
    <2>2. CASE a < j
      BY <2>1, <2>2, <1>1 DEF In
    <2>3. CASE a > j
      <3>1. a - 1 \in 1..(Len(s) - 1) /\ ~(a - 1 < j) /\ (a - 1) + 1 = a
        BY <2>3, <1>1
      <3>2. r[a - 1] = x
        BY <3>1, <2>1, <1>1
      <3>3. QED
        BY <3>1, <3>2, <1>1 DEF In
    <2>4. QED
      BY <2>1, <2>2, <2>3
  <1>5. QED
    BY <1>1, <1>2, <1>3, <1>4 DEF r

LEMMA TakenOut ==
  ASSUME NEW S, NEW s \in Seq(S), Distinct(s), NEW k, In(s, k)
  PROVE  /\ Without(s, k) \in Seq(S) /\ Len(Without(s, k)) = Len(s) - 1
         /\ Distinct(Without(s, k))
         /\ \A x : In(Without(s, k), x) <=> In(s, x) /\ x # k
  <1> DEFINE j == CHOOSE j \in 1..Len(s) : s[j] = k
  <1>1. j \in 1..Len(s) /\ s[j] = k
    BY DEF In
  <1> HIDE DEF j
  <1>2. QED
    BY <1>1, RemovedDistinct DEF Without, j

LEMMA FrontDistinct ==
  ASSUME NEW S, NEW s \in Seq(S), Distinct(s), Len(s) > 0
  PROVE  /\ SubSeq(s, 1, Len(s) - 1) \in Seq(S)
         /\ Len(SubSeq(s, 1, Len(s) - 1)) = Len(s) - 1
         /\ Distinct(SubSeq(s, 1, Len(s) - 1))
         /\ \A x : In(SubSeq(s, 1, Len(s) - 1), x) <=> In(s, x) /\ x # s[Len(s)]
  <1> DEFINE f == SubSeq(s, 1, Len(s) - 1)
  <1>1. f \in Seq(S) /\ Len(f) = Len(s) - 1 /\ \A a \in 1..(Len(s) - 1) : f[a] = s[a]
    <2>1. (\A a \in 1..(Len(s) - 1) : s[a] \in S) /\ Len(s) \in Nat /\ Len(s) - 1 \in Nat
      OBVIOUS
    <2>2. \A a \in 1..(Len(s) - 1) : 1 + a - 1 = a
      BY <2>1
    <2>3. /\ f \in Seq(S) /\ Len(f) = Len(s) - 1
          /\ \A a \in 1..(Len(s) - 1) : f[a] = s[1 + a - 1]
      <3> DEFINE n == Len(s) - 1
      <3>a. n \in Nat
        BY <2>1
      <3>2. \A a \in 1..n : s[a] \in S
        BY <2>1
      <3> HIDE DEF n
      <3>1. n \in Nat /\ n - 1 + 1 = n /\ (~(1 <= n) => n = 0)
        BY <3>a
      <3>3. /\ SubSeq(s, 1, n) \in Seq(S)
            /\ Len(SubSeq(s, 1, n)) = IF 1 <= n THEN n - 1 + 1 ELSE 0
            /\ \A a \in 1..(n - 1 + 1) : SubSeq(s, 1, n)[a] = s[1 + a - 1]
        BY <3>1, <3>2, SubSeqProperties
      <3>4. Len(SubSeq(s, 1, n)) = n
        BY <3>1, <3>3
      <3>5. QED
        BY <3>1, <3>3, <3>4 DEF n, f
    <2>4. QED
      BY <2>2, <2>3
  <1> HIDE DEF f
  <1>2. Distinct(f)
    BY <1>1 DEF Distinct
  <1>3. ASSUME NEW x PROVE In(f, x) <=> In(s, x) /\ x # s[Len(s)]
    BY <1>1 DEF In, Distinct
  <1>4. QED
    BY <1>1, <1>2, <1>3 DEF f

LEMMA PutInFront ==
  ASSUME NEW S, NEW s \in Seq(S), Distinct(s), NEW k \in S, ~In(s, k)
  PROVE  /\ <<k>> \o s \in Seq(S) /\ Len(<<k>> \o s) = Len(s) + 1
         /\ Distinct(<<k>> \o s)
         /\ \A x : In(<<k>> \o s, x) <=> x = k \/ In(s, x)
  <1> DEFINE t == <<k>> \o s
  <1>1. <<k>> \in Seq(S) /\ Len(<<k>>) = 1 /\ <<k>>[1] = k
    OBVIOUS
  <1>2. /\ t \in Seq(S) /\ Len(t) = 1 + Len(s) /\ Len(s) \in Nat
        /\ \A a \in 1..(1 + Len(s)) : t[a] = IF a <= 1 THEN <<k>>[a] ELSE s[a - 1]
    BY <1>1, ConcatProperties
  <1>3. t[1] = k /\ \A a \in 2..(1 + Len(s)) : a - 1 \in 1..Len(s) /\ t[a] = s[a - 1]
    BY <1>1, <1>2
  <1> HIDE DEF t
  <1>4. Distinct(t)
    <2>1. SUFFICES ASSUME NEW a \in 1..(1 + Len(s)), NEW b \in 1..(1 + Len(s)), t[a] = t[b]
                   PROVE  a = b
      BY <1>2 DEF Distinct
    <2>2. CASE a = 1 \/ b = 1
      <3>1. ASSUME NEW c \in 2..(1 + Len(s)) PROVE t[c] # k
        BY <1>3 DEF In
      <3>2. QED
        BY <3>1, <2>1, <2>2, <1>2, <1>3
    <2>3. CASE a # 1 /\ b # 1
      <3>1. a \in 2..(1 + Len(s)) /\ b \in 2..(1 + Len(s))
        BY <2>3, <1>2
      <3>2. a - 1 = b - 1
        BY <3>1, <2>1, <1>3 DEF Distinct
      <3>3. QED
        BY <3>1, <3>2, <1>2
    <2>4. QED
      BY <2>2, <2>3
  <1>5. ASSUME NEW x, In(t, x) PROVE x = k \/ In(s, x)
    BY SMTT(60), <1>2, <1>3, <1>5 DEF In
  <1>6. ASSUME NEW x, In(s, x) PROVE In(t, x)
    <2>1. PICK a \in 1..Len(s) : s[a] = x
      BY <1>6 DEF In
    <2>2. a + 1 \in 2..(1 + Len(s)) /\ (a + 1) - 1 = a
      BY <1>2
    <2>3. t[a + 1] = x
      BY <2>1, <2>2, <1>3
    <2>4. QED
      BY SMTT(60), <2>2, <2>3, <1>2 DEF In
  <1>7. In(t, k)
    BY <1>2, <1>3 DEF In
  <1>8. QED
    BY <1>2, <1>4, <1>5, <1>6, <1>7 DEF t

-----------------------------------------------------------------------------
LEMMA Joins ==
  ASSUME NEW S, IsFiniteSet(S), NEW x, x \notin S
  PROVE  Cardinality(S \cup {x}) = Cardinality(S) + 1 /\ Cardinality(S) \in Nat
  BY FS_AddElement, FS_CardinalityType

LEMMA Leaves ==
  ASSUME NEW S, IsFiniteSet(S), NEW x \in S
  PROVE  Cardinality(S \ {x}) = Cardinality(S) - 1 /\ Cardinality(S) \in Nat \ {0}
  BY Zenon, FS_RemoveElement, FS_CardinalityType, FS_EmptySet

LEMMA NewType ==
  ASSUME NEW kind \in Kinds
  PROVE  NewUpstream(kind) \in UpstreamStates
  <1>1. Cardinality(Peers) \in Nat
    BY UpstreamAssumption, FS_CardinalityType
  <1>2. 0 \in 0..Cardinality(Peers)
    BY <1>1
  <1>3. QED
    BY <1>2 DEF NewUpstream, UpstreamStates, None

LEMMA UnusedType == Unused \in ConnStates /\ ConnSound(Unused)
  <1>1. Nobody \in Exchanges /\ <<>> \in Seq(Answers) /\ <<>> \in Seq(AnswerPieces)
    BY DEF Nobody, Exchanges
  <1>2. Unused \in ConnStates
    BY <1>1 DEF Unused, ConnStates, None
  <1>3. QED
    BY <1>2 DEF Unused, ConnSound

LEMMA SameSound ==
  ASSUME NEW c, NEW d, d.srv = c.srv, d.rsp = c.rsp, d.n = c.n, d.inq = c.inq, ConnSound(c)
  PROVE  ConnSound(d)
  <1>1. \A n : PieceOf(d, n) = PieceOf(c, n)
    BY DEF PieceOf
  <1>2. QED
    BY <1>1 DEF ConnSound

(* A request that the worker does not run does not see what it runs.       *)
LEMMA Beside ==
  ASSUME NEW j \in Requests, NEW w, NEW c, NEW g, NEW a, NEW b,
         a.f = "rest" \/ a.i # j, b.f = "rest" \/ b.i # j
  PROVE  /\ ReqSound(j, w, c, g, a) => ReqSound(j, w, c, g, b)
         /\ BaseSound(j, w, g, a) => BaseSound(j, w, g, b)
  <1>1. ASSUME NEW F, "rest" \notin F PROVE ~Runs(a, j, F) /\ ~Runs(b, j, F)
    BY <1>1 DEF Runs
  <1>2. Passing(j, w, c, g, a) => Passing(j, w, c, g, b)
    BY <1>1 DEF Passing
  <1>3. /\ ~Runs(a, j, {"next"}) /\ ~Runs(a, j, {"header", "respond", "next", "finalize"})
        /\ ~Runs(b, j, {"next"}) /\ ~Runs(b, j, {"header"}) /\ ~Runs(b, j, {"header", "memory"})
        /\ ~Runs(b, j, {"respond"}) /\ ~Runs(b, j, {"pipe", "memory"}) /\ ~Runs(b, j, {"direct"})
        /\ ~Runs(b, j, {"finalize"}) /\ ~Runs(b, j, {"connect"})
    BY <1>1
  <1>4. ReqSound(j, w, c, g, a) => ReqSound(j, w, c, g, b)
    BY <1>2, <1>3 DEF ReqSound
  <1>5. BaseSound(j, w, g, a) => BaseSound(j, w, g, b)
    BY <1>3 DEF BaseSound
  <1>6. QED
    BY <1>4, <1>5

-----------------------------------------------------------------------------
(* A field is set.                                                         *)
LEMMA UpstreamSet ==
  ASSUME NEW w \in UpstreamStates
  PROVE  /\ \A b \in BOOLEAN : [w EXCEPT !.cached = b] \in UpstreamStates
         /\ \A b \in BOOLEAN : [w EXCEPT !.reading = b] \in UpstreamStates
         /\ \A b \in BOOLEAN : [w EXCEPT !.request_sent = b] \in UpstreamStates
         /\ \A b \in BOOLEAN : [w EXCEPT !.body_sent = b] \in UpstreamStates
         /\ \A b \in BOOLEAN : [w EXCEPT !.header_sent = b] \in UpstreamStates
         /\ \A b \in BOOLEAN : [w EXCEPT !.keepalive = b] \in UpstreamStates
         /\ \A b \in BOOLEAN : [w EXCEPT !.error = b] \in UpstreamStates
         /\ \A b \in BOOLEAN : [w EXCEPT !.down = b] \in UpstreamStates
         /\ \A b \in BOOLEAN : [w EXCEPT !.wtimer = b] \in UpstreamStates
         /\ \A b \in BOOLEAN : [w EXCEPT !.again = b] \in UpstreamStates
         /\ \A s \in {"new", "running", "done"} : [w EXCEPT !.st = s] \in UpstreamStates
         /\ \A p \in Peers \cup {None} : [w EXCEPT !.peer = p] \in UpstreamStates
         /\ \A k \in Conns \cup {None} : [w EXCEPT !.conn = k] \in UpstreamStates
         /\ \A n \in 0..Cardinality(Peers) : [w EXCEPT !.tries = n] \in UpstreamStates
         /\ \A s \in SUBSET Peers : [w EXCEPT !.tried = s] \in UpstreamStates
         /\ \A n \in Nat : [w EXCEPT !.x = n] \in UpstreamStates
         /\ \A n \in 0..2 : [w EXCEPT !.left = n] \in UpstreamStates
         /\ \A n \in Int : [w EXCEPT !.length = n] \in UpstreamStates
         /\ \A h \in {"send", "dummy"} : [w EXCEPT !.weh = h] \in UpstreamStates
         /\ \A h \in {"header", "pipe", "direct", "memory"} : [w EXCEPT !.reh = h] \in UpstreamStates
         /\ \A s \in Seq(AnswerPieces) : [w EXCEPT !.head = s] \in UpstreamStates
         /\ \A s \in Seq(AnswerPieces) : [w EXCEPT !.busy = s] \in UpstreamStates
         /\ \A s \in SUBSET Nat : [w EXCEPT !.served = s] \in UpstreamStates
  <1>1. \A b \in BOOLEAN : [w EXCEPT !.cached = b] \in UpstreamStates
    BY ZenonT(120) DEF UpstreamStates
  <1>2. \A b \in BOOLEAN : [w EXCEPT !.reading = b] \in UpstreamStates
    BY ZenonT(120) DEF UpstreamStates
  <1>3. \A b \in BOOLEAN : [w EXCEPT !.request_sent = b] \in UpstreamStates
    BY ZenonT(120) DEF UpstreamStates
  <1>4. \A b \in BOOLEAN : [w EXCEPT !.body_sent = b] \in UpstreamStates
    BY ZenonT(120) DEF UpstreamStates
  <1>5. \A b \in BOOLEAN : [w EXCEPT !.header_sent = b] \in UpstreamStates
    BY ZenonT(120) DEF UpstreamStates
  <1>6. \A b \in BOOLEAN : [w EXCEPT !.keepalive = b] \in UpstreamStates
    BY ZenonT(120) DEF UpstreamStates
  <1>7. \A b \in BOOLEAN : [w EXCEPT !.error = b] \in UpstreamStates
    BY ZenonT(120) DEF UpstreamStates
  <1>8. \A b \in BOOLEAN : [w EXCEPT !.down = b] \in UpstreamStates
    BY ZenonT(120) DEF UpstreamStates
  <1>9. \A b \in BOOLEAN : [w EXCEPT !.wtimer = b] \in UpstreamStates
    BY ZenonT(120) DEF UpstreamStates
  <1>10. \A b \in BOOLEAN : [w EXCEPT !.again = b] \in UpstreamStates
    BY ZenonT(120) DEF UpstreamStates
  <1>11. \A s \in {"new", "running", "done"} : [w EXCEPT !.st = s] \in UpstreamStates
    BY ZenonT(120) DEF UpstreamStates
  <1>12. \A p \in Peers \cup {None} : [w EXCEPT !.peer = p] \in UpstreamStates
    BY ZenonT(120) DEF UpstreamStates
  <1>13. \A k \in Conns \cup {None} : [w EXCEPT !.conn = k] \in UpstreamStates
    BY ZenonT(120) DEF UpstreamStates
  <1>14. \A n \in 0..Cardinality(Peers) : [w EXCEPT !.tries = n] \in UpstreamStates
    BY ZenonT(120) DEF UpstreamStates
  <1>15. \A s \in SUBSET Peers : [w EXCEPT !.tried = s] \in UpstreamStates
    BY ZenonT(120) DEF UpstreamStates
  <1>16. \A n \in Nat : [w EXCEPT !.x = n] \in UpstreamStates
    BY ZenonT(120) DEF UpstreamStates
  <1>17. \A n \in 0..2 : [w EXCEPT !.left = n] \in UpstreamStates
    BY ZenonT(120) DEF UpstreamStates
  <1>18. \A n \in Int : [w EXCEPT !.length = n] \in UpstreamStates
    BY ZenonT(120) DEF UpstreamStates
  <1>19. \A h \in {"send", "dummy"} : [w EXCEPT !.weh = h] \in UpstreamStates
    BY ZenonT(120) DEF UpstreamStates
  <1>20. \A h \in {"header", "pipe", "direct", "memory"} : [w EXCEPT !.reh = h] \in UpstreamStates
    BY ZenonT(120) DEF UpstreamStates
  <1>21. \A s \in Seq(AnswerPieces) : [w EXCEPT !.head = s] \in UpstreamStates
    BY Zenon DEF UpstreamStates
  <1>22. \A s \in Seq(AnswerPieces) : [w EXCEPT !.busy = s] \in UpstreamStates
    BY Zenon DEF UpstreamStates
  <1>23. \A s \in SUBSET Nat : [w EXCEPT !.served = s] \in UpstreamStates
    BY Zenon DEF UpstreamStates
  <1>24. QED
    BY Zenon, <1>1, <1>2, <1>3, <1>4, <1>5, <1>6, <1>7, <1>8, <1>9, <1>10, <1>11, <1>12, <1>13, <1>14, <1>15, <1>16, <1>17, <1>18, <1>19, <1>20, <1>21, <1>22, <1>23

LEMMA ConnSet ==
  ASSUME NEW c \in ConnStates
  PROVE  /\ \A b \in BOOLEAN : [c EXCEPT !.fin = b] \in ConnStates
         /\ \A b \in BOOLEAN : [c EXCEPT !.rnews = b] \in ConnStates
         /\ \A b \in BOOLEAN : [c EXCEPT !.wnews = b] \in ConnStates
         /\ \A b \in BOOLEAN : [c EXCEPT !.rready = b] \in ConnStates
         /\ \A b \in BOOLEAN : [c EXCEPT !.wready = b] \in ConnStates
         /\ \A b \in BOOLEAN : [c EXCEPT !.rtimer = b] \in ConnStates
         /\ \A b \in BOOLEAN : [c EXCEPT !.wtimer = b] \in ConnStates
         /\ \A b \in BOOLEAN : [c EXCEPT !.eof = b] \in ConnStates
         /\ \A b \in BOOLEAN : [c EXCEPT !.rtimedout = b] \in ConnStates
         /\ \A b \in BOOLEAN : [c EXCEPT !.wtimedout = b] \in ConnStates
         /\ \A s \in {"closed", "connecting", "open", "refused"} : [c EXCEPT !.st = s] \in ConnStates
         /\ \A p \in Peers \cup {None} : [c EXCEPT !.peer = p] \in ConnStates
         /\ \A e \in Exchanges : [c EXCEPT !.srv = e] \in ConnStates
         /\ \A s \in Seq(Answers) : [c EXCEPT !.rsp = s] \in ConnStates
         /\ \A n \in Nat : [c EXCEPT !.n = n] \in ConnStates
         /\ \A n \in Nat : [c EXCEPT !.need = n] \in ConnStates
         /\ \A s \in Seq(AnswerPieces) : [c EXCEPT !.inq = s] \in ConnStates
  BY ZenonT(120) DEF ConnStates

-----------------------------------------------------------------------------
(* A step of a request that keeps its connection: all that is to be shown  *)
(* is about the request, its connection and what its client got.           *)
LEMMA Stepped ==
  ASSUME IInv, NEW i \in Requests, u[i].conn # None,
         at.f = "rest" \/ at.i = i, at'.f = "rest" \/ at'.i = i, at'.f # "connect",
         NEW w \in UpstreamStates, NEW d \in ConnStates, NEW g \in Seq(AnswerPieces),
         u' = [u EXCEPT ![i] = w], conn' = [conn EXCEPT ![u[i].conn] = d],
         got' = [got EXCEPT ![i] = g], UNCHANGED <<conns, cache, exiting>>,
         w.st = u[i].st, w.conn = u[i].conn, w.peer = u[i].peer, w.x = u[i].x,
         d.st # "closed", ConnSound(d),
         d.srv = conn[u[i].conn].srv \/ d.srv = [to |-> i, x |-> w.x],
         BaseSound(i, w, g, at'), ReqSound(i, w, d, g, at')
  PROVE  IInv'
  <1> DEFINE k == u[i].conn
  <1>1. /\ u \in [Requests -> UpstreamStates] /\ conn \in [Conns -> ConnStates]
        /\ got \in [Requests -> Seq(AnswerPieces)] /\ k \in Conns
    BY Zenon DEF IInv, Types, UpstreamStates
  <1>2. /\ u'[i] = w /\ conn'[k] = d /\ got'[i] = g
        /\ \A j \in Requests : j # i => u'[j] = u[j] /\ got'[j] = got[j]
        /\ \A m \in Conns : m # k => conn'[m] = conn[m]
    BY <1>1
  <1>3. \A j \in Requests : /\ u'[j].conn = u[j].conn /\ u'[j].peer = u[j].peer
                            /\ u'[j].st = u[j].st /\ u'[j].x = u[j].x
    BY <1>2
  <1>4. u[i].st = "running"
    BY DEF IInv, Control
  <1>5. Types'
    BY <1>1 DEF IInv, Types
  <1>6. Control'
    <2>1. at'.f # "rest" => at'.i \in Requests /\ u'[at'.i].st = "running"
      BY <1>3, <1>4
    <2>2. ASSUME NEW j \in Requests
          PROVE  /\ u'[j].st # "running" => u'[j].conn = None /\ u'[j].peer = None
                 /\ u'[j].conn # None => u'[j].peer # None
                 /\ ~ (u'[j].st = "running" /\ u'[j].conn = None)
                 /\ u'[j].st = "new" => u'[j].served = {}
      <3>1. /\ u[j].st # "running" => u[j].conn = None /\ u[j].peer = None
            /\ u[j].conn # None => u[j].peer # None
            /\ u[j].st = "running" /\ u[j].conn = None
                 => at.i = j /\ at.f \in {"connect", "next", "finalize"}
            /\ u[j].st = "new" => u[j].served = {}
        BY DEF IInv, Control
      <3>2. ~ (u[j].st = "running" /\ u[j].conn = None)
        BY <3>1
      <3>3. u'[j].st = "new" => u'[j] = u[j]
        BY <1>2, <1>3, <1>4
      <3>4. QED
        BY <3>1, <3>2, <3>3, <1>3
    <2>3. at'.f = "next" => u'[at'.i].peer # None
      <3>1. u[i].peer # None
        BY DEF IInv, Control
      <3>2. QED
        BY <1>3, <3>1
    <2>4. QED
      BY <2>1, <2>2, <2>3 DEF Control
  <1>7. Holding'
    <2>1. \A m \in Conns : conn'[m].st = "closed" <=> conn[m].st = "closed"
      <3>1. conn[k].st # "closed"
        BY <1>1 DEF IInv, Holding
      <3>2. QED
        BY <3>1, <1>2
    <2>2. \A m : In(cache', m) <=> In(cache, m)
      BY DEF In
    <2>3. QED
      BY <2>1, <2>2, <1>3 DEF IInv, Holding, Distinct
  <1>8. ConnsExact'
    <2>1. \A p : {j \in Requests : u'[j].peer = p} = {j \in Requests : u[j].peer = p}
      BY <1>3
    <2>2. QED
      BY <2>1 DEF IInv, ConnsExact
  <1>9. ConnsSound'
    <2>1. \A m \in Conns : ConnSound(conn'[m])
      BY <1>2 DEF IInv, ConnsSound
    <2>2. ASSUME NEW m \in Conns, In(cache', m) PROVE IdleSound(conn'[m])
      <3>1. In(cache, m)
        BY <2>2 DEF In
      <3>2. m # k
        BY <3>1 DEF IInv, Holding
      <3>3. QED
        BY <3>1, <3>2, <1>2 DEF IInv, ConnsSound
    <2>3. ASSUME NEW m \in Conns, NEW j \in Requests, conn'[m].srv.to = j
          PROVE  u'[j].st # "new" /\ (u'[j].st = "running" => conn'[m].srv.x <= u'[j].x)
      <3>1. CASE conn'[m].srv = conn[m].srv
        BY <3>1, <2>3, <1>3 DEF IInv, ConnsSound
      <3>2. CASE conn'[m].srv # conn[m].srv
        <4>1. conn'[m].srv = [to |-> i, x |-> w.x]
          BY <3>2, <1>2
        <4>2. j = i /\ conn'[m].srv.x = w.x /\ w.x \in Nat
          BY <4>1, <2>3 DEF UpstreamStates
        <4>3. QED
          BY <4>2, <1>2, <1>4
      <3>3. QED
        BY <3>1, <3>2
    <2>4. QED
      BY <2>1, <2>2, <2>3 DEF ConnsSound
  <1>10. Exchange'
    <2>1. ASSUME NEW j \in Requests
          PROVE  /\ BaseSound(j, u'[j], got'[j], at')
                 /\ u'[j].conn # None => ReqSound(j, u'[j], conn'[u'[j].conn], got'[j], at')
      <3>1. CASE j = i
        BY <3>1, <1>2
      <3>2. CASE j # i
        <4>1. /\ BaseSound(j, u[j], got[j], at)
              /\ u[j].conn # None => ReqSound(j, u[j], conn[u[j].conn], got[j], at)
          BY DEF IInv, Exchange
        <4>2. at.f = "rest" \/ at.i # j
          BY <3>2
        <4>3. at'.f = "rest" \/ at'.i # j
          BY <3>2
        <4>4. /\ BaseSound(j, u[j], got[j], at')
              /\ u[j].conn # None => ReqSound(j, u[j], conn[u[j].conn], got[j], at')
          BY Zenon, <4>1, <4>2, <4>3, Beside
        <4>5. u[j].conn # None => conn'[u[j].conn] = conn[u[j].conn]
          <5>1. u[j].conn # None => u[j].conn \in Conns /\ u[j].conn # k
            BY <3>2, <1>1 DEF IInv, Holding, UpstreamStates
          <5>2. QED
            BY <5>1, <1>2
        <4>6. u'[j] = u[j] /\ got'[j] = got[j]
          BY <3>2, <1>2
        <4>7. QED
          BY <4>4, <4>5, <4>6
      <3>3. QED
        BY <3>1, <3>2
    <2>2. QED
      BY <2>1 DEF Exchange
  <1>11. QED
    BY <1>5, <1>6, <1>7, <1>8, <1>9, <1>10 DEF IInv

-----------------------------------------------------------------------------
(* What is known of a request with a connection ...                        *)
Joined(i) ==
  /\ u[i].st = "running" /\ u[i].conn \in Conns
  /\ u \in [Requests -> UpstreamStates] /\ u[i] \in UpstreamStates
  /\ conn \in [Conns -> ConnStates] /\ conn[u[i].conn] \in ConnStates
  /\ got \in [Requests -> Seq(AnswerPieces)] /\ got[i] \in Seq(AnswerPieces)
  /\ conn[u[i].conn].st # "closed" /\ ConnSound(conn[u[i].conn])
  /\ BaseSound(i, u[i], got[i], at)
  /\ ReqSound(i, u[i], conn[u[i].conn], got[i], at)

LEMMA Joint ==
  ASSUME IInv, NEW i \in Requests, u[i].conn # None
  PROVE  Joined(i)
  <1>1. u[i].st = "running"
    BY DEF IInv, Control
  <1>3. u[i] \in UpstreamStates /\ u[i].conn \in Conns /\ got[i] \in Seq(AnswerPieces)
    BY DEF IInv, Types, UpstreamStates
  <1>4. conn[u[i].conn] \in ConnStates /\ conn[u[i].conn].st # "closed"
        /\ ConnSound(conn[u[i].conn])
    BY <1>3 DEF IInv, Types, Holding, ConnsSound
  <1>5. /\ BaseSound(i, u[i], got[i], at)
        /\ ReqSound(i, u[i], conn[u[i].conn], got[i], at)
    BY DEF IInv, Exchange
  <1>6. QED
    BY <1>1, <1>3, <1>4, <1>5 DEF IInv, Types, Joined

(* ... as is the one that the worker runs                                  *)
LEMMA Working ==
  ASSUME IInv, at.f \notin {"rest", "connect", "next", "finalize"}
  PROVE  at.i \in Requests /\ u[at.i].conn # None
  BY DEF IInv, Control

(* What follows when the server got n more pieces of request v.            *)
Received(i, v, n, c, d) ==
  /\ d \in ConnStates /\ ConnSound(d) /\ d.st = c.st
  /\ d.srv = c.srv \/ d.srv = [to |-> i, x |-> v.x]
  /\ d.fin = c.fin /\ d.rready = c.rready /\ d.eof = c.eof
  /\ d.rtimedout = c.rtimedout /\ d.inq = c.inq
  /\ ~Current(i, v, d) => Quiet(d)
  /\ Current(i, v, d) => Current(i, v, c) \/ n > 0
  /\ Current(i, v, c) => d.srv = c.srv /\ d.rsp = c.rsp /\ d.n = c.n
  /\ v.left - n = PiecesOf(v) => ~Current(i, v, d)
  /\ ~c.fin /\ v.left - n < PiecesOf(v) => Current(i, v, d)
  /\ ~c.fin => d.need = IF v.left - n = PiecesOf(v) THEN 0 ELSE v.left - n

LEMMA Delivered ==
  ASSUME NEW i \in Requests, u \in [Requests -> UpstreamStates], NEW c \in ConnStates,
         ConnSound(c), Sending(i, u[i], c), NEW n \in 0..u[i].left,
         NEW d, d = Deliver(c, i, n)
  PROVE  Received(i, u[i], n, c, d)
  <1> DEFINE w == u[i]
  <1>1. /\ w \in UpstreamStates /\ w.left \in 0..2 /\ n \in 0..2 /\ w.x \in Nat
        /\ Pieces(i) = PiecesOf(w) /\ PiecesOf(w) \in 1..2 /\ w.left - n \in 0..2
        /\ w.left <= PiecesOf(w)
    BY DEF UpstreamStates, Pieces, PiecesOf, Sending
  <1>2. CASE c.fin \/ n = 0
    <2>1. d = c
      BY <1>2 DEF Deliver
    <2>2. QED
      BY <2>1, <1>1, <1>2 DEF Sending, Received
  <1>3. CASE ~c.fin /\ n # 0 /\ c.need > 0
    <2>1. w.left < PiecesOf(w) /\ c.need = w.left /\ Current(i, w, c)
      BY <1>1, <1>3 DEF Sending
    <2>2. d = [c EXCEPT !.need = @ - n]
      BY <1>3 DEF Deliver
    <2>3. c.need - n \in Nat /\ c.need - n = w.left - n
      BY <2>1, <1>1
    <2>4. /\ d \in ConnStates /\ d.st = c.st /\ d.srv = c.srv /\ d.fin = c.fin
          /\ d.rready = c.rready /\ d.eof = c.eof /\ d.rtimedout = c.rtimedout
          /\ d.inq = c.inq /\ d.rsp = c.rsp /\ d.n = c.n /\ d.need = w.left - n
      BY Zenon, <2>2, <2>3 DEF ConnStates
    <2>5. ConnSound(d) /\ Current(i, w, d)
      BY <2>4, <2>1 DEF ConnSound, PieceOf, Current
    <2>6. QED
      BY <2>1, <2>4, <2>5, <1>1, <1>3 DEF Received
  <1>4. CASE ~c.fin /\ n # 0 /\ ~(c.need > 0)
    <2>1. w.left = PiecesOf(w) /\ ~Current(i, w, c) /\ Quiet(c)
      BY <1>1, <1>4 DEF Sending, ConnStates
    <2>2. d = [c EXCEPT !.srv = [to |-> i, x |-> w.x], !.need = Pieces(i) - n, !.rsp = <<>>, !.n = 0]
      BY <1>4 DEF Deliver
    <2>3. /\ Pieces(i) - n \in Nat /\ Pieces(i) - n = w.left - n
          /\ [to |-> i, x |-> w.x] \in [to : Requests \cup {0}, x : Nat]
      BY <2>1, <1>1
    <2>4. /\ d \in ConnStates /\ d.st = c.st /\ d.srv = [to |-> i, x |-> w.x] /\ d.fin = c.fin
          /\ d.rready = c.rready /\ d.eof = c.eof /\ d.rtimedout = c.rtimedout
          /\ d.inq = c.inq /\ d.rsp = <<>> /\ d.n = 0 /\ d.need = w.left - n
      <3> DEFINE srv == [to |-> i, x |-> w.x]
                 need == Pieces(i) - n
      <3>1. srv \in Exchanges /\ need \in Nat /\ need = w.left - n
            /\ <<>> \in Seq(Answers)
        BY <2>3 DEF Exchanges
      <3>2. d = [c EXCEPT !.srv = srv, !.need = need, !.rsp = <<>>, !.n = 0]
        BY <2>2
      <3> HIDE DEF srv, need
      <3>3. d \in ConnStates
        <4> DEFINE d1 == [c EXCEPT !.srv = srv]
                   d2 == [d1 EXCEPT !.need = need]
                   d3 == [d2 EXCEPT !.rsp = <<>>]
        <4>1. d1 \in ConnStates
          BY <3>1 DEF ConnStates
        <4>2. d2 \in ConnStates
          BY ZenonT(120), <3>1, <4>1 DEF ConnStates
        <4>3. d3 \in ConnStates
          BY ZenonT(120), <3>1, <4>2 DEF ConnStates
        <4>4. [d3 EXCEPT !.n = 0] \in ConnStates
          BY Zenon, <4>3 DEF ConnStates
        <4>5. QED
          BY <4>4, <3>2
      <3>4. /\ d.st = c.st /\ d.srv = srv /\ d.fin = c.fin
            /\ d.rready = c.rready /\ d.eof = c.eof /\ d.rtimedout = c.rtimedout
            /\ d.inq = c.inq /\ d.rsp = <<>> /\ d.n = 0 /\ d.need = need
        BY <3>2 DEF ConnStates
      <3>5. QED
        BY <3>1, <3>3, <3>4 DEF srv
    <2>5. ConnSound(d) /\ Current(i, w, d)
      BY <2>4, <2>1 DEF ConnSound, Quiet, Current
    <2>6. QED
      BY <2>1, <2>4, <2>5, <1>1, <1>4 DEF Received
  <1>5. QED
    BY <1>2, <1>3, <1>4

SameRequest(w, v) ==
  /\ w.st = v.st /\ w.kind = v.kind /\ w.peer = v.peer /\ w.conn = v.conn /\ w.x = v.x
  /\ (w.reading => v.reading) /\ w.header_sent = v.header_sent /\ w.keepalive = v.keepalive
  /\ w.length = v.length /\ w.reh = v.reh /\ w.head = v.head /\ w.busy = v.busy
  /\ w.down = v.down /\ w.wtimer = v.wtimer /\ w.again = v.again

SameExchange(d, c) ==
  /\ d.st = c.st /\ d.srv = c.srv /\ d.rsp = c.rsp /\ d.n = c.n /\ d.need = c.need
  /\ d.inq = c.inq /\ d.fin = c.fin /\ d.rready = c.rready /\ d.eof = c.eof
  /\ d.rtimedout = c.rtimedout

(* A request of which only the body moved still passes its answer on, ...  *)
LEMMA StillPassing ==
  ASSUME NEW i, NEW v, NEW w, NEW c, NEW d, NEW g, NEW a, NEW b,
         SameRequest(w, v), Passing(i, v, c, g, a), Headed(i, w, d),
         d.rsp = c.rsp, ReadOf(d) = ReadOf(c), \A m : PieceOf(d, m) = PieceOf(c, m),
         v.keepalive => d.rready \/ (w.left = 0 /\ d.need = 0)
  PROVE  Passing(i, w, d, g, b)
  <1>1. /\ w.keepalive = v.keepalive /\ w.length = v.length /\ w.reh = v.reh
        /\ w.kind = v.kind /\ w.down = v.down /\ w.busy = v.busy
    BY Zenon DEF SameRequest
  <1>2. /\ v.reh = v.kind.mode
        /\ v.length = IF c.rsp[1].framed THEN 1 + c.rsp[1].body - ReadOf(c) ELSE -1
        /\ v.keepalive => c.rsp[1].framed /\ v.length = 0
    BY Zenon DEF Passing
  <1>3. ~v.down => /\ Len(g \o v.busy) = ReadOf(c)
                   /\ \A n \in 1..ReadOf(c) : (g \o v.busy)[n] = PieceOf(c, n - 1)
    BY Zenon DEF Passing
  <1>4. w.length = IF d.rsp[1].framed THEN 1 + d.rsp[1].body - ReadOf(d) ELSE -1
    BY Zenon, <1>1, <1>2
  <1>5. ~w.down => /\ Len(g \o w.busy) = ReadOf(d)
                   /\ \A n \in 1..ReadOf(d) : (g \o w.busy)[n] = PieceOf(d, n - 1)
    BY Zenon, <1>1, <1>3
  <1>6. QED
    BY Zenon, <1>1, <1>2, <1>4, <1>5 DEF Passing

(* ... and what holds of every request holds of it.                        *)
LEMMA StillBase ==
  ASSUME NEW i, NEW v, NEW w, NEW g, NEW a, NEW b,
         SameRequest(w, v), BaseSound(i, v, g, a),
         w.served \in {v.served, v.served \cup {v.x}}, w.request_sent,
         ~Runs(b, i, {"finalize"}), ~Runs(b, i, {"connect"})
  PROVE  BaseSound(i, w, g, b)
  <1>1. /\ w.x = v.x /\ w.kind = v.kind /\ w.header_sent = v.header_sent
        /\ w.keepalive = v.keepalive /\ w.busy = v.busy /\ w.down = v.down
        /\ w.wtimer = v.wtimer /\ w.again = v.again /\ w.conn = v.conn
    BY Zenon DEF SameRequest
  <1>2. OnceOnly(w) <=> OnceOnly(v)
    BY Zenon, <1>1 DEF OnceOnly
  <1>3. OnceOnly(w) => w.served \subseteq {w.x}
    <2>1. OnceOnly(v) => v.served \subseteq {v.x}
      BY Zenon DEF BaseSound
    <2>2. v.served \subseteq {v.x} => w.served \subseteq {w.x}
      BY Zenon, <1>1
    <2>3. QED
      BY Zenon, <1>2, <2>1, <2>2
  <1>4. /\ ~v.header_sent => v.busy = <<>> /\ ~v.wtimer /\ ~v.down
        /\ v.down => v.kind.mode = "pipe"
        /\ v.kind.mode # "direct" => v.busy = <<>>
        /\ v.header_sent => v.kind.mode # "memory"
        /\ v.conn = None => v.again \/ ~v.header_sent
        /\ OneAnswer(i, g \o v.busy)
    BY Zenon DEF BaseSound
  <1>5. /\ ~w.header_sent => w.busy = <<>> /\ ~w.wtimer /\ ~w.down
        /\ w.down => w.kind.mode = "pipe"
        /\ w.kind.mode # "direct" => w.busy = <<>>
        /\ w.header_sent => w.kind.mode # "memory"
        /\ w.conn = None => w.again \/ ~w.header_sent
        /\ OneAnswer(i, g \o w.busy)
    BY Zenon, <1>1, <1>4
  <1>6. QED
    BY Zenon, <1>3, <1>5 DEF BaseSound

LEMMA LeftIn ==
  ASSUME NEW v \in UpstreamStates, NEW n \in 0..v.left
  PROVE  v.left \in 0..2 /\ n \in 0..2 /\ PiecesOf(v) \in 1..2
  <1>1. v.left \in 0..2
    BY Zenon DEF UpstreamStates
  <1>2. n \in 0..2
    BY <1>1
  <1>3. 1 \in 1..2 /\ 2 \in 1..2
    OBVIOUS
  <1>4. PiecesOf(v) \in 1..2
    BY Zenon, <1>3 DEF PiecesOf
  <1>5. QED
    BY Zenon, <1>1, <1>2, <1>4

(* Some of the request was sent.                                           *)
LEMMA SentSome ==
  ASSUME IInv, NEW i, i = at.i, at.f = "send", at'.f \in {"rest", "header"},
         at'.f = "rest" \/ at'.i = i, ~NotConnected(i),
         NEW n \in 0..u[i].left, u[i].reading => n < u[i].left,
         NEW w \in UpstreamStates, NEW d \in ConnStates, NEW e, e = Deliver(conn[u[i].conn], i, n),
         SameRequest(w, u[i]), w.left = u[i].left - n,
         w.request_sent, w.body_sent => w.left = 0,
         w.served \in {u[i].served, u[i].served \cup {u[i].x}},
         SameExchange(d, e),
         at'.f = "header" => w.left = 0 /\ d.rready,
         u' = [u EXCEPT ![i] = w], conn' = [conn EXCEPT ![u[i].conn] = d],
         UNCHANGED <<conns, cache, exiting, got>>
  PROVE  IInv'
  <1> DEFINE v == u[i]
             c == conn[u[i].conn]
             g == got[i]
  <1>1. /\ i \in Requests /\ v.st = "running" /\ v.conn \in Conns /\ v.conn # None
        /\ u \in [Requests -> UpstreamStates] /\ v \in UpstreamStates
        /\ conn \in [Conns -> ConnStates] /\ c \in ConnStates
        /\ got \in [Requests -> Seq(AnswerPieces)] /\ g \in Seq(AnswerPieces)
        /\ c.st # "closed" /\ ConnSound(c)
        /\ BaseSound(i, v, g, at) /\ ReqSound(i, v, c, g, at)
    BY Zenon, Working, Joint DEF Joined
  <1>2. Sending(i, v, c)
    BY Zenon, <1>1 DEF ReqSound
  <1>3. Received(i, v, n, c, e)
    BY Zenon, <1>1, <1>2, Delivered
  <1>4. v.left \in 0..2 /\ n \in 0..2 /\ PiecesOf(v) \in 1..2 /\ PiecesOf(w) = PiecesOf(v)
    <2>1. v.left \in 0..2 /\ n \in 0..2 /\ PiecesOf(v) \in 1..2
      BY Zenon, <1>1, LeftIn
    <2>2. PiecesOf(w) = PiecesOf(v)
      BY Zenon DEF PiecesOf, SameRequest
    <2>3. QED
      BY Zenon, <2>1, <2>2
  <1> DEFINE k == u[i].conn
  <1> HIDE DEF v, c, g
  <1>5. /\ Current(i, w, d) <=> Current(i, v, e)
        /\ Quiet(d) <=> Quiet(e)
        /\ ConnSound(d)
        /\ ReadOf(d) = ReadOf(e)
    <2>1. d.srv = e.srv /\ d.rsp = e.rsp /\ d.n = e.n /\ d.inq = e.inq
      BY Zenon DEF SameExchange
    <2>2. w.x = v.x
      BY DEF SameRequest, v
    <2>3. Current(i, w, d) <=> Current(i, v, e)
      BY Zenon, <2>1, <2>2 DEF Current
    <2>4. (Quiet(d) <=> Quiet(e)) /\ ReadOf(d) = ReadOf(e)
      BY ZenonT(120), <2>1 DEF Quiet, ReadOf
    <2>5. \A m : PieceOf(d, m) = PieceOf(e, m)
      BY Zenon, <2>1 DEF PieceOf
    <2>6. ConnSound(e)
      BY Zenon, <1>3 DEF Received
    <2>7. ConnSound(d)
      BY Zenon, <2>1, <2>6, SameSound
    <2>8. QED
      BY <2>3, <2>4, <2>7
  <1>6. Sending(i, w, d)
    <2>1. d.fin = c.fin /\ d.need = e.need
      BY Zenon, <1>3 DEF Received, SameExchange
    <2>2. w.left = v.left - n /\ (w.reading => v.reading)
      BY DEF SameRequest, v
    <2>3. w.left <= PiecesOf(w) /\ (w.reading => w.left >= 1)
      <3>1. v.left <= PiecesOf(v)
        BY <1>2 DEF Sending
      <3>2. v.reading => n < v.left
        BY DEF v
      <3>3. QED
        BY <3>1, <3>2, <2>2, <1>4
    <2>4. /\ v.left - n = PiecesOf(v) => ~Current(i, v, e)
          /\ ~c.fin /\ v.left - n < PiecesOf(v) => Current(i, v, e)
          /\ ~Current(i, v, e) => Quiet(e)
          /\ ~c.fin => e.need = IF v.left - n = PiecesOf(v) THEN 0 ELSE v.left - n
      BY Zenon, <1>3 DEF Received
    <2>5. /\ w.left = PiecesOf(w) => ~Current(i, w, d)
          /\ ~d.fin /\ w.left < PiecesOf(w) => Current(i, w, d)
          /\ ~Current(i, w, d) => Quiet(d)
      BY Zenon, <2>1, <2>2, <2>4, <1>4, <1>5
    <2>6. ~d.fin => d.need = IF w.left = PiecesOf(w) THEN 0 ELSE w.left
      BY Zenon, <2>1, <2>2, <2>4, <1>4
    <2>7. QED
      BY Zenon, <2>3, <2>5, <2>6 DEF Sending
  <1>7. Passing(i, v, c, g, at) => Passing(i, w, d, g, at')
    <2> SUFFICES ASSUME Passing(i, v, c, g, at) PROVE Passing(i, w, d, g, at')
      OBVIOUS
    <2>1. Headed(i, v, c) /\ Current(i, v, c)
      BY DEF Passing, Headed
    <2>2. /\ d.srv = c.srv /\ d.rsp = c.rsp /\ d.n = c.n /\ d.inq = c.inq /\ ReadOf(d) = ReadOf(c)
          /\ Current(i, w, d) /\ d.rready = c.rready
      <3>1. /\ e.srv = c.srv /\ e.rsp = c.rsp /\ e.n = c.n /\ e.inq = c.inq /\ e.rready = c.rready
        BY Zenon, <2>1, <1>3 DEF Received
      <3>2. /\ d.srv = c.srv /\ d.rsp = c.rsp /\ d.n = c.n /\ d.inq = c.inq /\ d.rready = c.rready
        BY ZenonT(120), <3>1 DEF SameExchange
      <3>3. Current(i, w, d)
        BY <3>2, <2>1 DEF Current, SameRequest, v
      <3>4. QED
        BY <3>2, <3>3 DEF ReadOf
    <2>3. Headed(i, w, d)
      BY <2>1, <2>2 DEF Headed, v, SameRequest, SameExchange
    <2>4. v.keepalive => d.rready \/ (w.left = 0 /\ d.need = 0)
      <3>1. SUFFICES ASSUME v.left = 0, c.need = 0, ~c.rready PROVE w.left = 0 /\ d.need = 0
        BY <2>2 DEF Passing, Runs
      <3>2. n = 0 /\ w.left = 0
        <4>1. w.left = v.left - n /\ n \in 0..v.left
          BY DEF v
        <4>2. n \in 0..0
          BY <4>1, <3>1
        <4>3. n = 0
          BY <4>2
        <4>4. w.left = 0 - n
          BY <4>1, <3>1
        <4>5. 0 - 0 = 0
          OBVIOUS
        <4>6. w.left = 0 - 0
          BY <4>3, <4>4, Zenon
        <4>7. QED
          BY <4>3, <4>5, <4>6, Zenon
      <3>3. e = c
        BY <3>2 DEF Deliver, c
      <3>4. QED
        BY ZenonT(120), <3>1, <3>2, <3>3 DEF SameExchange
    <2>5. \A m : PieceOf(d, m) = PieceOf(c, m)
      BY Zenon, <2>2 DEF PieceOf
    <2>6. SameRequest(w, v)
      BY Zenon DEF v
    <2>7. QED
      BY Zenon, <2>2, <2>3, <2>4, <2>5, <2>6, StillPassing
  <1>8. ReqSound(i, w, d, g, at')
    <2>1. w.reh = "header" => ~w.keepalive /\ ~d.rready
      BY ZenonT(120), <1>1, <1>3 DEF Received, ReqSound, Runs, v, SameRequest, SameExchange
    <2>2. w.reh # "header" => Passing(i, w, d, g, at')
      BY Zenon, <1>1, <1>7 DEF ReqSound, Runs, v, SameRequest, SameExchange
    <2>3. /\ w.wtimer => w.reh = "direct" \/ (w.again /\ w.reh = "header")
          /\ w.reh \in {"pipe", "direct"} => w.header_sent
      BY ZenonT(120), <1>1 DEF ReqSound, v, SameRequest, SameExchange
    <2>4. QED
      BY <2>1, <2>2, <2>3, <1>6 DEF ReqSound, Runs
  <1>9. BaseSound(i, w, g, at')
    <2>1. SameRequest(w, v) /\ w.served \in {v.served, v.served \cup {v.x}}
      BY Zenon DEF v
    <2>2. ~Runs(at', i, {"finalize"}) /\ ~Runs(at', i, {"connect"})
      BY Zenon DEF Runs
    <2>3. QED
      BY Zenon, <1>1, <2>1, <2>2, StillBase
  <1>10. got' = [got EXCEPT ![i] = g]
    BY <1>1 DEF g
  <1>11. d.st # "closed" /\ (d.srv = c.srv \/ d.srv = [to |-> i, x |-> w.x])
    <2>1. e.st = c.st /\ (e.srv = c.srv \/ e.srv = [to |-> i, x |-> v.x])
      BY Zenon, <1>3 DEF Received
    <2>2. d.st = e.st /\ d.srv = e.srv
      BY Zenon DEF SameExchange
    <2>3. w.x = v.x
      BY Zenon DEF SameRequest, v
    <2>4. QED
      BY Zenon, <1>1, <2>1, <2>2, <2>3
  <1>a. /\ w.st = u[i].st /\ w.conn = u[i].conn /\ w.peer = u[i].peer /\ w.x = u[i].x
        /\ at.f = "rest" \/ at.i = i
        /\ at'.f # "connect"
    BY DEF SameRequest
  <1>12. QED
    BY Zenon, <1>a, <1>1, <1>5, <1>8, <1>9, <1>10, <1>11, Stepped DEF v, c, g

(* A step that moves no piece of the request or of the answer.             *)
Ready(i, w, d, a) ==
  /\ w.reh = "header" /\ d.rready => Runs(a, i, {"header", "next", "finalize"})
  /\ w.keepalive => \/ d.rready
                    \/ w.left = 0 /\ d.need = 0
                    \/ (d.eof \/ ~w.body_sent) /\ Runs(a, i, {"finalize"})
                    \/ Runs(a, i, {"next"})
  /\ Runs(a, i, {"header"}) => w.reh = "header" \/ w.left = 0
  /\ Runs(a, i, {"header", "memory"}) => d.rready \/ d.rtimedout
  /\ ~Runs(a, i, {"respond", "connect"})
  /\ Runs(a, i, {"pipe", "memory"}) => w.reh = a.f
  /\ Runs(a, i, {"direct"}) => w.reh = "direct" \/ (w.again /\ a.v # "read" /\ w.reh = "header")
  /\ Runs(a, i, {"direct"}) => a.v # "fill"
  /\ Runs(a, i, {"next"}) => a.v # "HTTP_404"
  /\ Runs(a, i, {"finalize"}) => a.v # "0" \/ w.kind.mode = "memory"

LEMMA Turned ==
  ASSUME IInv, NEW i \in Requests, u[i].conn # None, at.f # "next",
         at.f = "rest" \/ at.i = i, at'.f = "rest" \/ at'.i = i,
         NEW w \in UpstreamStates, NEW d \in ConnStates, NEW c, c = conn[u[i].conn],
         SameRequest(w, u[i]), w.left = u[i].left, u[i].request_sent => w.request_sent,
         w.body_sent = u[i].body_sent, w.served = u[i].served,
         d.st # "closed", d.srv = c.srv, d.rsp = c.rsp, d.n = c.n, d.need = c.need,
         d.inq = c.inq, c.fin => d.fin,
         Ready(i, w, d, at'),
         u' = [u EXCEPT ![i] = w], conn' = [conn EXCEPT ![u[i].conn] = d],
         UNCHANGED <<conns, cache, exiting, got>>
  PROVE  IInv'
  <1> DEFINE v == u[i]
             g == got[i]
  <1>1. /\ v.st = "running" /\ v.conn \in Conns
        /\ v \in UpstreamStates /\ c \in ConnStates
        /\ got \in [Requests -> Seq(AnswerPieces)] /\ g \in Seq(AnswerPieces)
        /\ c.st # "closed" /\ ConnSound(c)
        /\ BaseSound(i, v, g, at) /\ ReqSound(i, v, c, g, at)
    BY Joint DEF Joined
  <1>2. at'.f # "connect"
    BY DEF Ready, Runs
  <1>3. got' = [got EXCEPT ![i] = g]
    BY Zenon, <1>1
  <1>4. ConnSound(d)
    BY Zenon, <1>1, SameSound
  <1> HIDE DEF v, g
  <1>5. /\ Current(i, w, d) <=> Current(i, v, c)
        /\ Quiet(d) <=> Quiet(c)
        /\ ReadOf(d) = ReadOf(c)
        /\ PiecesOf(w) = PiecesOf(v)
    BY DEF Current, Quiet, ReadOf, PiecesOf, SameRequest, v
  <1>6. Sending(i, w, d)
    <2>1. Sending(i, v, c)
      BY <1>1 DEF ReqSound
    <2>2. w.left = v.left /\ (w.reading => v.reading) /\ w.body_sent = v.body_sent
          /\ (v.request_sent => w.request_sent)
      BY DEF SameRequest, v
    <2>3. QED
      BY <2>1, <2>2, <1>5 DEF Sending
  <1>7. Passing(i, v, c, g, at) /\ ~Runs(at', i, {"next"}) => Passing(i, w, d, g, at')
    <2> SUFFICES ASSUME Passing(i, v, c, g, at), ~Runs(at', i, {"next"})
                 PROVE  Passing(i, w, d, g, at')
      OBVIOUS
    <2>1. /\ w.reh = v.reh /\ w.kind = v.kind /\ w.length = v.length /\ w.keepalive = v.keepalive
          /\ w.down = v.down /\ w.busy = v.busy /\ w.head = v.head
      BY DEF SameRequest, v
    <2>2. Headed(i, w, d)
      BY ZenonT(120), <1>5, <2>1 DEF Passing, Headed
    <2>3. \A m : PieceOf(d, m) = PieceOf(c, m)
      BY DEF PieceOf
    <2>4. w.keepalive => \/ d.rready
                         \/ w.left = 0 /\ d.need = 0
                         \/ (d.eof \/ ~w.body_sent) /\ Runs(at', i, {"finalize"})
      BY DEF Ready
    <2>5. QED
      BY ZenonT(120), <1>5, <2>1, <2>2, <2>3, <2>4 DEF Passing
  <1>8. ReqSound(i, w, d, g, at')
    <2>1. /\ w.reh = v.reh /\ w.keepalive = v.keepalive /\ w.wtimer = v.wtimer
          /\ w.again = v.again /\ w.header_sent = v.header_sent
      BY DEF SameRequest, v
    <2>2. ~Runs(at, i, {"next"})
      BY DEF Runs
    <2>3. w.reh # "header" /\ ~Runs(at', i, {"next"}) => Passing(i, w, d, g, at')
      BY <2>1, <2>2, <1>1, <1>7 DEF ReqSound
    <2>4. w.reh = "header" =>
            /\ ~w.keepalive
            /\ d.rready => Runs(at', i, {"header", "respond", "next", "finalize"})
      BY <2>1, <1>1 DEF ReqSound, Ready, Runs
    <2>5. /\ w.wtimer => w.reh = "direct" \/ (w.again /\ w.reh = "header")
          /\ w.reh \in {"pipe", "direct"} => w.header_sent
      BY <2>1, <1>1 DEF ReqSound
    <2>6. /\ Runs(at', i, {"header"}) => w.reh = "header" \/ w.left = 0
          /\ Runs(at', i, {"header", "memory"}) => d.rready \/ d.rtimedout
          /\ ~Runs(at', i, {"respond"})
          /\ Runs(at', i, {"pipe", "memory"}) => w.reh = at'.f
          /\ Runs(at', i, {"direct"}) => w.reh = "direct" \/ (w.again /\ at'.v # "read" /\ w.reh = "header")
          /\ ~ (Runs(at', i, {"direct"}) /\ at'.v = "fill")
          /\ Runs(at', i, {"next"}) => at'.v # "HTTP_404" \/ ~w.keepalive
      BY Zenon DEF Ready, Runs
    <2>7. QED
      BY Zenon, <2>3, <2>4, <2>5, <2>6, <1>6 DEF ReqSound
  <1>9. BaseSound(i, w, g, at')
    <2>1. /\ w.kind = v.kind /\ w.header_sent = v.header_sent /\ w.busy = v.busy
          /\ w.wtimer = v.wtimer /\ w.down = v.down /\ w.keepalive = v.keepalive
          /\ w.conn = v.conn /\ w.again = v.again /\ w.x = v.x /\ w.served = v.served
          /\ (v.request_sent => w.request_sent)
      BY Zenon DEF SameRequest, v
    <2>2. OnceOnly(w) <=> OnceOnly(v)
      BY <2>1 DEF OnceOnly
    <2>3. Runs(at', i, {"finalize"}) /\ at'.v = "0" => Complete(w, g)
      BY Zenon DEF Ready, Complete
    <2>4. ~Runs(at', i, {"connect"})
      BY <1>2 DEF Runs
    <2>5. QED
      BY ZenonT(120), <2>1, <2>2, <2>3, <2>4, <1>1 DEF BaseSound
  <1>10. /\ w.st = u[i].st /\ w.conn = u[i].conn /\ w.peer = u[i].peer /\ w.x = u[i].x
    BY DEF SameRequest
  <1>11. QED
    BY Zenon, <1>2, <1>3, <1>4, <1>8, <1>9, <1>10, <1>1, Stepped DEF v, g

LEMMA Noted ==
  ASSUME IInv, NEW i \in Requests, u[i].conn # None, at.f # "next",
         at.f = "rest" \/ at.i = i, at'.f = "rest" \/ at'.i = i,
         NEW d \in ConnStates, NEW c, c = conn[u[i].conn],
         d.st # "closed", d.srv = c.srv, d.rsp = c.rsp, d.n = c.n, d.need = c.need,
         d.inq = c.inq, c.fin => d.fin,
         Ready(i, u[i], d, at'),
         conn' = [conn EXCEPT ![u[i].conn] = d],
         UNCHANGED <<u, conns, cache, exiting, got>>
  PROVE  IInv'
  <1>1. u \in [Requests -> UpstreamStates] /\ u[i] \in UpstreamStates
    BY DEF IInv, Types
  <1>2. u' = [u EXCEPT ![i] = u[i]]
    BY <1>1
  <1>3. SameRequest(u[i], u[i])
    BY DEF SameRequest
  <1>4. QED
    BY Zenon, <1>1, <1>2, <1>3, Turned

(* ... nor the connection                                                  *)
LEMMA Decided ==
  ASSUME IInv, NEW i \in Requests, u[i].conn # None, at.f # "next",
         at.f = "rest" \/ at.i = i, at'.f = "rest" \/ at'.i = i,
         Ready(i, u[i], conn[u[i].conn], at'),
         UNCHANGED <<u, conn, conns, cache, exiting, got>>
  PROVE  IInv'
  <1> DEFINE d == conn[u[i].conn]
  <1>1. d \in ConnStates /\ d.st # "closed" /\ conn' = [conn EXCEPT ![u[i].conn] = d]
    BY Joint DEF Joined
  <1>2. QED
    BY Zenon, <1>1, Noted

(* Ready, for a function that only a request in the right stage is run for.*)
LEMMA Ending ==
  ASSUME IInv, NEW i \in Requests, u[i].conn # None, at.f # "next",
         NEW w, SameRequest(w, u[i]), w.left = u[i].left, w.body_sent = u[i].body_sent,
         NEW d, NEW a, a.f = "finalize", a.i = i, a.v # "0",
         d.need = conn[u[i].conn].need,
         conn[u[i].conn].rready => d.rready \/ d.eof,
         conn[u[i].conn].eof => d.eof
  PROVE  Ready(i, w, d, a)
  <1> DEFINE v == u[i]
             c == conn[u[i].conn]
  <1>1. ReqSound(i, v, c, got[i], at)
    BY Zenon, Joint DEF Joined
  <1>2. /\ w.reh = v.reh /\ w.keepalive = v.keepalive
    BY Zenon DEF SameRequest
  <1>3. ~Runs(at, i, {"next"})
    BY Zenon DEF Runs
  <1> HIDE DEF v, c
  <1>4. v.keepalive => v.reh # "header"
    BY Zenon, <1>1 DEF ReqSound
  <1>5. v.keepalive => \/ c.rready
                       \/ v.left = 0 /\ c.need = 0
                       \/ (c.eof \/ ~v.body_sent) /\ Runs(at, i, {"finalize"})
    BY Zenon, <1>1, <1>3, <1>4 DEF ReqSound, Passing
  <1>6. w.keepalive => \/ d.rready
                       \/ w.left = 0 /\ d.need = 0
                       \/ (d.eof \/ ~w.body_sent) /\ Runs(a, i, {"finalize"})
    BY <1>2, <1>5 DEF v, c, Runs
  <1>7. QED
    BY <1>6 DEF Ready, Runs

LEMMA Failing ==
  ASSUME NEW i, NEW w, NEW d, NEW a, a.f = "next", a.i = i, a.v # "HTTP_404"
  PROVE  Ready(i, w, d, a)
  BY DEF Ready, Runs

LEMMA SendFailed == ASSUME IInv, SendError PROVE IInv'
  <1> PICK i : i = at.i
    OBVIOUS
  <1>1. i \in Requests /\ u[i].conn # None
    BY Working DEF SendError, At
  <1> DEFINE w == [u[i] EXCEPT !.request_sent = @ \/ ~NotConnected(i)]
  <1>2. u \in [Requests -> UpstreamStates] /\ u[i] \in UpstreamStates /\ conn[u[i].conn] \in ConnStates
        /\ conn \in [Conns -> ConnStates] /\ u[i].conn \in Conns /\ conn[u[i].conn].st # "closed"
    BY <1>1, Joint DEF Joined
  <1>3. u' = [u EXCEPT ![i] = w]
    BY DEF SendError, I
  <1>4. w \in UpstreamStates
    <2>1. (u[i].request_sent \/ ~NotConnected(i)) \in BOOLEAN
      OBVIOUS
    <2>2. QED
      BY ZenonT(120), <1>2, <2>1 DEF UpstreamStates
  <1>5. /\ SameRequest(w, u[i]) /\ w.left = u[i].left /\ (u[i].request_sent => w.request_sent)
        /\ w.body_sent = u[i].body_sent /\ w.served = u[i].served
    BY <1>2 DEF UpstreamStates, SameRequest
  <1> HIDE DEF w
  <1>6. at'.f = "next" /\ at'.i = i /\ at'.v # "HTTP_404"
    BY DEF SendError, Run, I
  <1>7. Ready(i, w, conn[u[i].conn], at')
    BY <1>6, Failing
  <1>8. conn' = [conn EXCEPT ![u[i].conn] = conn[u[i].conn]]
    BY <1>2 DEF SendError
  <1>9. at.i = i /\ at.f # "next" /\ UNCHANGED <<conns, cache, exiting, got>>
    BY DEF SendError, At
  <1>10. QED
    BY Zenon, <1>1, <1>2, <1>3, <1>4, <1>5, <1>6, <1>7, <1>8, <1>9, Turned

(* Every field of a connection that is set when a part of the request is   *)
(* sent is one that nothing else depends on.                               *)
LEMMA Watched ==
  ASSUME NEW e \in ConnStates, NEW r \in BOOLEAN, NEW t \in BOOLEAN, NEW s \in BOOLEAN
  PROVE  LET d == [e EXCEPT !.wready = r, !.wtimer = t, !.rtimer = s] IN
         d \in ConnStates /\ SameExchange(d, e)
  <1> DEFINE d1 == [e EXCEPT !.wready = r]
             d2 == [d1 EXCEPT !.wtimer = t]
             d3 == [d2 EXCEPT !.rtimer = s]
  <1>1. d1 \in ConnStates /\ SameExchange(d1, e)
    BY Zenon DEF ConnStates, SameExchange
  <1>2. d2 \in ConnStates /\ SameExchange(d2, d1)
    BY ZenonT(120), <1>1 DEF ConnStates, SameExchange
  <1>3. d3 \in ConnStates /\ SameExchange(d3, d2)
    BY ZenonT(120), <1>2 DEF ConnStates, SameExchange
  <1>4. SameExchange(d3, e)
    BY <1>1, <1>2, <1>3 DEF SameExchange
  <1>5. QED
    BY <1>3, <1>4

LEMMA SentPart == ASSUME IInv, SendPart PROVE IInv'
  <1> PICK i : i = at.i
    OBVIOUS
  <1>1. i \in Requests /\ u[i].conn # None
    BY Working DEF SendPart, At
  <1>2. /\ u \in [Requests -> UpstreamStates] /\ u[i] \in UpstreamStates
        /\ conn \in [Conns -> ConnStates] /\ u[i].conn \in Conns
        /\ conn[u[i].conn] \in ConnStates /\ ConnSound(conn[u[i].conn])
        /\ Sending(i, u[i], conn[u[i].conn])
    BY <1>1, Joint DEF Joined, ReqSound
  <1>3. PICK n \in 0..(Sendable(i) - 1) :
          /\ Sent(n)
          /\ conn' = [conn EXCEPT ![u[i].conn] =
                        [Deliver(@, i, n) EXCEPT !.wready = FALSE, !.wtimer = TRUE]]
    BY Zenon DEF SendPart, I, C
  <1>4. u[i].left \in 0..2 /\ n \in 0..u[i].left /\ (u[i].reading => n < u[i].left)
    BY SMTT(60), <1>2, <1>3 DEF Sendable, UpstreamStates
  <1> DEFINE e == Deliver(conn[u[i].conn], i, n)
             d == [e EXCEPT !.wready = FALSE, !.wtimer = TRUE, !.rtimer = @]
             served == IF n > 0 /\ ~conn[u[i].conn].fin THEN u[i].served \cup {u[i].x}
                       ELSE u[i].served
             w == [u[i] EXCEPT !.request_sent = TRUE, !.left = u[i].left - n, !.served = served]
  <1>a. Received(i, u[i], n, conn[u[i].conn], e)
    BY Zenon, <1>1, <1>2, <1>4, Delivered
  <1>5. e \in ConnStates
    BY Zenon, <1>a DEF Received
  <1>6. d \in ConnStates /\ SameExchange(d, e)
    <2>1. e.rtimer \in BOOLEAN
      BY Zenon, <1>5 DEF ConnStates
    <2>2. QED
      BY Zenon, <1>5, <2>1, Watched
  <1>7. conn' = [conn EXCEPT ![u[i].conn] = d]
    <2>1. d = [e EXCEPT !.wready = FALSE, !.wtimer = TRUE]
      BY Zenon, <1>5 DEF ConnStates
    <2>2. QED
      BY Zenon, <1>3, <2>1
  <1>8. u' = [u EXCEPT ![i] = w]
    BY Zenon, <1>2, <1>3 DEF Sent, I, C
  <1>9. u[i].left - n \in 0..2 /\ served \in SUBSET Nat
        /\ served \in {u[i].served, u[i].served \cup {u[i].x}}
    BY SMTT(60), <1>2, <1>4 DEF UpstreamStates
  <1> HIDE DEF e, d, served
  <1>10. w \in UpstreamStates
    BY ZenonT(120), <1>2, <1>9 DEF UpstreamStates
  <1>11. /\ SameRequest(w, u[i]) /\ w.left = u[i].left - n /\ w.request_sent
         /\ w.body_sent = u[i].body_sent /\ w.served = served
    BY ZenonT(120), <1>2 DEF UpstreamStates, SameRequest
  <1>12. w.body_sent => w.left = 0
    BY <1>2, <1>4, <1>11 DEF Sending
  <1> HIDE DEF w
  <1>13. /\ at'.f = "rest" /\ at.f = "send" /\ ~NotConnected(i)
         /\ UNCHANGED <<conns, cache, exiting, got>>
    BY DEF SendPart, Stop, Rest, At, I
  <1>14. QED
    BY Zenon, <1>4, <1>6, <1>7, <1>8, <1>9, <1>10, <1>11, <1>12, <1>13, SentSome DEF e

LEMMA SentWaiting == ASSUME IInv, SendWaits PROVE IInv'
  <1> PICK i : i = at.i
    OBVIOUS
  <1>1. i \in Requests /\ u[i].conn # None
    BY Working DEF SendWaits, At
  <1>2. /\ u \in [Requests -> UpstreamStates] /\ u[i] \in UpstreamStates
        /\ conn \in [Conns -> ConnStates] /\ u[i].conn \in Conns
        /\ conn[u[i].conn] \in ConnStates /\ ConnSound(conn[u[i].conn])
        /\ Sending(i, u[i], conn[u[i].conn])
    BY Zenon, <1>1, Joint DEF Joined, ReqSound
  <1> DEFINE n == Sendable(i)
             t == IF conn[u[i].conn].wready THEN FALSE ELSE TRUE
  <1>3. /\ Sent(n) /\ u[i].reading
        /\ conn' = [conn EXCEPT ![u[i].conn] = [Deliver(@, i, n) EXCEPT !.wtimer = t]]
    BY DEF SendWaits, I, C
  <1>4. u[i].left \in 0..2 /\ n \in 0..u[i].left /\ n < u[i].left /\ u[i].left >= 1
    BY SMTT(60), <1>2, <1>3 DEF Sendable, UpstreamStates, Sending
  <1> HIDE DEF n, t
  <1> DEFINE e == Deliver(conn[u[i].conn], i, n)
             d == [e EXCEPT !.wready = @, !.wtimer = t, !.rtimer = @]
             served == IF n > 0 /\ ~conn[u[i].conn].fin THEN u[i].served \cup {u[i].x}
                       ELSE u[i].served
             w == [u[i] EXCEPT !.request_sent = TRUE, !.left = u[i].left - n, !.served = served]
  <1>a. Received(i, u[i], n, conn[u[i].conn], e)
    BY Zenon, <1>1, <1>2, <1>4, Delivered
  <1>5. e \in ConnStates
    BY Zenon, <1>a DEF Received
  <1>6. d \in ConnStates /\ SameExchange(d, e)
    <2>1. e.rtimer \in BOOLEAN /\ e.wready \in BOOLEAN /\ t \in BOOLEAN
      BY Zenon, <1>5 DEF ConnStates, t
    <2>2. QED
      BY ZenonT(120), <1>5, <2>1, Watched
  <1>7. conn' = [conn EXCEPT ![u[i].conn] = d]
    <2>1. d = [e EXCEPT !.wtimer = t]
      BY Zenon, <1>5 DEF ConnStates
    <2>2. QED
      BY Zenon, <1>3, <2>1
  <1>8. u' = [u EXCEPT ![i] = w]
    BY Zenon, <1>2, <1>3 DEF Sent, I, C
  <1>9. u[i].left - n \in 0..2 /\ served \in SUBSET Nat
        /\ served \in {u[i].served, u[i].served \cup {u[i].x}}
    BY SMTT(60), <1>2, <1>4 DEF UpstreamStates
  <1> HIDE DEF e, d, served
  <1>10. w \in UpstreamStates
    BY ZenonT(120), <1>2, <1>9 DEF UpstreamStates
  <1>11. /\ SameRequest(w, u[i]) /\ w.left = u[i].left - n /\ w.request_sent
         /\ w.body_sent = u[i].body_sent /\ w.served = served
    BY <1>2 DEF UpstreamStates, SameRequest
  <1>12. w.body_sent => w.left = 0
    BY <1>2, <1>4, <1>11 DEF Sending
  <1> HIDE DEF w
  <1>13. /\ at'.f = "rest" /\ at.f = "send" /\ ~NotConnected(i)
         /\ UNCHANGED <<conns, cache, exiting, got>>
    BY DEF SendWaits, Stop, Rest, At, I
  <1>14. QED
    BY Zenon, <1>4, <1>6, <1>7, <1>8, <1>9, <1>10, <1>11, <1>12, <1>13, SentSome DEF e

LEMMA SentTo ==
  ASSUME NEW i, i = at.i, SendDone
  PROVE  \/ at'.f = "header" /\ at'.i = i /\ conn[u[i].conn].rready
         \/ at'.f = "rest" /\ at'.f # "header"
  BY DEF SendDone, Stop, Rest, Run, I, C

LEMMA SentAll == ASSUME IInv, SendDone PROVE IInv'
  <1> PICK i : i = at.i
    OBVIOUS
  <1>1. i \in Requests /\ u[i].conn # None
    BY Working DEF SendDone, At
  <1>2. /\ u \in [Requests -> UpstreamStates] /\ u[i] \in UpstreamStates
        /\ conn \in [Conns -> ConnStates] /\ u[i].conn \in Conns
        /\ conn[u[i].conn] \in ConnStates /\ ConnSound(conn[u[i].conn])
        /\ Sending(i, u[i], conn[u[i].conn])
    BY Zenon, <1>1, Joint DEF Joined, ReqSound
  <1> DEFINE n == u[i].left
             e == Deliver(conn[u[i].conn], i, n)
             d == [e EXCEPT !.wready = @, !.wtimer = FALSE, !.rtimer = TRUE]
             served == IF ~conn[u[i].conn].fin THEN u[i].served \cup {u[i].x} ELSE u[i].served
             w == [u[i] EXCEPT !.request_sent = TRUE, !.left = 0, !.body_sent = TRUE,
                               !.weh = "dummy", !.served = served]
  <1>3. /\ ~u[i].reading
        /\ conn' = [conn EXCEPT ![u[i].conn] =
                      [Deliver(@, i, n) EXCEPT !.wtimer = FALSE, !.rtimer = TRUE]]
    BY Zenon DEF SendDone, I, C
  <1>4. u[i].left \in 0..2 /\ n \in 0..u[i].left
    BY <1>2 DEF UpstreamStates
  <1>a. Received(i, u[i], n, conn[u[i].conn], e)
    BY Zenon, <1>1, <1>2, <1>4, Delivered
  <1>5. e \in ConnStates /\ e.rready = conn[u[i].conn].rready
    BY Zenon, <1>a DEF Received
  <1>6. d \in ConnStates /\ SameExchange(d, e)
    <2>1. e.wready \in BOOLEAN
      BY Zenon, <1>5 DEF ConnStates
    <2>2. QED
      BY Zenon, <1>5, <2>1, Watched
  <1>7. conn' = [conn EXCEPT ![u[i].conn] = d]
    <2>1. d = [e EXCEPT !.wtimer = FALSE, !.rtimer = TRUE]
      BY Zenon, <1>5 DEF ConnStates
    <2>2. QED
      BY Zenon, <1>3, <2>1
  <1>8. u' = [u EXCEPT ![i] = w]
    BY Zenon, <1>2 DEF SendDone, I, C
  <1>9. u[i].left - n = 0 /\ served \in SUBSET Nat
        /\ served \in {u[i].served, u[i].served \cup {u[i].x}}
    BY SMTT(60), <1>2, <1>4 DEF UpstreamStates
  <1> HIDE DEF e, d, served
  <1>10. w \in UpstreamStates
    <2>1. PICK w1 \in UpstreamStates : w1 = [u[i] EXCEPT !.request_sent = TRUE]
      BY Zenon, <1>2, UpstreamSet
    <2>a. PICK zero : zero = 0 /\ zero \in 0..2
      OBVIOUS
    <2>2. PICK w2 \in UpstreamStates : w2 = [w1 EXCEPT !.left = zero]
      BY <2>a, UpstreamSet
    <2>3. PICK w3 \in UpstreamStates : w3 = [w2 EXCEPT !.body_sent = TRUE]
      BY Zenon, UpstreamSet
    <2>4. PICK w4 \in UpstreamStates : w4 = [w3 EXCEPT !.weh = "dummy"]
      BY UpstreamSet
    <2>5. [w4 EXCEPT !.served = served] \in UpstreamStates
      BY <1>9, UpstreamSet
    <2>6. QED
      BY <2>a, <2>1, <2>2, <2>3, <2>4, <2>5
  <1>11. /\ SameRequest(w, u[i]) /\ w.left = u[i].left - n /\ w.request_sent
         /\ w.body_sent /\ w.left = 0 /\ w.served = served
    BY <1>2, <1>9 DEF UpstreamStates, SameRequest
  <1> HIDE DEF w
  <1>12. /\ at'.f \in {"rest", "header"} /\ (at'.f = "rest" \/ at'.i = i)
         /\ (at'.f = "header" => w.left = 0 /\ d.rready)
    <2>1. \/ at'.f = "header" /\ at'.i = i /\ conn[u[i].conn].rready
          \/ at'.f = "rest" /\ at'.f # "header"
      BY Zenon, SentTo
    <2>2. d.rready = conn[u[i].conn].rready /\ w.left = 0
      BY Zenon, <1>5, <1>6, <1>11 DEF SameExchange
    <2>3. QED
      BY Zenon, <2>1, <2>2
  <1>13. /\ at.f = "send" /\ ~NotConnected(i)
         /\ UNCHANGED <<conns, cache, exiting, got>>
    BY DEF SendDone, At, I
  <1>b. w.body_sent => w.left = 0
    BY <1>11
  <1>c. (u[i].reading => n < u[i].left) /\ w.left = u[i].left - n
    BY <1>3, <1>11
  <1> HIDE DEF n
  <1>14. QED
    BY Zenon, <1>b, <1>c, <1>4, <1>6, <1>7, <1>8, <1>9, <1>10, <1>11, <1>12, <1>13, SentSome DEF e

LEMMA SendHandled == ASSUME IInv, SendHandler PROVE IInv'
  <1> PICK i : i = at.i
    OBVIOUS
  <1>1. i \in Requests /\ u[i].conn # None
    BY Working DEF SendHandler, At
  <1> DEFINE c == conn[u[i].conn]
  <1>2. /\ u \in [Requests -> UpstreamStates] /\ u[i] \in UpstreamStates
        /\ conn \in [Conns -> ConnStates] /\ u[i].conn \in Conns
        /\ c \in ConnStates /\ c.st # "closed" /\ ReqSound(i, u[i], c, got[i], at)
    BY <1>1, Joint DEF Joined
  <1>3. UNCHANGED <<conn, conns, cache, exiting, got>> /\ at.f = "sendhandler" /\ at.f # "next"
    BY DEF SendHandler, At
  <1>4. ~Runs(at, i, {"next"}) /\ ~Runs(at, i, {"finalize"})
        /\ ~Runs(at, i, {"header", "respond", "next", "finalize"})
    BY <1>3 DEF Runs
  <1> HIDE DEF c
  <1>5. /\ u[i].reh = "header" => ~c.rready
        /\ u[i].keepalive => c.rready \/ (u[i].left = 0 /\ c.need = 0)
    BY Zenon, <1>2, <1>4 DEF ReqSound, Passing
  <1>6. CASE at'.f = "next" /\ UNCHANGED u
    <2>1. at'.i = i /\ at'.v # "HTTP_404"
      BY <1>6 DEF SendHandler, Run, I, Stop, Rest
    <2>2. Ready(i, u[i], c, at')
      BY <1>6, <2>1, Failing
    <2>3. QED
      BY <1>1, <1>3, <1>6, <2>1, <2>2, Decided DEF c
  <1>7. CASE at'.f = "send" /\ UNCHANGED u
    <2>1. at'.i = i
      BY <1>7 DEF SendHandler, Run, I, Stop, Rest
    <2>2. Ready(i, u[i], c, at')
      BY <1>5, <1>7 DEF Ready, Runs
    <2>3. QED
      BY <1>1, <1>3, <1>7, <2>1, <2>2, Decided DEF c
  <1>8. CASE at'.f = "rest" /\ u' = [u EXCEPT ![i].weh = "dummy"]
    <2> DEFINE w == [u[i] EXCEPT !.weh = "dummy"]
    <2>1. u' = [u EXCEPT ![i] = w] /\ conn' = [conn EXCEPT ![u[i].conn] = c]
      BY <1>2, <1>3, <1>8 DEF c
    <2>2. w \in UpstreamStates
      BY ZenonT(120), <1>2 DEF UpstreamStates
    <2>3. /\ SameRequest(w, u[i]) /\ w.left = u[i].left /\ w.request_sent = u[i].request_sent
          /\ w.body_sent = u[i].body_sent /\ w.served = u[i].served /\ w.reh = u[i].reh
          /\ w.keepalive = u[i].keepalive
      BY <1>2 DEF UpstreamStates, SameRequest
    <2> HIDE DEF w
    <2>4. Ready(i, w, c, at')
      BY <1>5, <1>8, <2>3 DEF Ready, Runs
    <2>5. /\ at.i = i /\ at'.f = "rest" /\ (u[i].request_sent => w.request_sent)
          /\ c.srv = c.srv /\ c.rsp = c.rsp /\ c.n = c.n /\ c.need = c.need /\ c.inq = c.inq
      BY <1>8, <2>3
    <2>6. QED
      BY Zenon, <1>1, <1>2, <1>3, <2>1, <2>2, <2>3, <2>4, <2>5, Turned DEF c
  <1>9. QED
    BY <1>6, <1>7, <1>8 DEF SendHandler, Run, Stop, Rest, I

-----------------------------------------------------------------------------
(* The request that the worker runs, in a step that starts with At.        *)
LEMMA Run1 ==
  ASSUME IInv, at.f \notin {"rest", "connect", "next", "finalize"}, NEW i, i = at.i
  PROVE  /\ i \in Requests /\ u[i].conn # None /\ Joined(i)
         /\ Sending(i, u[i], conn[u[i].conn])
         /\ u[i].reh = "header" =>
              /\ ~u[i].keepalive
              /\ conn[u[i].conn].rready => at.f \in {"header", "respond"}
         /\ u[i].reh # "header" => Passing(i, u[i], conn[u[i].conn], got[i], at)
         /\ u[i].keepalive => \/ conn[u[i].conn].rready
                              \/ u[i].left = 0 /\ conn[u[i].conn].need = 0
  <1>1. i \in Requests /\ u[i].conn # None
    BY Working
  <1>2. Joined(i)
    BY <1>1, Joint
  <1>3. ~Runs(at, i, {"next"}) /\ ~Runs(at, i, {"finalize"})
        /\ (Runs(at, i, {"header", "respond", "next", "finalize"}) <=> at.f \in {"header", "respond"})
    BY DEF Runs
  <1> DEFINE w == u[i]
             c == conn[u[i].conn]
             g == got[i]
  <1>4. ReqSound(i, w, c, g, at)
    BY <1>2 DEF Joined
  <1> HIDE DEF w, c, g
  <1>5. /\ Sending(i, w, c)
        /\ w.reh = "header" =>
              /\ ~w.keepalive
              /\ c.rready => at.f \in {"header", "respond"}
        /\ w.reh # "header" => Passing(i, w, c, g, at)
    BY <1>3, <1>4 DEF ReqSound
  <1>6. w.keepalive => c.rready \/ (w.left = 0 /\ c.need = 0)
    BY <1>3, <1>5 DEF Passing
  <1>7. QED
    BY Zenon, <1>1, <1>2, <1>5, <1>6 DEF w, c, g

LEMMA HeaderFailed == ASSUME IInv, HeaderFails PROVE IInv'
  <1> PICK i : i = at.i
    OBVIOUS
  <1> DEFINE c == conn[u[i].conn]
  <1>1. at.f = "header" /\ at'.f = "next" /\ at'.i = i /\ at'.v # "HTTP_404"
    BY DEF HeaderFails, At, Run, I
  <1>2. i \in Requests /\ u[i].conn # None /\ c \in ConnStates /\ c.st # "closed"
    BY <1>1, Run1 DEF Joined
  <1>3. CASE UNCHANGED conn
    <2>1. Ready(i, u[i], c, at')
      BY <1>1, Failing
    <2>2. UNCHANGED <<u, conn, conns, cache, exiting, got>>
      BY <1>3 DEF HeaderFails
    <2>3. QED
      BY <1>1, <1>2, <2>1, <2>2, Decided
  <1>4. CASE conn' = [conn EXCEPT ![u[i].conn].eof = TRUE, ![u[i].conn].rready = FALSE]
    <2> DEFINE d == [c EXCEPT !.eof = TRUE, !.rready = FALSE]
    <2>1. conn' = [conn EXCEPT ![u[i].conn] = d]
      <3>1. conn \in [Conns -> ConnStates] /\ u[i].conn \in Conns
        BY <1>1, Run1 DEF Joined
      <3>2. QED
        BY Zenon, <3>1, <1>4
    <2>2. d \in ConnStates /\ d.st # "closed" /\ d.srv = c.srv /\ d.rsp = c.rsp /\ d.n = c.n
          /\ d.need = c.need /\ d.inq = c.inq /\ d.fin = c.fin
      BY ZenonT(120), <1>2 DEF ConnStates
    <2> HIDE DEF d, c
    <2>3. Ready(i, u[i], d, at')
      BY <1>1, Failing
    <2>4. UNCHANGED <<u, conns, cache, exiting, got>>
      BY DEF HeaderFails
    <2>5. at.i = i /\ at.f # "next"
      BY <1>1
    <2>6. QED
      BY Zenon, <1>1, <1>2, <2>1, <2>2, <2>3, <2>4, <2>5, Noted DEF c
  <1>5. QED
    BY Zenon, <1>3, <1>4 DEF HeaderFails, C, I

LEMMA HeaderAwaited == ASSUME IInv, HeaderAgain PROVE IInv'
  <1> PICK i : i = at.i
    OBVIOUS
  <1> DEFINE c == conn[u[i].conn]
             d == [c EXCEPT !.rready = FALSE]
  <1>1. at.f = "header" /\ at'.f = "rest" /\ ~c.fin
    BY Zenon DEF HeaderAgain, At, Stop, Rest, I, C
  <1>2. i \in Requests /\ u[i].conn # None /\ c \in ConnStates /\ c.st # "closed"
        /\ conn \in [Conns -> ConnStates] /\ u[i].conn \in Conns
        /\ u[i] \in UpstreamStates
    BY <1>1, Run1 DEF Joined
  <1>3. conn' = [conn EXCEPT ![u[i].conn] = d]
    BY <1>2 DEF HeaderAgain, C, I
  <1>4. d \in ConnStates /\ d.st # "closed" /\ d.srv = c.srv /\ d.rsp = c.rsp /\ d.n = c.n
        /\ d.need = c.need /\ d.inq = c.inq /\ d.fin = c.fin /\ ~d.rready
    BY ZenonT(120), <1>2 DEF ConnStates
  <1>5. u[i].keepalive => u[i].left = 0 /\ c.need = 0
    <2>1. ReqSound(i, u[i], c, got[i], at)
      BY <1>1, Run1 DEF Joined
    <2> DEFINE w == u[i]
    <2>2. Runs(at, i, {"header"})
      BY <1>1 DEF Runs
    <2>3. w.keepalive => w.left = 0
      BY <2>1, <2>2 DEF ReqSound
    <2>4. Sending(i, w, c)
      BY Zenon, <2>1 DEF ReqSound
    <2>5. PiecesOf(w) \in 1..2
      BY DEF PiecesOf
    <2> HIDE DEF w, c
    <2>6. w.left = 0 => c.need = 0
      BY Zenon, <2>4, <2>5, <1>1 DEF Sending, c
    <2>7. QED
      BY <2>3, <2>6 DEF w
  <1> HIDE DEF d, c
  <1>6. Ready(i, u[i], d, at')
    BY <1>1, <1>4, <1>5 DEF Ready, Runs
  <1>7. UNCHANGED <<u, conns, cache, exiting, got>> /\ at.i = i /\ at.f # "next"
    BY <1>1 DEF HeaderAgain
  <1>8. QED
    BY Zenon, <1>1, <1>2, <1>3, <1>4, <1>6, <1>7, Noted DEF c

(* What is read of an answer is the next piece of the one that the server  *)
(* gives to this request.                                                  *)
LEMMA Arrived ==
  ASSUME NEW i \in Requests, NEW w, NEW c \in ConnStates, ConnSound(c), Sending(i, w, c),
         c.inq # <<>>
  PROVE  /\ Current(i, w, c) /\ c.rsp # <<>> /\ Len(c.inq) \in 1..c.n /\ c.n \in Nat
         /\ c.rsp[1] \in Answers /\ c.inq \in Seq(AnswerPieces)
         /\ c.n <= 1 + c.rsp[1].body /\ c.rsp[1].body \in Nat
         /\ ReadOf(c) \in 0..(c.n - 1) /\ Len(c.inq) = c.n - ReadOf(c)
         /\ \A j \in 1..Len(c.inq) : c.inq[j] = PieceOf(c, ReadOf(c) + j - 1)
         /\ Head(c.inq) = c.inq[1] /\ c.inq[1] = PieceOf(c, ReadOf(c))
         /\ Tail(c.inq) \in Seq(AnswerPieces) /\ Len(Tail(c.inq)) = Len(c.inq) - 1
         /\ \A j \in 1..Len(Tail(c.inq)) : Tail(c.inq)[j] = c.inq[j + 1]
  <1>1. c.inq \in Seq(AnswerPieces) /\ c.rsp \in Seq(Answers) /\ c.n \in Nat
    BY DEF ConnStates
  <1>2. Len(c.inq) \in Nat \ {0} /\ Head(c.inq) = c.inq[1]
        /\ Tail(c.inq) \in Seq(AnswerPieces) /\ Len(Tail(c.inq)) = Len(c.inq) - 1
        /\ \A j \in 1..Len(Tail(c.inq)) : Tail(c.inq)[j] = c.inq[j + 1]
    BY <1>1, HeadTailProperties
  <1>3. Current(i, w, c)
    BY DEF Sending, Quiet
  <1>4. /\ c.rsp # <<>> /\ c.n \in 1..(1 + c.rsp[1].body) /\ Len(c.inq) <= c.n
        /\ \A j \in 1..Len(c.inq) : c.inq[j] = PieceOf(c, c.n - Len(c.inq) + j - 1)
    BY DEF ConnSound
  <1>5. c.rsp[1] \in Answers
    <2>1. Len(c.rsp) \in Nat \ {0}
      BY <1>1, <1>4
    <2>2. QED
      BY <1>1, <2>1
  <1>6. c.rsp[1].body \in Nat
    BY <1>5, UpstreamAssumption
  <1>7. ReadOf(c) \in 0..(c.n - 1) /\ Len(c.inq) = c.n - ReadOf(c) /\ Len(c.inq) \in 1..c.n
        /\ c.n <= 1 + c.rsp[1].body /\ c.n - Len(c.inq) = ReadOf(c)
    BY <1>1, <1>2, <1>4, <1>6 DEF ReadOf
  <1>8. \A j \in 1..Len(c.inq) : c.inq[j] = PieceOf(c, ReadOf(c) + j - 1)
    BY <1>4 DEF ReadOf
  <1>9. c.inq[1] = PieceOf(c, ReadOf(c))
    <2>1. 1 \in 1..Len(c.inq) /\ ReadOf(c) + 1 - 1 = ReadOf(c)
      BY <1>2, <1>7, <1>1
    <2>2. c.inq[1] = PieceOf(c, ReadOf(c) + 1 - 1)
      BY <2>1, <1>8
    <2>3. QED
      BY <2>1, <2>2
  <1>10. QED
    BY <1>1, <1>2, <1>3, <1>4, <1>5, <1>6, <1>7, <1>8, <1>9

LEMMA HeaderProcessed == ASSUME IInv, ProcessHeader PROVE IInv'
  <1> PICK i : i = at.i
    OBVIOUS
  <1> DEFINE v == u[i]
             c == conn[u[i].conn]
             g == got[i]
             h == c.inq[1]
             len == IF h.rsp.framed THEN h.rsp.body ELSE -1
             w == [v EXCEPT !.head = c.inq, !.length = len]
             d == [c EXCEPT !.inq = <<>>]
  <1>1. at.f = "header" /\ ~c.rtimedout /\ c.inq # <<>>
    BY Zenon DEF ProcessHeader, At, I, C
  <1>2. i \in Requests /\ v.conn # None /\ c \in ConnStates /\ c.st # "closed"
        /\ conn \in [Conns -> ConnStates] /\ v.conn \in Conns
        /\ u \in [Requests -> UpstreamStates] /\ got \in [Requests -> Seq(AnswerPieces)]
        /\ v \in UpstreamStates /\ ConnSound(c) /\ Sending(i, v, c) /\ g \in Seq(AnswerPieces)
        /\ ReqSound(i, v, c, g, at) /\ BaseSound(i, v, g, at)
        /\ (v.reh = "header" => ~v.keepalive)
        /\ (v.reh # "header" => Passing(i, v, c, g, at))
    BY <1>1, Run1 DEF Joined
  <1> HIDE DEF v, c, g
  <1>3. /\ Current(i, v, c) /\ c.rsp # <<>> /\ c.n \in Nat
        /\ c.rsp[1] \in Answers /\ c.inq \in Seq(AnswerPieces)
        /\ c.rsp[1].body \in Nat
        /\ ReadOf(c) \in 0..(c.n - 1) /\ Len(c.inq) = c.n - ReadOf(c)
        /\ \A j \in 1..Len(c.inq) : c.inq[j] = PieceOf(c, ReadOf(c) + j - 1)
        /\ Head(c.inq) = h /\ h = PieceOf(c, ReadOf(c))
    BY <1>1, <1>2, Arrived
  <1>4. h.rsp = c.rsp[1] /\ h.n = ReadOf(c)
    BY <1>3 DEF PieceOf
  <1>5. len = (IF c.rsp[1].framed THEN c.rsp[1].body ELSE -1) /\ len \in Int
    BY <1>3, <1>4
  <1>6. u' = [u EXCEPT ![i] = w] /\ conn' = [conn EXCEPT ![v.conn] = d] /\ got' = [got EXCEPT ![i] = g]
        /\ UNCHANGED <<conns, cache, exiting>>
    BY Zenon, <1>2, <1>3, <1>4 DEF ProcessHeader, I, C, c, v, g
  <1> HIDE DEF len, h
  <1>7. w \in UpstreamStates
    <2>1. PICK w1 \in UpstreamStates : w1 = [v EXCEPT !.head = c.inq]
      BY Zenon, <1>2, <1>3, UpstreamSet
    <2>2. [w1 EXCEPT !.length = len] \in UpstreamStates
      BY Zenon, <1>5, UpstreamSet
    <2>3. QED
      BY <2>1, <2>2
  <1>8. /\ w.st = v.st /\ w.kind = v.kind /\ w.peer = v.peer /\ w.conn = v.conn /\ w.x = v.x
        /\ w.reading = v.reading /\ w.header_sent = v.header_sent /\ w.keepalive = v.keepalive
        /\ w.reh = v.reh /\ w.busy = v.busy /\ w.left = v.left /\ w.request_sent = v.request_sent
        /\ w.down = v.down /\ w.wtimer = v.wtimer /\ w.again = v.again /\ w.served = v.served
        /\ w.body_sent = v.body_sent /\ w.head = c.inq /\ w.length = len
    BY <1>2 DEF UpstreamStates
  <1>9. d \in ConnStates /\ d.inq = <<>> /\ d.st = c.st /\ d.srv = c.srv /\ d.rsp = c.rsp /\ d.n = c.n
        /\ d.need = c.need /\ d.fin = c.fin /\ d.rready = c.rready
    <2>1. <<>> \in Seq(AnswerPieces)
      OBVIOUS
    <2>2. d \in ConnStates
      BY <1>2, <2>1, ConnSet
    <2>3. d.inq = <<>>
      BY <1>2 DEF ConnStates
    <2>4. /\ d.st = c.st /\ d.srv = c.srv /\ d.rsp = c.rsp /\ d.n = c.n
          /\ d.need = c.need /\ d.fin = c.fin /\ d.rready = c.rready
      BY <1>2 DEF ConnStates
    <2>5. QED
      BY <2>2, <2>3, <2>4
  <1> HIDE DEF w, d
  <1>10. ConnSound(d)
    <2>1. Len(<<>>) = 0
      OBVIOUS
    <2>2. QED
      BY <2>1, <1>2, <1>3, <1>9 DEF ConnSound
  <1>11. Current(i, w, d) /\ (\A n : PieceOf(d, n) = PieceOf(c, n))
    BY <1>3, <1>8, <1>9 DEF Current, PieceOf
  <1>12. Sending(i, w, d)
    BY <1>2, <1>3, <1>8, <1>9, <1>11 DEF Sending, PiecesOf
  <1>13. at'.i = i /\ \/ at'.f = "respond" /\ h.n = 0
                      \/ at'.f = "next" /\ at'.v # "HTTP_404"
                      \/ at'.f = "next" /\ h.n = 0
    <2>1. IF Head(c.inq).rsp.status = "bad" \/ Head(c.inq).n # 0 THEN Run("next", i, "INVALID_HEADER")
          ELSE IF TestNext(i, Head(c.inq).rsp) THEN Run("next", i, Failure(Head(c.inq).rsp.status))
          ELSE Run("respond", i, "-")
      BY Zenon DEF ProcessHeader, I, C, c
    <2>2. CASE Head(c.inq).rsp.status = "bad" \/ Head(c.inq).n # 0
      BY <2>1, <2>2 DEF Run
    <2>3. CASE ~(Head(c.inq).rsp.status = "bad" \/ Head(c.inq).n # 0)
      BY <1>3, <2>1, <2>3 DEF Run
    <2>4. QED
      BY <2>2, <2>3
  <1>14. BaseSound(i, w, g, at')
    <2>1. ~Runs(at', i, {"finalize"}) /\ ~Runs(at', i, {"connect"})
      BY <1>13 DEF Runs
    <2>2. OnceOnly(w) <=> OnceOnly(v)
      BY <1>8 DEF OnceOnly
    <2>3. QED
      BY <1>2, <1>8, <2>1, <2>2 DEF BaseSound
  <1>15. h.n = 0 => v.reh = "header"
    BY <1>2, <1>3, <1>4 DEF Passing, Headed
  <1>16. ReqSound(i, w, d, g, at')
    <2>1. /\ ~Runs(at', i, {"header"}) /\ ~Runs(at', i, {"header", "memory"})
          /\ ~Runs(at', i, {"pipe", "memory"}) /\ ~Runs(at', i, {"direct"})
          /\ Runs(at', i, {"header", "respond", "next", "finalize"})
      BY <1>13 DEF Runs
    <2>2. /\ w.reh = "header" => ~w.keepalive
          /\ w.wtimer => w.reh = "direct" \/ (w.again /\ w.reh = "header")
          /\ w.reh \in {"pipe", "direct"} => w.header_sent
      BY <1>2, <1>8 DEF ReqSound
    <2>3. CASE at'.f = "next"
      <3>1. Runs(at', i, {"next"}) /\ ~Runs(at', i, {"respond"})
        BY <1>13, <2>3 DEF Runs
      <3>2. at'.v # "HTTP_404" \/ ~w.keepalive
        BY <1>2, <1>8, <1>13, <1>15, <2>3
      <3>3. QED
        BY <1>12, <2>1, <2>2, <3>1, <3>2 DEF ReqSound
    <2>4. CASE at'.f = "respond" /\ h.n = 0
      <3>1. ~Runs(at', i, {"next"}) /\ Runs(at', i, {"respond"})
        BY <1>13, <2>4 DEF Runs
      <3>2. w.reh = "header" /\ ReadOf(c) = 0 /\ Len(c.inq) = c.n /\ c.n >= 1
        BY <1>3, <1>4, <1>8, <1>15, <2>4
      <3>3. c.rready
        <4>1. Runs(at, i, {"header", "memory"})
          BY <1>1 DEF Runs
        <4>2. QED
          BY <4>1, <1>1, <1>2 DEF ReqSound
      <3>4. ReadOf(d) = c.n
        BY <1>3, <1>9 DEF ReadOf
      <3>5. Headed(i, w, d)
        BY Zenon, <1>1, <1>3, <1>4, <1>8, <1>9, <1>11, <3>2, <3>4 DEF Headed, h
      <3>6. \A n \in 1..Len(w.head) : w.head[n] = PieceOf(d, n - 1)
        <4>1. ASSUME NEW n \in 1..Len(w.head) PROVE w.head[n] = PieceOf(d, n - 1)
          <5>1. w.head[n] = PieceOf(c, ReadOf(c) + n - 1)
            BY <1>3, <1>8
          <5>2. ReadOf(c) + n - 1 = n - 1
            BY <3>2
          <5>3. QED
            BY <5>1, <5>2, <1>11
        <4>2. QED
          BY <4>1
      <3>7. Parsed(i, w, d)
        BY Zenon, <1>5, <1>8, <1>9, <3>2, <3>3, <3>5, <3>6 DEF Parsed
      <3>8. QED
        BY <1>12, <2>1, <2>2, <3>1, <3>2, <3>7 DEF ReqSound
    <2>5. QED
      BY <1>13, <2>3, <2>4
  <1>17. /\ u[i].conn # None /\ at.i = i /\ at'.i = i /\ at'.f # "connect" /\ d.st # "closed"
         /\ d.srv = c.srv
    BY Zenon, <1>2, <1>9, <1>13 DEF v
  <1>18. QED
    BY Zenon, <1>2, <1>6, <1>7, <1>8, <1>9, <1>10, <1>14, <1>16, <1>17, Stepped DEF v, c, g

-----------------------------------------------------------------------------
(* The input filter changes the length and the decision to keep.           *)
SameFilter(w, v) ==
  /\ w.st = v.st /\ w.kind = v.kind /\ w.peer = v.peer /\ w.conn = v.conn /\ w.x = v.x
  /\ w.reading = v.reading /\ w.left = v.left /\ w.request_sent = v.request_sent
  /\ w.body_sent = v.body_sent /\ w.head = v.head /\ w.error = v.error
  /\ w.down = v.down /\ w.wtimer = v.wtimer /\ w.again = v.again /\ w.served = v.served

LEMMA Filtered ==
  ASSUME NEW f \in UpstreamStates, NEW n \in Nat
  PROVE  /\ InputFilter(f, n) \in UpstreamStates /\ SameFilter(InputFilter(f, n), f)
         /\ InputFilter(f, n).header_sent = f.header_sent /\ InputFilter(f, n).reh = f.reh
         /\ InputFilter(f, n).busy = f.busy
         /\ InputFilter(f, n).length = (IF f.length = -1 THEN -1 ELSE f.length - n)
         /\ InputFilter(f, n).keepalive =>
              f.keepalive \/ (f.length = n /\ n # 0 /\ f.length # -1)
         /\ n = 0 => InputFilter(f, n) = f
  <1>1. f.length \in Int /\ f.keepalive \in BOOLEAN /\ f.head \in Seq(AnswerPieces)
    BY DEF UpstreamStates
  <1>2. ClosesAfter(f) \in BOOLEAN
    BY DEF ClosesAfter
  <1>3. CASE n = 0 \/ f.length = -1
    <2>1. InputFilter(f, n) = f
      BY <1>3 DEF InputFilter
    <2>2. f.length = (IF f.length = -1 THEN -1 ELSE f.length - n)
      BY <1>1, <1>3
    <2>3. QED
      BY <2>1, <2>2 DEF SameFilter
  <1>4. CASE ~(n = 0 \/ f.length = -1)
    <2> DEFINE keep == IF f.length = n THEN ~ClosesAfter(f) ELSE f.keepalive
               len == f.length - n
               w == [f EXCEPT !.length = len, !.keepalive = keep]
    <2>1. InputFilter(f, n) = w
      BY <1>4 DEF InputFilter
    <2>2. keep \in BOOLEAN /\ len \in Int /\ (keep => f.keepalive \/ f.length = n)
      <3>1. len \in Int
        BY <1>1
      <3>2. CASE f.length = n
        BY <3>1, <3>2, <1>2
      <3>3. CASE f.length # n
        <4>1. keep = f.keepalive
          BY <3>3, Zenon
        <4>2. QED
          BY <3>1, <4>1, <1>1
      <3>4. QED
        BY <3>2, <3>3
    <2> HIDE DEF keep, len
    <2>3. PICK w1 \in UpstreamStates : w1 = [f EXCEPT !.length = len]
      BY Zenon, <2>2, UpstreamSet
    <2>4. [w1 EXCEPT !.keepalive = keep] \in UpstreamStates
      BY Zenon, <2>2, UpstreamSet
    <2>5. w \in UpstreamStates
      BY <2>3, <2>4
    <2>6. w.length = len /\ w.keepalive = keep
      BY DEF UpstreamStates
    <2>7. w.header_sent = f.header_sent /\ w.reh = f.reh /\ w.busy = f.busy
      BY DEF UpstreamStates
    <2>8. SameFilter(w, f)
      BY DEF UpstreamStates, SameFilter
    <2>9. len = (IF f.length = -1 THEN -1 ELSE f.length - n)
      BY <1>4 DEF len
    <2> HIDE DEF w
    <2>10. QED
      BY <1>4, <2>1, <2>2, <2>5, <2>6, <2>7, <2>8, <2>9
  <1>5. QED
    BY <1>3, <1>4

(* The state of a request whose response begins.                           *)
Begun(i, w, v, c, mode) ==
  /\ w \in UpstreamStates /\ SameFilter(w, v) /\ w.reh = mode
  /\ w.header_sent = (mode # "memory")
  /\ w.length = IF c.rsp[1].framed THEN 1 + c.rsp[1].body - ReadOf(c) ELSE -1
  /\ w.keepalive => c.rsp[1].framed /\ w.length = 0

LEMMA Beginning ==
  ASSUME NEW i \in Requests, u[i] \in UpstreamStates, NEW c \in ConnStates, ConnSound(c),
         Parsed(i, u[i], c), ~u[i].keepalive, NEW mode, mode = u[i].kind.mode
  PROVE  /\ Begun(i, Began(i, mode), u[i], c, mode) /\ Began(i, mode).busy = u[i].busy
         /\ u[i].head \in Seq(AnswerPieces) /\ Len(u[i].head) = ReadOf(c) /\ ReadOf(c) >= 1
         /\ Tail(u[i].head) \in Seq(AnswerPieces)
         /\ <<Head(u[i].head)>> \in Seq(AnswerPieces)
         /\ <<Head(u[i].head)>> \o Tail(u[i].head) = u[i].head
  <1> DEFINE v == u[i]
             r == v.head[1].rsp
             f == FilterInit(v, r)
             n == Len(Tail(v.head))
  <1>1. /\ v.head \in Seq(AnswerPieces) /\ v.length \in Int /\ v.kind \in Kinds /\ c.n \in Nat
        /\ c.rsp \in Seq(Answers)
    BY DEF UpstreamStates, ConnStates
  <1>2. /\ v.head # <<>> /\ c.rsp # <<>> /\ r = c.rsp[1] /\ Len(v.head) = c.n /\ c.inq = <<>>
        /\ v.length = (IF r.framed THEN r.body ELSE -1)
    BY DEF Parsed, Headed
  <1>3. ReadOf(c) = c.n /\ c.n >= 1 /\ Len(v.head) = ReadOf(c)
    BY <1>1, <1>2 DEF ReadOf, Parsed, Headed
  <1>4. /\ Tail(v.head) \in Seq(AnswerPieces) /\ n = c.n - 1
        /\ Head(v.head) = v.head[1] /\ v.head[1] \in AnswerPieces
    <2>1. Tail(v.head) \in Seq(AnswerPieces) /\ n = Len(v.head) - 1 /\ Head(v.head) = v.head[1]
      BY <1>1, <1>2, HeadTailProperties
    <2>2. 1 \in 1..Len(v.head)
      BY <1>1, <1>2, <1>3
    <2>3. QED
      BY <1>1, <1>2, <2>1, <2>2
  <1>5. <<Head(v.head)>> \o Tail(v.head) = v.head
    BY <1>1, <1>2
  <1>6. r \in Answers /\ r.body \in Nat /\ r.framed \in BOOLEAN /\ r.close \in BOOLEAN
    <2>1. r \in Answers
      BY <1>4 DEF AnswerPieces
    <2>2. QED
      BY <2>1, UpstreamAssumption
  <1>7. mode \in {"pipe", "direct", "memory"}
    BY <1>1 DEF Kinds
  <1>8. Begun(i, Began(i, mode), v, c, mode) /\ Began(i, mode).busy = v.busy
    <2> DEFINE k == IF r.framed /\ r.body = 0 THEN ~r.close ELSE v.keepalive
    <2>1. k \in BOOLEAN /\ (k => r.framed /\ r.body = 0)
      <3>1. CASE r.framed /\ r.body = 0
        <4>1. k = ~r.close
          BY <3>1, Zenon
        <4>2. QED
          BY <3>1, <4>1, <1>6
      <3>2. CASE ~(r.framed /\ r.body = 0)
        <4>1. k = v.keepalive /\ v.keepalive \in BOOLEAN
          BY <3>2, Zenon DEF UpstreamStates
        <4>2. QED
          BY <4>1
      <3>3. QED
        BY Zenon, <3>1, <3>2
    <2>2. f = [v EXCEPT !.keepalive = k]
      BY DEF FilterInit
    <2> HIDE DEF k, f, r, n, v
    <2>3. f \in UpstreamStates
      BY Zenon, <2>1, <2>2, UpstreamSet DEF v
    <2>4. SameFilter(f, v) /\ f.length = v.length /\ f.keepalive = k /\ f.busy = v.busy
      BY <2>2 DEF UpstreamStates, SameFilter, v
    <2>5. n \in Nat
      BY <1>3, <1>4, <1>1
    <2>6. PICK e : e = InputFilter(f, n)
      OBVIOUS
    <2>7. /\ e \in UpstreamStates /\ SameFilter(e, f) /\ e.busy = f.busy
          /\ e.length = (IF f.length = -1 THEN -1 ELSE f.length - n)
          /\ e.keepalive => f.keepalive \/ (f.length = n /\ n # 0 /\ f.length # -1)
      BY <2>3, <2>5, <2>6, Filtered
    <2>8. PICK e1 \in UpstreamStates : e1 = [e EXCEPT !.header_sent = (mode # "memory")]
      BY Zenon, <2>7, UpstreamSet
    <2>9. [e1 EXCEPT !.reh = mode] \in UpstreamStates
      BY Zenon, <1>7, UpstreamSet
    <2> DEFINE w == [e EXCEPT !.header_sent = (mode # "memory"), !.reh = mode]
    <2>10. Began(i, mode) = w
      BY <2>6 DEF Began, f, n, r, v
    <2>11. w \in UpstreamStates
      BY <2>8, <2>9
    <2>12. SameFilter(w, e)
      BY <2>7 DEF UpstreamStates, SameFilter
    <2>13. /\ w.reh = mode /\ w.busy = e.busy /\ w.length = e.length /\ w.keepalive = e.keepalive
           /\ w.header_sent = (mode # "memory")
      BY <2>7 DEF UpstreamStates
    <2> HIDE DEF w
    <2>14. SameFilter(w, v)
      BY <2>4, <2>7, <2>12 DEF SameFilter
    <2>15. w.length = IF r.framed THEN 1 + r.body - ReadOf(c) ELSE -1
      BY <2>4, <2>7, <2>13, <1>1, <1>2, <1>3, <1>4, <1>6
    <2>16. w.keepalive => r.framed /\ w.length = 0
      <3>1. SUFFICES ASSUME w.keepalive PROVE r.framed /\ w.length = 0
        OBVIOUS
      <3>2. r.framed /\ v.length = r.body
        BY Zenon, <3>1, <2>1, <2>4, <2>7, <2>13, <1>2
      <3>3. r.body = 0 \/ r.body = n
        BY Zenon, <3>1, <3>2, <2>1, <2>4, <2>7, <2>13
      <3>4. c.n <= 1 + r.body
        BY <1>2 DEF ConnSound
      <3>5. QED
        BY SMTT(60), <3>2, <3>3, <3>4, <2>15, <1>1, <1>3, <1>4, <1>6
    <2>17. QED
      BY Zenon, <2>10, <2>11, <2>13, <2>14, <2>15, <2>16, <2>4, <2>7, <1>2 DEF Begun, r, v
  <1>9. <<Head(v.head)>> \in Seq(AnswerPieces)
    BY <1>4
  <1>10. QED
    BY Zenon, <1>1, <1>3, <1>4, <1>5, <1>8, <1>9

LEMMA Responded ==
  ASSUME IInv, at.f = "respond", NEW i, i = at.i, NEW mode, mode = u[i].kind.mode,
         mode # "memory" => ~u[i].header_sent,
         NEW w, Begun(i, w, u[i], conn[u[i].conn], mode),
         NEW g \in Seq(AnswerPieces), g \o w.busy = u[i].head,
         mode # "direct" => w.busy = <<>>,
         at'.f = "rest" \/ (at'.i = i /\ at'.f = mode /\ at'.v # "fill")
           \/ (at'.i = i /\ at'.f = "finalize" /\ mode = "memory"),
         u' = [u EXCEPT ![i] = w], got' = [got EXCEPT ![i] = g],
         UNCHANGED <<conn, conns, cache, exiting>>
  PROVE  IInv'
  <1> DEFINE v == u[i]
             c == conn[u[i].conn]
  <1>1. i \in Requests /\ v.conn # None /\ c \in ConnStates /\ c.st # "closed"
        /\ conn \in [Conns -> ConnStates] /\ v.conn \in Conns
        /\ v \in UpstreamStates /\ ConnSound(c) /\ Sending(i, v, c)
        /\ ReqSound(i, v, c, got[i], at) /\ BaseSound(i, v, got[i], at)
    BY Zenon, Run1 DEF Joined
  <1>2. Parsed(i, v, c)
    <2>1. Runs(at, i, {"respond"})
      BY Zenon DEF Runs
    <2>2. QED
      BY Zenon, <1>1, <2>1 DEF ReqSound
  <1>3. conn' = [conn EXCEPT ![v.conn] = c]
    BY Zenon, <1>1
  <1>m. mode \in {"pipe", "direct", "memory"}
    BY Zenon, <1>1 DEF UpstreamStates, Kinds
  <1> HIDE DEF v, c
  <1>4. /\ w \in UpstreamStates /\ SameFilter(w, v) /\ w.reh = mode
        /\ w.header_sent = (mode # "memory")
        /\ w.length = (IF c.rsp[1].framed THEN 1 + c.rsp[1].body - ReadOf(c) ELSE -1)
        /\ w.keepalive => c.rsp[1].framed /\ w.length = 0
    BY Zenon DEF Begun, v, c
  <1>5. /\ w.st = v.st /\ w.kind = v.kind /\ w.peer = v.peer /\ w.conn = v.conn /\ w.x = v.x
        /\ w.reading = v.reading /\ w.left = v.left /\ w.request_sent = v.request_sent
        /\ w.body_sent = v.body_sent /\ w.head = v.head /\ w.error = v.error
        /\ w.down = v.down /\ w.wtimer = v.wtimer /\ w.again = v.again /\ w.served = v.served
    BY Zenon, <1>4 DEF SameFilter
  <1>6. /\ v.head \in Seq(AnswerPieces) /\ Len(v.head) = ReadOf(c)
        /\ \A n \in 1..ReadOf(c) : v.head[n] = PieceOf(c, n - 1)
        /\ Headed(i, v, c) /\ c.rready /\ Current(i, v, c)
    <2>1. c.n \in Nat /\ v.head \in Seq(AnswerPieces)
      BY Zenon, <1>1 DEF ConnStates, UpstreamStates
    <2>2. ReadOf(c) = c.n
      BY <1>2, <2>1 DEF ReadOf, Parsed
    <2>3. QED
      BY Zenon, <1>2, <2>1, <2>2 DEF Parsed, Headed
  <1>7. Headed(i, w, c) /\ Current(i, w, c)
    BY Zenon, <1>5, <1>6 DEF Headed, Current
  <1>8. Sending(i, w, c)
    BY Zenon, <1>1, <1>5, <1>6, <1>7 DEF Sending, PiecesOf
  <1>9. Passing(i, w, c, g, at')
    <2>1. w.reh = w.kind.mode
      BY Zenon, <1>4, <1>5 DEF v
    <2>2. g \o w.busy = v.head
      BY DEF v
    <2>3. QED
      BY <1>4, <1>6, <1>7, <2>1, <2>2 DEF Passing
  <1>10. ReqSound(i, w, c, g, at')
    <2>1. w.reh # "header"
      BY Zenon, <1>4, <1>m
    <2>2. ~w.wtimer
      <3>1. /\ ~v.header_sent => ~v.wtimer
            /\ v.header_sent => v.kind.mode # "memory"
        BY Zenon, <1>1 DEF BaseSound
      <3>2. ~v.header_sent
        BY <3>1 DEF v
      <3>3. QED
        BY Zenon, <3>1, <3>2, <1>5
    <2>3. w.reh \in {"pipe", "direct"} => w.header_sent
      BY Zenon, <1>4
    <2>4. /\ ~Runs(at', i, {"header"}) /\ ~Runs(at', i, {"respond"}) /\ ~Runs(at', i, {"next"})
          /\ Runs(at', i, {"pipe", "memory"}) => w.reh = at'.f
          /\ Runs(at', i, {"direct"}) => w.reh = "direct"
          /\ ~ (Runs(at', i, {"direct"}) /\ at'.v = "fill")
      BY Zenon, <1>4, <1>m DEF Runs
    <2>5. QED
      BY Zenon, <1>6, <1>8, <1>9, <2>1, <2>2, <2>3, <2>4 DEF ReqSound
  <1>11. BaseSound(i, w, g, at')
    <2>1. ~w.header_sent => w.busy = <<>> /\ ~w.wtimer /\ ~w.down
      <3>1. SUFFICES ASSUME mode = "memory" PROVE w.busy = <<>> /\ ~w.wtimer /\ ~w.down
        BY Zenon, <1>4
      <3>2. ~v.header_sent /\ v.kind.mode = "memory"
        BY Zenon, <1>1, <3>1 DEF BaseSound, v
      <3>3. QED
        BY Zenon, <3>1, <3>2, <1>1, <1>5 DEF BaseSound
    <2>2. w.keepalive => w.request_sent
      BY Zenon, <1>7, <1>8 DEF Sending
    <2>3. OneAnswer(i, g \o w.busy)
      <3>1. OneAnswer(i, v.head)
        <4>1. \A n \in 1..Len(v.head) : v.head[n] = PieceOf(c, n - 1)
          BY Zenon, <1>6
        <4>2. c.srv.to = i /\ c.srv.x = v.x
          BY <1>6 DEF Current
        <4>3. ASSUME NEW n \in 1..Len(v.head)
              PROVE  v.head[n].to = i /\ v.head[n].x = v.x /\ v.head[n].n = n - 1
          <5>1. PICK m : m = n - 1
            OBVIOUS
          <5>2. v.head[n] = [to |-> c.srv.to, x |-> c.srv.x, n |-> m, rsp |-> c.rsp[1]]
            BY Zenon, <4>1, <5>1 DEF PieceOf
          <5>3. QED
            BY <4>2, <5>1, <5>2
        <4>4. Len(v.head) \in Nat
          BY <1>6
        <4>5. \A n \in 1..Len(v.head) : v.head[1].x = v.x
          BY <4>3, <4>4
        <4>6. QED
          BY Zenon, <4>3, <4>5 DEF OneAnswer
      <3>2. QED
        BY Zenon, <3>1 DEF v
    <2>4. Runs(at', i, {"finalize"}) /\ at'.v = "0" => Complete(w, g)
      <3>1. Runs(at', i, {"finalize"}) => w.kind.mode = "memory"
        BY Zenon, <1>5, <1>m DEF Runs, v
      <3>2. QED
        BY Zenon, <3>1 DEF Complete
    <2>5. ~Runs(at', i, {"connect"})
      BY Zenon, <1>m DEF Runs
    <2>6. OnceOnly(w) <=> OnceOnly(v)
      BY <1>5 DEF OnceOnly
    <2>7. /\ w.down => w.kind.mode = "pipe"
          /\ w.kind.mode # "direct" => w.busy = <<>>
          /\ w.header_sent => w.kind.mode # "memory"
          /\ w.conn = None => w.again \/ ~w.header_sent
      BY ZenonT(120), <1>1, <1>4, <1>5 DEF BaseSound, v
    <2>8. OnceOnly(w) =>
             /\ w.served \subseteq {w.x}
             /\ w.served # {} => w.request_sent
      BY Zenon, <1>1, <1>5, <2>6 DEF BaseSound
    <2>9. QED
      BY Zenon, <2>1, <2>2, <2>3, <2>4, <2>5, <2>7, <2>8 DEF BaseSound
  <1>12. /\ u[i].conn # None /\ at.i = i /\ (at'.f = "rest" \/ at'.i = i) /\ at'.f # "connect"
         /\ c.srv = c.srv
    BY Zenon, <1>1, <1>m DEF v
  <1>13. QED
    BY Zenon, <1>1, <1>3, <1>4, <1>5, <1>10, <1>11, <1>12, Stepped DEF v, c

LEMMA RespondFailed == ASSUME IInv, RespondFails PROVE IInv'
  <1> PICK i : i = at.i
    OBVIOUS
  <1> DEFINE c == conn[u[i].conn]
  <1>1. at.f = "respond" /\ at'.f = "finalize" /\ at'.i = i /\ at'.v = "ERROR" /\ at.i = i
        /\ UNCHANGED <<u, conn, conns, cache, exiting, got>>
    BY DEF RespondFails, At, Run, I
  <1>2. i \in Requests /\ u[i].conn # None
    BY <1>1, Run1
  <1>3. SameRequest(u[i], u[i])
    BY DEF SameRequest
  <1>4. Ready(i, u[i], c, at')
    BY <1>1, <1>2, <1>3, Ending
  <1>5. QED
    BY <1>1, <1>2, <1>4, Decided

LEMMA PipeResponded == ASSUME IInv, SendResponsePipe PROVE IInv'
  <1> PICK i : i = at.i
    OBVIOUS
  <1> DEFINE w == Began(i, "pipe")
             g == u[i].head
             c == conn[u[i].conn]
  <1>1. at.f = "respond" /\ at.i = i /\ u[i].kind.mode = "pipe" /\ ~u[i].header_sent
        /\ at'.f = "pipe" /\ at'.i = i /\ at'.v = "-"
        /\ UNCHANGED <<conn, conns, cache, exiting>>
    BY DEF SendResponsePipe, Responding, At, Run, I
  <1>2. u' = [u EXCEPT ![i] = w] /\ got' = [got EXCEPT ![i] = g]
    BY DEF SendResponsePipe, I
  <1>3. i \in Requests /\ u[i] \in UpstreamStates /\ c \in ConnStates /\ ConnSound(c)
        /\ ReqSound(i, u[i], c, got[i], at) /\ BaseSound(i, u[i], got[i], at)
    BY <1>1, Run1 DEF Joined
  <1>4. Parsed(i, u[i], c) /\ ~u[i].keepalive
    <2>1. Runs(at, i, {"respond"})
      BY <1>1 DEF Runs
    <2>2. Parsed(i, u[i], c)
      BY Zenon, <1>3, <2>1 DEF ReqSound
    <2>3. QED
      BY Zenon, <2>2, <1>3 DEF ReqSound, Parsed
  <1>5. Begun(i, w, u[i], c, "pipe") /\ w.busy = u[i].busy /\ g \in Seq(AnswerPieces)
    BY Zenon, <1>1, <1>3, <1>4, Beginning
  <1>6. w.busy = <<>>
    BY <1>1, <1>3, <1>5 DEF BaseSound
  <1> HIDE DEF w
  <1>7. g \o w.busy = u[i].head
    BY <1>5, <1>6
  <1>8. QED
    BY Zenon, <1>1, <1>2, <1>5, <1>6, <1>7, Responded

LEMMA MemoryResponded == ASSUME IInv, RespondInMemory PROVE IInv'
  <1> PICK i : i = at.i
    OBVIOUS
  <1> DEFINE w == Began(i, "memory")
             g == u[i].head
             c == conn[u[i].conn]
  <1>1. at.f = "respond" /\ at.i = i /\ u[i].kind.mode = "memory"
        /\ at'.i = i /\ (at'.f = "finalize" \/ (at'.f = "memory" /\ at'.v = "-"))
        /\ UNCHANGED <<conn, conns, cache, exiting>>
    <2>1. Run("finalize", i, "0") \/ Run("memory", i, "-")
      BY DEF RespondInMemory, I
    <2>2. at'.i = i /\ (at'.f = "finalize" \/ (at'.f = "memory" /\ at'.v = "-"))
      BY <2>1 DEF Run
    <2>3. QED
      BY <2>2 DEF RespondInMemory, At, I
  <1>2. u' = [u EXCEPT ![i] = w] /\ got' = [got EXCEPT ![i] = g]
    BY DEF RespondInMemory, I
  <1>3. i \in Requests /\ u[i] \in UpstreamStates /\ c \in ConnStates /\ ConnSound(c)
        /\ ReqSound(i, u[i], c, got[i], at) /\ BaseSound(i, u[i], got[i], at)
    BY <1>1, Run1 DEF Joined
  <1>4. Parsed(i, u[i], c) /\ ~u[i].keepalive
    <2>1. Runs(at, i, {"respond"})
      BY <1>1 DEF Runs
    <2>2. Parsed(i, u[i], c)
      BY Zenon, <1>3, <2>1 DEF ReqSound
    <2>3. QED
      BY Zenon, <2>2, <1>3 DEF ReqSound, Parsed
  <1>5. Begun(i, w, u[i], c, "memory") /\ w.busy = u[i].busy /\ g \in Seq(AnswerPieces)
    BY Zenon, <1>1, <1>3, <1>4, Beginning
  <1>6. w.busy = <<>>
    BY Zenon, <1>1, <1>3, <1>5 DEF BaseSound
  <1> HIDE DEF w
  <1>7. g \o w.busy = u[i].head
    BY <1>5, <1>6
  <1>8. QED
    BY Zenon, <1>1, <1>2, <1>5, <1>6, <1>7, Responded

LEMMA DirectResponded == ASSUME IInv, SendResponseDirect PROVE IInv'
  <1> PICK i : i = at.i
    OBVIOUS
  <1> DEFINE e == Began(i, "direct")
             w == [e EXCEPT !.busy = Tail(u[i].head)]
             g == <<Head(u[i].head)>>
             c == conn[u[i].conn]
  <1>1. at.f = "respond" /\ at.i = i /\ u[i].kind.mode = "direct" /\ ~u[i].header_sent
        /\ (at'.f = "rest" \/ (at'.f = "direct" /\ at'.i = i /\ at'.v # "fill"))
        /\ UNCHANGED <<conn, conns, cache, exiting>>
    BY DEF SendResponseDirect, Responding, At, Run, Stop, Rest, I
  <1>2. u' = [u EXCEPT ![i] = w] /\ got' = [got EXCEPT ![i] = g]
    BY DEF SendResponseDirect, I
  <1>3. i \in Requests /\ u[i] \in UpstreamStates /\ c \in ConnStates /\ ConnSound(c)
        /\ ReqSound(i, u[i], c, got[i], at) /\ BaseSound(i, u[i], got[i], at)
    BY <1>1, Run1 DEF Joined
  <1>4. Parsed(i, u[i], c) /\ ~u[i].keepalive
    <2>1. Runs(at, i, {"respond"})
      BY <1>1 DEF Runs
    <2>2. Parsed(i, u[i], c)
      BY Zenon, <1>3, <2>1 DEF ReqSound
    <2>3. QED
      BY Zenon, <2>2, <1>3 DEF ReqSound, Parsed
  <1>5. Begun(i, e, u[i], c, "direct") /\ g \in Seq(AnswerPieces)
        /\ Tail(u[i].head) \in Seq(AnswerPieces) /\ g \o Tail(u[i].head) = u[i].head
    BY Zenon, <1>1, <1>3, <1>4, Beginning
  <1> HIDE DEF e, g
  <1>6. e \in UpstreamStates
    BY Zenon, <1>5 DEF Begun
  <1>7. w \in UpstreamStates
    BY Zenon, <1>5, <1>6, UpstreamSet
  <1>8. w.busy = Tail(u[i].head) /\ w.reh = e.reh /\ w.header_sent = e.header_sent
        /\ w.length = e.length /\ w.keepalive = e.keepalive
    BY <1>6 DEF UpstreamStates
  <1>9. SameFilter(w, e)
    BY <1>6 DEF UpstreamStates, SameFilter
  <1> HIDE DEF w
  <1>10. SameFilter(w, u[i])
    BY ZenonT(120), <1>5, <1>9 DEF Begun, SameFilter
  <1>11. Begun(i, w, u[i], c, "direct")
    BY Zenon, <1>5, <1>7, <1>8, <1>10 DEF Begun
  <1>12. QED
    BY Zenon, <1>1, <1>2, <1>5, <1>8, <1>11, Responded

-----------------------------------------------------------------------------
(* More of the answer goes to the client: new was read.                    *)
Progress(w, v, d, c, new) ==
  /\ w.st = v.st /\ w.kind = v.kind /\ w.peer = v.peer /\ w.conn = v.conn /\ w.x = v.x
  /\ w.reading = v.reading /\ w.left = v.left /\ w.request_sent = v.request_sent
  /\ w.body_sent = v.body_sent /\ w.header_sent = v.header_sent /\ w.reh = v.reh
  /\ w.head = v.head /\ w.again = v.again /\ w.served = v.served
  /\ (v.down => w.down) /\ (w.down => v.down \/ v.kind.mode = "pipe")
  /\ w.wtimer => v.wtimer \/ v.kind.mode = "direct"
  /\ w.length = IF v.length = -1 THEN -1 ELSE v.length - Len(new)
  /\ w.keepalive => v.keepalive \/ (v.length = Len(new) /\ v.length # -1)
  /\ d.st = c.st /\ d.srv = c.srv /\ d.rsp = c.rsp /\ d.n = c.n /\ d.need = c.need
  /\ d.fin = c.fin
  /\ \/ new = <<>> /\ d.inq = c.inq
     \/ new = c.inq /\ d.inq = <<>>

Proceeds(i, w, d, a) ==
  /\ a.f = "rest" \/ a.i = i
  /\ a.f \in {"rest", "pipe", "direct", "memory", "finalize"}
  /\ w.keepalive => \/ d.rready
                    \/ w.left = 0 /\ d.need = 0
                    \/ (d.eof \/ ~w.body_sent) /\ a.f = "finalize"
  /\ a.f \in {"pipe", "memory", "direct"} => w.reh = a.f
  /\ a.f = "memory" => d.rready \/ d.rtimedout
  /\ a.f = "direct" /\ a.v = "fill" => w.busy # <<>> \/ w.length # 0
  /\ a.f = "finalize" /\ a.v = "0" /\ w.kind.mode # "memory"
       => w.busy = <<>> /\ w.length <= 0

\* all that was read went to the client, which has nothing else
LEMMA AllPassed ==
  ASSUME NEW i, NEW w, NEW c, NEW g, NEW a, Passing(i, w, c, g, a), ~w.down,
         ReadOf(c) \in Nat
  PROVE  OneAnswer(i, g \o w.busy)
  <1> DEFINE s == g \o w.busy
  <1>1. Len(s) = ReadOf(c) /\ c.srv.to = i /\ c.srv.x = w.x
    BY DEF Passing, Headed, Current
  <1>2. ASSUME NEW n \in 1..ReadOf(c)
        PROVE  s[n].to = i /\ s[n].x = w.x /\ s[n].n = n - 1
    <2>1. PICK m : m = n - 1
      OBVIOUS
    <2>2. s[n] = [to |-> c.srv.to, x |-> c.srv.x, n |-> m, rsp |-> c.rsp[1]]
      BY <2>1 DEF PieceOf, Passing
    <2>3. QED
      BY <1>1, <2>1, <2>2
  <1> HIDE DEF s
  <1>3. \A n \in 1..ReadOf(c) : s[1].x = w.x
    BY <1>2
  <1>4. QED
    BY <1>1, <1>2, <1>3 DEF OneAnswer, s

LEMMA Extended ==
  ASSUME NEW i, NEW v, NEW c \in ConnStates, NEW s \in Seq(AnswerPieces), ConnSound(c),
         Headed(i, v, c),
         Len(s) = ReadOf(c), \A n \in 1..ReadOf(c) : s[n] = PieceOf(c, n - 1)
  PROVE  /\ ReadOf(c) \in 1..c.n /\ c.n \in Nat /\ c.n <= 1 + c.rsp[1].body
         /\ c.rsp[1].body \in Nat /\ c.rsp[1].framed \in BOOLEAN
         /\ c.inq \in Seq(AnswerPieces) /\ Len(c.inq) = c.n - ReadOf(c)
         /\ Len(s \o c.inq) = c.n
         /\ \A n \in 1..c.n : (s \o c.inq)[n] = PieceOf(c, n - 1)
  <1>1. c.inq \in Seq(AnswerPieces) /\ c.n \in Nat /\ c.rsp \in Seq(Answers) /\ Len(c.inq) \in Nat
    BY DEF ConnStates
  <1>2. /\ c.rsp # <<>> /\ c.n <= 1 + c.rsp[1].body /\ Len(c.inq) <= c.n
        /\ \A j \in 1..Len(c.inq) : c.inq[j] = PieceOf(c, c.n - Len(c.inq) + j - 1)
        /\ ReadOf(c) >= 1
    BY DEF ConnSound, Headed
  <1>3. c.rsp[1] \in Answers
    <2>1. Len(c.rsp) \in Nat \ {0}
      BY <1>1, <1>2
    <2>2. QED
      BY <1>1, <2>1
  <1>4. c.rsp[1].body \in Nat /\ c.rsp[1].framed \in BOOLEAN
    BY <1>3, UpstreamAssumption
  <1>5. ReadOf(c) \in 1..c.n /\ Len(c.inq) = c.n - ReadOf(c) /\ c.n - Len(c.inq) = ReadOf(c)
    BY <1>1, <1>2 DEF ReadOf
  <1>6. PICK m : m = ReadOf(c)
    OBVIOUS
  <1>7. m \in Nat /\ Len(s) = m /\ Len(c.inq) = c.n - m /\ m \in 1..c.n
    BY <1>5, <1>6
  <1>8. /\ Len(s \o c.inq) = m + Len(c.inq)
        /\ \A n \in 1..(m + Len(c.inq)) :
             (s \o c.inq)[n] = IF n <= m THEN s[n] ELSE c.inq[n - m]
    BY Zenon, <1>1, <1>7, ConcatProperties
  <1>9. m + Len(c.inq) = c.n
    BY <1>1, <1>7
  <1>10. ASSUME NEW n \in 1..c.n PROVE (s \o c.inq)[n] = PieceOf(c, n - 1)
    <2>1. CASE n <= m
      BY <2>1, <1>6, <1>7, <1>8, <1>9
    <2>2. CASE ~(n <= m)
      <3>1. n - m \in 1..Len(c.inq) /\ m + (n - m) - 1 = n - 1
        BY <2>2, <1>1, <1>7
      <3>2. c.inq[n - m] = PieceOf(c, m + (n - m) - 1)
        BY <3>1, <1>2, <1>5, <1>6
      <3>3. QED
        BY <2>2, <3>1, <3>2, <1>8, <1>9
    <2>3. QED
      BY <2>1, <2>2
  <1>11. QED
    BY <1>1, <1>2, <1>4, <1>5, <1>8, <1>9, <1>10

\* what the length and the decision to keep were, and are
LengthOf(w, c) == w.length = IF c.rsp[1].framed THEN 1 + c.rsp[1].body - ReadOf(c) ELSE -1
KeepsAtEnd(w, c) == w.keepalive => c.rsp[1].framed /\ w.length = 0
AllPieces(s, c) == Len(s) = ReadOf(c) /\ \A n \in 1..ReadOf(c) : s[n] = PieceOf(c, n - 1)

MoreRead(i, w, d, c, new, s) ==
  /\ ConnSound(d) /\ Headed(i, w, d) /\ Current(i, w, d)
  /\ LengthOf(w, d) /\ KeepsAtEnd(w, d) /\ ReadOf(d) \in Nat \ {0}
  /\ d.rsp[1].framed => w.length >= 0
  /\ AllPieces(s, c) => AllPieces(s \o new, d)

LEMMA ReadMore ==
  ASSUME NEW i, NEW v, NEW w, NEW c \in ConnStates, NEW d \in ConnStates, ConnSound(c),
         Headed(i, v, c), NEW new, Progress(w, v, d, c, new), LengthOf(v, c), KeepsAtEnd(v, c),
         NEW s \in Seq(AnswerPieces)
  PROVE  MoreRead(i, w, d, c, new, s)
  <1>1. /\ w.length = (IF v.length = -1 THEN -1 ELSE v.length - Len(new))
        /\ w.keepalive => v.keepalive \/ (v.length = Len(new) /\ v.length # -1)
        /\ d.srv = c.srv /\ d.rsp = c.rsp /\ d.n = c.n
        /\ \/ new = <<>> /\ d.inq = c.inq
           \/ new = c.inq /\ d.inq = <<>>
        /\ w.x = v.x /\ w.head = v.head
    BY DEF Progress
  <1>2. c.n \in Nat /\ c.inq \in Seq(AnswerPieces) /\ c.rsp \in Seq(Answers) /\ Len(c.inq) \in Nat
    BY DEF ConnStates
  <1>3. /\ c.n <= 1 + c.rsp[1].body /\ c.rsp # <<>> /\ ReadOf(c) >= 1 /\ Len(c.inq) <= c.n
    BY DEF ConnSound, Headed
  <1>4. c.rsp[1] \in Answers
    <2>1. Len(c.rsp) \in Nat \ {0}
      BY <1>2, <1>3
    <2>2. QED
      BY <1>2, <2>1
  <1>5. c.rsp[1].body \in Nat /\ c.rsp[1].framed \in BOOLEAN
    BY <1>4, UpstreamAssumption
  <1>6. PICK B, N, R, Q, M, F : /\ B = c.rsp[1].body /\ N = c.n /\ R = ReadOf(c) /\ Q = ReadOf(d)
                                /\ M = Len(new) /\ F = c.rsp[1].framed
    OBVIOUS
  <1>7. B \in Nat /\ N \in Nat /\ R \in 1..N /\ Len(c.inq) = N - R /\ N <= 1 + B
    BY SMTT(60), <1>2, <1>3, <1>5, <1>6 DEF ReadOf
  <1>8. M \in Nat /\ Q = R + M /\ Q <= N /\ (new = <<>> \/ (new = c.inq /\ Q = N))
    <2>1. CASE new = <<>> /\ d.inq = c.inq
      <3>1. Q = R /\ M = 0
        BY <2>1, <1>1, <1>6 DEF ReadOf
      <3>2. QED
        BY <2>1, <3>1, <1>7
    <2>2. CASE new = c.inq /\ d.inq = <<>>
      <3>1. M = N - R /\ Q = N
        BY <2>2, <1>1, <1>2, <1>6, <1>7 DEF ReadOf
      <3>2. QED
        BY <2>2, <3>1, <1>7
    <2>3. QED
      BY <2>1, <2>2, <1>1
  <1>9. ConnSound(d)
    <2>1. CASE d.inq = c.inq
      BY <2>1, <1>1, SameSound
    <2>2. CASE d.inq = <<>>
      <3>1. Len(<<>>) = 0
        OBVIOUS
      <3>2. QED
        BY <2>2, <3>1, <1>1, <1>2 DEF ConnSound
    <2>3. QED
      BY <2>1, <2>2, <1>1
  <1>10. Q \in Nat \ {0} /\ Q <= 1 + B
    BY <1>7, <1>8
  <1>11. Current(i, w, d) /\ Headed(i, w, d)
    <2>1. ReadOf(d) >= 1
      BY <1>6, <1>10
    <2>2. QED
      BY <2>1, <1>1 DEF Current, Headed
  <1>12. v.length = (IF F THEN 1 + B - R ELSE -1) /\ (v.keepalive => F /\ v.length = 0)
    BY <1>6 DEF LengthOf, KeepsAtEnd
  <1>13. w.length = IF F THEN 1 + B - Q ELSE -1
    <2>1. CASE F
      <3>1. 1 + B - R # -1 /\ (1 + B - R) - M = 1 + B - Q
        BY <1>7, <1>8
      <3>2. QED
        BY Zenon, <2>1, <3>1, <1>1, <1>6, <1>12
    <2>2. CASE ~F
      BY <2>2, <1>1, <1>12
    <2>3. QED
      BY <2>1, <2>2
  <1>14. w.keepalive => F /\ w.length = 0
    <2>1. CASE v.keepalive
      <3>1. F /\ 1 + B - R = 0
        BY <2>1, <1>12
      <3>2. 1 + B - Q = 0
        BY <3>1, <1>7, <1>8
      <3>3. QED
        BY <3>1, <3>2, <1>13
    <2>2. CASE v.length = M /\ v.length # -1
      <3>1. F /\ 1 + B - R = M
        BY <2>2, <1>12
      <3>2. 1 + B - Q = 0
        BY <3>1, <1>7, <1>8
      <3>3. QED
        BY <3>1, <3>2, <1>13
    <2>3. QED
      BY <2>1, <2>2, <1>1, <1>6
  <1>15. AllPieces(s, c) => AllPieces(s \o new, d)
    <2> SUFFICES ASSUME AllPieces(s, c) PROVE AllPieces(s \o new, d)
      OBVIOUS
    <2>1. Len(s) = ReadOf(c) /\ \A n \in 1..ReadOf(c) : s[n] = PieceOf(c, n - 1)
      BY DEF AllPieces
    <2>2. \A n : PieceOf(d, n) = PieceOf(c, n)
      BY <1>1 DEF PieceOf
    <2>3. CASE new = <<>>
      <3>1. s \o <<>> = s /\ Len(<<>>) = 0
        OBVIOUS
      <3>2. Q = R
        BY <2>3, <3>1, <1>6, <1>7, <1>8
      <3>3. QED
        BY <2>1, <2>2, <2>3, <3>1, <3>2, <1>6 DEF AllPieces
    <2>4. CASE new = c.inq /\ Q = N
      <3>1. Len(s \o c.inq) = c.n /\ \A n \in 1..c.n : (s \o c.inq)[n] = PieceOf(c, n - 1)
        BY Zenon, <2>1, Extended
      <3>2. QED
        BY <2>2, <2>4, <3>1, <1>6 DEF AllPieces
    <2>5. QED
      BY <2>3, <2>4, <1>8
  <1>16. LengthOf(w, d) /\ KeepsAtEnd(w, d)
    BY <1>1, <1>6, <1>13, <1>14 DEF LengthOf, KeepsAtEnd
  <1>17. F => w.length >= 0
    BY <1>7, <1>10, <1>13
  <1>18. QED
    BY <1>1, <1>6, <1>9, <1>10, <1>11, <1>15, <1>16, <1>17 DEF MoreRead

\* ... which is the whole of it when nothing of the length is left
LEMMA Whole ==
  ASSUME NEW g \in Seq(AnswerPieces), NEW d \in ConnStates, AllPieces(g, d),
         ReadOf(d) \in Nat \ {0}, NEW w, LengthOf(w, d),
         d.rsp[1].framed => w.length >= 0, w.length <= 0, w.length \in Int, d.rsp \in Seq(Answers),
         d.rsp # <<>>
  PROVE  g # <<>> /\ (g[1].rsp.framed => Len(g) = 1 + g[1].rsp.body)
  <1>1. PICK Q, B : Q = ReadOf(d) /\ B = d.rsp[1].body
    OBVIOUS
  <1>2. Len(g) = Q /\ Q \in Nat \ {0} /\ \A n \in 1..Q : g[n] = PieceOf(d, n - 1)
    BY <1>1 DEF AllPieces
  <1>3. g # <<>> /\ g[1] = PieceOf(d, 1 - 1)
    <2>1. 1 \in 1..Q /\ Len(<<>>) = 0
      BY <1>2
    <2>2. QED
      BY <2>1, <1>2
  <1>4. g[1].rsp = d.rsp[1]
    BY <1>3 DEF PieceOf
  <1>5. B \in Nat
    <2>1. Len(d.rsp) \in Nat \ {0}
      OBVIOUS
    <2>2. d.rsp[1] \in Answers
      BY <2>1
    <2>3. QED
      BY <2>2, <1>1, UpstreamAssumption
  <1>6. ASSUME d.rsp[1].framed PROVE Q = 1 + B
    <2>1. w.length = 1 + B - Q /\ w.length = 0
      BY <1>1, <1>6 DEF LengthOf
    <2>2. 1 + B - Q = 0
      BY <2>1
    <2>3. QED
      BY <2>2, <1>2, <1>5
  <1>7. QED
    BY <1>1, <1>2, <1>3, <1>4, <1>6

LEMMA Passed ==
  ASSUME IInv, NEW i, i = at.i, at.f \in {"pipe", "memory", "direct"}, u[i].reh # "header",
         NEW w \in UpstreamStates, NEW d \in ConnStates, NEW g \in Seq(AnswerPieces), NEW new,
         NEW v, v = u[i], NEW c, c = conn[v.conn], NEW s, s = got[i] \o v.busy,
         Progress(w, v, d, c, new), Proceeds(i, w, d, at'),
         g \o w.busy = IF w.down THEN s ELSE s \o new,
         w.kind.mode # "direct" => w.busy = <<>>,
         u' = [u EXCEPT ![i] = w], conn' = [conn EXCEPT ![v.conn] = d],
         got' = [got EXCEPT ![i] = g], UNCHANGED <<conns, cache, exiting>>
  PROVE  IInv'
  <1>1. i \in Requests /\ v.conn # None /\ c \in ConnStates /\ c.st # "closed"
        /\ v \in UpstreamStates /\ ConnSound(c) /\ Sending(i, v, c)
        /\ got[i] \in Seq(AnswerPieces)
        /\ ReqSound(i, v, c, got[i], at) /\ BaseSound(i, v, got[i], at)
        /\ Passing(i, v, c, got[i], at)
    BY Zenon, Run1 DEF Joined
  <1>2. /\ w.st = v.st /\ w.kind = v.kind /\ w.peer = v.peer /\ w.conn = v.conn /\ w.x = v.x
        /\ w.reading = v.reading /\ w.left = v.left /\ w.request_sent = v.request_sent
        /\ w.body_sent = v.body_sent /\ w.header_sent = v.header_sent /\ w.reh = v.reh
        /\ w.head = v.head /\ w.again = v.again /\ w.served = v.served
        /\ (v.down => w.down) /\ (w.down => v.down \/ v.kind.mode = "pipe")
        /\ (w.wtimer => v.wtimer \/ v.kind.mode = "direct")
    BY Zenon DEF Progress
  <1>3. /\ d.st = c.st /\ d.srv = c.srv /\ d.rsp = c.rsp /\ d.n = c.n /\ d.need = c.need
        /\ d.fin = c.fin /\ (\A n : PieceOf(d, n) = PieceOf(c, n))
    BY Zenon DEF Progress, PieceOf
  <1>4. Headed(i, v, c) /\ Current(i, v, c) /\ v.reh = v.kind.mode
    BY Zenon, <1>1 DEF Passing, Headed
  <1>5. s \in Seq(AnswerPieces)
    <2>1. v.busy \in Seq(AnswerPieces)
      BY Zenon, <1>1 DEF UpstreamStates
    <2>2. PICK h : h = got[i] /\ h \in Seq(AnswerPieces)
      BY Zenon, <1>1
    <2>3. h \o v.busy \in Seq(AnswerPieces)
      BY Zenon, <2>1, <2>2, ConcatProperties
    <2>4. QED
      BY Zenon, <2>2, <2>3
  <1>6. LengthOf(v, c) /\ KeepsAtEnd(v, c) /\ (~v.down => AllPieces(s, c))
    BY Zenon, <1>1 DEF Passing, LengthOf, KeepsAtEnd, AllPieces
  <1>7. /\ ConnSound(d) /\ Headed(i, w, d) /\ Current(i, w, d)
        /\ LengthOf(w, d) /\ KeepsAtEnd(w, d) /\ ReadOf(d) \in Nat \ {0}
        /\ d.rsp[1].framed => w.length >= 0
        /\ AllPieces(s, c) => AllPieces(s \o new, d)
    <2>1. c \in ConnStates /\ ConnSound(c)
      BY Zenon, <1>1
    <2>2. Progress(w, v, d, c, new) /\ LengthOf(v, c) /\ KeepsAtEnd(v, c) /\ Headed(i, v, c)
      BY Zenon, <1>4, <1>6
    <2>3. MoreRead(i, w, d, c, new, s)
      BY Zenon, <2>1, <2>2, <1>5, ReadMore
    <2>4. QED
      BY Zenon, <2>3 DEF MoreRead
  <1>8. ConnSound(d)
    BY Zenon, <1>7
  <1>e. d.rsp \in Seq(Answers) /\ d.rsp # <<>>
    BY Zenon, <1>7 DEF ConnStates, Headed
  <1>9. Current(i, w, d) /\ Headed(i, w, d)
    BY Zenon, <1>7
  <1>10. Sending(i, w, d)
    BY ZenonT(120), <1>1, <1>2, <1>3, <1>4, <1>9 DEF Sending, PiecesOf
  <1>13. ~w.down => AllPieces(g \o w.busy, d)
    BY Zenon, <1>2, <1>6, <1>7
  <1>14. Passing(i, w, d, g, at')
    <2>1. w.reh = w.kind.mode
      BY Zenon, <1>2, <1>4
    <2>2. w.keepalive => \/ d.rready
                         \/ w.left = 0 /\ d.need = 0
                         \/ (d.eof \/ ~w.body_sent) /\ Runs(at', i, {"finalize"})
      BY Zenon DEF Proceeds, Runs
    <2>3. w.length = (IF d.rsp[1].framed THEN 1 + d.rsp[1].body - ReadOf(d) ELSE -1)
          /\ (w.keepalive => d.rsp[1].framed /\ w.length = 0)
      BY Zenon, <1>7 DEF LengthOf, KeepsAtEnd
    <2>4. ~w.down => /\ Len(g \o w.busy) = ReadOf(d)
                     /\ \A n \in 1..ReadOf(d) : (g \o w.busy)[n] = PieceOf(d, n - 1)
      BY Zenon, <1>13 DEF AllPieces
    <2>5. QED
      BY Zenon, <1>9, <2>1, <2>2, <2>3, <2>4 DEF Passing
  <1>15. ReqSound(i, w, d, g, at')
    <2>1. w.reh # "header"
      BY Zenon, <1>2
    <2>2. (w.wtimer => w.reh = "direct" \/ (w.again /\ w.reh = "header"))
          /\ (w.reh \in {"pipe", "direct"} => w.header_sent)
      BY ZenonT(120), <1>1, <1>2, <1>4 DEF ReqSound
    <2>3. /\ ~Runs(at', i, {"header"}) /\ ~Runs(at', i, {"respond"}) /\ ~Runs(at', i, {"next"})
          /\ Runs(at', i, {"pipe", "memory"}) => w.reh = at'.f
          /\ Runs(at', i, {"header", "memory"}) => d.rready \/ d.rtimedout
          /\ Runs(at', i, {"direct"}) => w.reh = "direct"
          /\ Runs(at', i, {"direct"}) /\ at'.v = "fill" => w.busy # <<>> \/ w.length # 0
      BY Zenon DEF Runs, Proceeds
    <2>4. QED
      BY Zenon, <1>10, <1>14, <2>1, <2>2, <2>3 DEF ReqSound
  <1>16. BaseSound(i, w, g, at')
    <2>1. ~w.header_sent => w.busy = <<>> /\ ~w.wtimer /\ ~w.down
      <3>1. v.reh \in {"pipe", "direct"} => v.header_sent
        BY Zenon, <1>1 DEF ReqSound
      <3>2. SUFFICES ASSUME ~v.header_sent PROVE w.busy = <<>> /\ ~w.wtimer /\ ~w.down
        BY Zenon, <1>2
      <3>3. v.kind.mode \notin {"pipe", "direct"}
        BY Zenon, <3>1, <3>2, <1>4
      <3>4. QED
        BY Zenon, <3>2, <3>3, <1>1, <1>2 DEF BaseSound
    <2>2. w.keepalive => w.request_sent
      BY Zenon, <1>9, <1>10 DEF Sending
    <2>3. OneAnswer(i, g \o w.busy)
      <3>1. CASE w.down
        BY Zenon, <3>1, <1>1 DEF BaseSound
      <3>2. CASE ~w.down
        <4>1. ReadOf(d) \in Nat
          BY Zenon, <1>7
        <4>2. QED
          BY Zenon, <3>2, <4>1, <1>14, AllPassed
      <3>3. QED
        BY Zenon, <3>1, <3>2
    <2>4. Runs(at', i, {"finalize"}) /\ at'.v = "0" => Complete(w, g)
      <3>1. SUFFICES ASSUME at'.f = "finalize", at'.v = "0", w.kind.mode # "memory", ~w.down
                     PROVE  g # <<>> /\ (g[1].rsp.framed => Len(g) = 1 + g[1].rsp.body)
        BY Zenon DEF Complete, Runs
      <3>2. w.busy = <<>> /\ w.length <= 0 /\ w.length \in Int
        BY Zenon, <3>1 DEF Proceeds, UpstreamStates
      <3>3. g \o w.busy = g
        <4>1. g \o <<>> = g
          BY Zenon, ConcatEmptySeq
        <4>2. QED
          BY Zenon, <3>2, <4>1
      <3>4. AllPieces(g, d)
        BY Zenon, <1>13, <3>1, <3>3
      <3>5. QED
        BY Zenon, <1>7, <1>e, <3>2, <3>4, Whole
    <2>5. ~Runs(at', i, {"connect"})
      BY Zenon DEF Runs, Proceeds
    <2>6. OnceOnly(w) <=> OnceOnly(v)
      BY Zenon, <1>2 DEF OnceOnly
    <2>7. /\ w.down => w.kind.mode = "pipe"
          /\ w.header_sent => w.kind.mode # "memory"
          /\ w.conn = None => w.again \/ ~w.header_sent
      BY ZenonT(120), <1>1, <1>2 DEF BaseSound
    <2>8. OnceOnly(w) =>
             /\ w.served \subseteq {w.x}
             /\ w.served # {} => w.request_sent
      BY Zenon, <1>1, <1>2, <2>6 DEF BaseSound
    <2>9. QED
      BY Zenon, <2>1, <2>2, <2>3, <2>4, <2>5, <2>7, <2>8 DEF BaseSound
  <1>17. /\ u[i].conn # None /\ at.i = i /\ (at'.f = "rest" \/ at'.i = i) /\ at'.f # "connect"
         /\ d.st # "closed" /\ d.srv = c.srv
    BY Zenon, <1>1, <1>3 DEF Proceeds
  <1>18. QED
    BY Zenon, <1>1, <1>2, <1>8, <1>15, <1>16, <1>17, Stepped

LEMMA PipeTimedOut == ASSUME IInv, PipeTimeout \/ DirectTimeout PROVE IInv'
  <1> PICK i : i = at.i
    OBVIOUS
  <1> DEFINE c == conn[u[i].conn]
  <1>1. at.f \in {"pipe", "direct"} /\ at'.f = "finalize" /\ at'.i = i /\ at'.v # "0" /\ at.i = i
        /\ UNCHANGED <<u, conn, conns, cache, exiting, got>>
    BY DEF PipeTimeout, DirectTimeout, At, Run, I
  <1>2. i \in Requests /\ u[i].conn # None
    BY <1>1, Run1
  <1>3. SameRequest(u[i], u[i])
    BY DEF SameRequest
  <1>4. Ready(i, u[i], c, at')
    BY <1>1, <1>2, <1>3, Ending
  <1>5. QED
    BY <1>1, <1>2, <1>4, Decided

LEMMA UpstreamProcessed == ASSUME IInv, ProcessUpstream PROVE IInv'
  <1> PICK i : i = at.i
    OBVIOUS
  <1>p1. PICK v, c : v = u[i] /\ c = conn[u[i].conn]
    OBVIOUS
  <1>p2. PICK new, h : new = Readable(i) /\ h = got[i]
    OBVIOUS
  <1>p3. PICK e : e = InputFilter(v, Len(new))
    OBVIOUS
  <1>p4. PICK w : w = [e EXCEPT !.down = @ \/ v.error]
    OBVIOUS
  <1>p5. PICK eof : eof = SeesEof(i, w)
    OBVIOUS
  <1>p6. PICK end : end = ProcessRequest(w, eof)
    OBVIOUS
  <1>p7. PICK d : d = [c EXCEPT !.inq = IF new = <<>> THEN @ ELSE <<>>,
                             !.rready = IF w.length = 0 THEN @ ELSE FALSE,
                             !.eof = eof, !.rtimer = TRUE]
    OBVIOUS
  <1>p8. PICK g : g = IF w.down THEN h ELSE h \o new
    OBVIOUS
  <1>1. at.f = "pipe" /\ at.i = i
    BY DEF ProcessUpstream, At
  <1>2. i \in Requests /\ v \in UpstreamStates /\ c \in ConnStates /\ h \in Seq(AnswerPieces)
        /\ conn \in [Conns -> ConnStates] /\ v.conn \in Conns
        /\ u \in [Requests -> UpstreamStates] /\ got \in [Requests -> Seq(AnswerPieces)]
        /\ ReqSound(i, v, c, h, at) /\ BaseSound(i, v, h, at)
        /\ (v.keepalive => c.rready \/ (v.left = 0 /\ c.need = 0))
        /\ (v.reh # "header" => Passing(i, v, c, h, at))
    BY <1>1, <1>p1, <1>p2, Run1 DEF Joined
  <1>3. v.reh = "pipe"
    BY <1>1, <1>2 DEF ReqSound, Runs
  <1>4. Passing(i, v, c, h, at) /\ v.kind.mode = "pipe" /\ v.busy = <<>>
    BY <1>2, <1>3 DEF Passing, BaseSound
  <1>5. /\ u' = [u EXCEPT ![i] = w]
        /\ got' = IF w.down THEN got ELSE [got EXCEPT ![i] = h \o new]
        /\ conn' = [conn EXCEPT ![v.conn] = d]
        /\ IF end = "-" THEN Stop ELSE Run("finalize", i, end)
        /\ UNCHANGED <<conns, cache, exiting>>
    <2>1. w = [InputFilter(u[I], Len(Readable(I))) EXCEPT !.down = @ \/ u[I].error]
      BY <1>p1, <1>p2, <1>p3, <1>p4 DEF I
    <2>2. d = [conn[C] EXCEPT !.inq = IF Readable(I) = <<>> THEN @ ELSE <<>>,
                              !.rready = IF w.length = 0 THEN @ ELSE FALSE,
                              !.eof = SeesEof(I, w), !.rtimer = TRUE]
      BY <1>p1, <1>p2, <1>p5, <1>p7 DEF I, C
    <2>3. /\ u' = [u EXCEPT ![I] = w]
          /\ got' = IF w.down THEN got ELSE [got EXCEPT ![I] = @ \o Readable(I)]
          /\ IF ProcessRequest(w, SeesEof(I, w)) = "-" THEN Stop
             ELSE Run("finalize", I, ProcessRequest(w, SeesEof(I, w)))
          /\ UNCHANGED <<conns, cache, exiting>>
      BY <2>1 DEF ProcessUpstream
    <2>4. conn' = [conn EXCEPT ![C].inq = IF Readable(I) = <<>> THEN @ ELSE <<>>,
                               ![C].rready = IF w.length = 0 THEN @ ELSE FALSE,
                               ![C].eof = SeesEof(I, w), ![C].rtimer = TRUE]
      BY <2>1 DEF ProcessUpstream
    <2>5. conn' = [conn EXCEPT ![v.conn] = d]
      <3>1. PICK k : k = C
        OBVIOUS
      <3>2. k = v.conn /\ k \in Conns /\ conn[k] = c
        BY <3>1, <1>2, <1>p1 DEF C, I
      <3>3. conn' = [conn EXCEPT ![k].inq = IF new = <<>> THEN @ ELSE <<>>,
                                 ![k].rready = IF w.length = 0 THEN @ ELSE FALSE,
                                 ![k].eof = eof, ![k].rtimer = TRUE]
        BY <2>4, <3>1, <1>p2, <1>p5 DEF I
      <3>4. conn' = [conn EXCEPT ![k] =
                       [conn[k] EXCEPT !.inq = IF new = <<>> THEN conn[k].inq ELSE <<>>,
                                       !.rready = IF w.length = 0 THEN conn[k].rready ELSE FALSE,
                                       !.eof = eof, !.rtimer = TRUE]]
        BY Zenon, <3>2, <3>3, <1>2
      <3>5. d = [conn[k] EXCEPT !.inq = IF new = <<>> THEN conn[k].inq ELSE <<>>,
                                !.rready = IF w.length = 0 THEN conn[k].rready ELSE FALSE,
                                !.eof = eof, !.rtimer = TRUE]
        BY <3>2, <1>p7
      <3>6. QED
        BY <3>2, <3>4, <3>5
    <2>6. [got EXCEPT ![I] = @ \o Readable(I)] = [got EXCEPT ![i] = h \o new]
      BY <1>p2 DEF I
    <2>7. end = ProcessRequest(w, SeesEof(I, w))
      BY <1>p5, <1>p6 DEF I
    <2>8. QED
      BY <2>3, <2>5, <2>6, <2>7 DEF I
  <1>6. new = (IF c.rready /\ v.length # 0 THEN c.inq ELSE <<>>) /\ eof \in BOOLEAN
    BY <1>p1, <1>p2, <1>p5 DEF Readable, SeesEof
  <1>7. v.error \in BOOLEAN /\ c.inq \in Seq(AnswerPieces) /\ new \in Seq(AnswerPieces)
        /\ c.rready \in BOOLEAN /\ v.length \in Int
    <2>1. v.error \in BOOLEAN /\ v.length \in Int
      BY <1>2 DEF UpstreamStates
    <2>2. c.inq \in Seq(AnswerPieces) /\ c.rready \in BOOLEAN
      BY <1>2 DEF ConnStates
    <2>3. new \in Seq(AnswerPieces)
      BY <1>6, <2>2
    <2>4. QED
      BY <2>1, <2>2, <2>3
  <1>8. Len(new) \in Nat
    BY <1>7
  <1>9. /\ e \in UpstreamStates /\ SameFilter(e, v) /\ e.header_sent = v.header_sent
        /\ e.reh = v.reh /\ e.busy = v.busy
        /\ e.length = (IF v.length = -1 THEN -1 ELSE v.length - Len(new))
        /\ e.keepalive => v.keepalive \/ (v.length = Len(new) /\ Len(new) # 0 /\ v.length # -1)
    BY Zenon, <1>2, <1>8, <1>p3, Filtered
  <1>10. w \in UpstreamStates
    <2>1. PICK b \in BOOLEAN : b = (e.down \/ v.error)
      OBVIOUS
    <2>2. w = [e EXCEPT !.down = b]
      BY <1>p4, <2>1
    <2>3. QED
      BY <2>1, <2>2, <1>9, UpstreamSet
  <1>11. /\ (v.down => w.down) /\ w.header_sent = v.header_sent
         /\ w.reh = v.reh /\ w.busy = v.busy /\ w.length = e.length /\ w.keepalive = e.keepalive
    BY <1>9, <1>p4 DEF SameFilter, UpstreamStates
  <1>12. d \in ConnStates
    <2>a. PICK q : q = (IF new = <<>> THEN c.inq ELSE <<>>)
      OBVIOUS
    <2>b. <<>> \in Seq(AnswerPieces)
      OBVIOUS
    <2>1. q = (IF new = <<>> THEN c.inq ELSE <<>>) /\ q \in Seq(AnswerPieces)
      BY <1>7, <2>a, <2>b
    <2>2. PICK r : r = (IF w.length = 0 THEN c.rready ELSE FALSE) /\ r \in BOOLEAN
      BY <1>7
    <2>3. PICK d1 \in ConnStates : d1 = [c EXCEPT !.inq = q]
      BY <1>2, <2>1, ConnSet
    <2>4. PICK d2 \in ConnStates : d2 = [d1 EXCEPT !.rready = r]
      BY <2>2, ConnSet
    <2>5. PICK d3 \in ConnStates : d3 = [d2 EXCEPT !.eof = eof]
      BY <1>6, ConnSet
    <2>6. [d3 EXCEPT !.rtimer = TRUE] \in ConnStates
      BY ConnSet
    <2>7. d = [d3 EXCEPT !.rtimer = TRUE]
      <3>1. d = [c EXCEPT !.inq = q, !.rready = r, !.eof = eof, !.rtimer = TRUE]
        BY <1>p7, <2>1, <2>2
      <3>2. QED
        BY <3>1, <2>3, <2>4, <2>5
    <2>8. QED
      BY <2>6, <2>7
  <1>13. /\ d.st = c.st /\ d.srv = c.srv /\ d.rsp = c.rsp /\ d.n = c.n /\ d.need = c.need
         /\ d.fin = c.fin /\ d.inq = (IF new = <<>> THEN c.inq ELSE <<>>)
    BY <1>2, <1>p7 DEF ConnStates
  <1>14. d.rready = IF w.length = 0 THEN c.rready ELSE FALSE
    BY <1>2, <1>p7 DEF ConnStates
  <1>15. Progress(w, v, d, c, new)
    <2>1. \/ new = <<>> /\ d.inq = c.inq
          \/ new = c.inq /\ d.inq = <<>>
      BY <1>6, <1>13
    <2>2. w.wtimer = v.wtimer /\ w.st = v.st /\ w.kind = v.kind /\ w.peer = v.peer /\ w.conn = v.conn
          /\ w.x = v.x /\ w.reading = v.reading /\ w.left = v.left /\ w.request_sent = v.request_sent
          /\ w.body_sent = v.body_sent /\ w.head = v.head /\ w.again = v.again /\ w.served = v.served
      BY <1>9, <1>p4 DEF SameFilter, UpstreamStates
    <2>3. QED
      BY <1>4, <1>9, <1>11, <1>13, <2>1, <2>2 DEF Progress
  <1>16. end = "0" => w.length <= 0
    <2>1. PICK len \in Int : len = w.length
      BY <1>10 DEF UpstreamStates
    <2>2. end = "0" => len = 0 \/ len < -1 \/ len = -1
      BY <1>p6, <2>1 DEF ProcessRequest
    <2>3. QED
      BY <2>1, <2>2
  <1>17. w.keepalive => d.rready \/ (w.left = 0 /\ d.need = 0)
    <2>1. v.keepalive => v.length = 0
      BY <1>4 DEF Passing
    <2>2. Len(<<>>) = 0 /\ v.length - 0 = v.length
      BY <1>7
    <2>3. CASE v.keepalive
      <3>1. new = <<>> /\ w.length = 0
        BY <1>6, <1>9, <1>11, <2>1, <2>2, <2>3
      <3>2. w.left = v.left /\ d.need = c.need
        BY <1>15 DEF Progress
      <3>3. QED
        BY <1>2, <1>14, <2>3, <3>1, <3>2
    <2>4. CASE v.length = Len(new) /\ Len(new) # 0 /\ v.length # -1
      <3>1. new # <<>>
        BY <2>2, <2>4
      <3>2. c.rready
        BY <1>6, <3>1
      <3>3. PICK len, n : len = v.length /\ n = Len(new) /\ len \in Int /\ n \in Nat
        BY <1>7, <1>8
      <3>4. w.length = len - n /\ len = n
        BY <1>9, <1>11, <2>4, <3>3
      <3>5. w.length = 0
        BY <3>3, <3>4
      <3>6. QED
        BY <1>14, <3>2, <3>5
    <2>5. QED
      BY <1>9, <1>11, <2>3, <2>4
  <1>18. Proceeds(i, w, d, at')
    <2>1. CASE end = "-"
      <3>1. at'.f = "rest"
        BY <1>5, <2>1 DEF Stop, Rest
      <3>2. QED
        BY <1>17, <3>1 DEF Proceeds
    <2>2. CASE end # "-"
      <3>a. Run("finalize", i, end)
        BY <1>5, <2>2
      <3>1. at'.f = "finalize" /\ at'.i = i /\ at'.v = end
        BY <3>a DEF Run
      <3>2. w.busy = <<>>
        BY <1>4, <1>11
      <3>3. QED
        BY <1>16, <1>17, <3>1, <3>2 DEF Proceeds
    <2>3. QED
      BY <2>1, <2>2
  <1>19. g \in Seq(AnswerPieces) /\ got' = [got EXCEPT ![i] = g]
    <2>1. h \o new \in Seq(AnswerPieces)
      BY <1>2, <1>7
    <2>2. got = [got EXCEPT ![i] = h]
      BY <1>2, <1>p2
    <2>3. QED
      BY <1>2, <1>5, <1>p8, <2>1, <2>2
  <1>20. PICK s : s = got[i] \o v.busy
    OBVIOUS
  <1>21. s = h /\ w.busy = <<>> /\ g \o w.busy = (IF w.down THEN s ELSE s \o new)
    <2>1. h \o <<>> = h
      BY <1>2
    <2>2. g \o <<>> = g
      BY <1>19
    <2>3. QED
      BY <1>4, <1>11, <1>20, <1>p2, <1>p8, <2>1, <2>2
  <1>22. w.kind.mode # "direct" => w.busy = <<>>
    BY <1>21
  <1>23. u[i].reh # "header" /\ c = conn[v.conn] /\ UNCHANGED <<conns, cache, exiting>>
    BY <1>3, <1>5, <1>p1
  <1>a. v = u[i] /\ u' = [u EXCEPT ![i] = w] /\ conn' = [conn EXCEPT ![v.conn] = d]
    BY <1>5, <1>p1
  <1>24. QED
    BY Zenon, <1>a, <1>1, <1>10, <1>12, <1>15, <1>18, <1>19, <1>20, <1>21, <1>22, <1>23, Passed

(* What waits for the client is written, or is not.                        *)
Busy(w, v, b, t) == w = [v EXCEPT !.busy = b, !.wtimer = t]
Follows(a, i, b, length) ==
  /\ a.i = i /\ a.f \in {"direct", "finalize"}
  /\ a.f = "direct" => a.v = "fill" /\ (b # <<>> \/ length # 0)
  /\ a.f = "finalize" /\ a.v = "0" => b = <<>> /\ length <= 0

LEMMA Written ==
  ASSUME IInv, NEW i, i = at.i, at.f = "direct", NEW v, v = u[i], NEW c, c = conn[v.conn],
         NEW b, b \in {<<>>, v.busy}, NEW t \in BOOLEAN, t => v.busy # <<>>,
         NEW w, Busy(w, v, b, t),
         NEW g \in Seq(AnswerPieces), g \o b = got[i] \o v.busy,
         Follows(at', i, b, v.length),
         u' = [u EXCEPT ![i] = w], got' = [got EXCEPT ![i] = g],
         UNCHANGED <<conn, conns, cache, exiting>>
  PROVE  IInv'
  <1>1. i \in Requests /\ v.conn # None /\ c \in ConnStates /\ c.st # "closed"
        /\ conn \in [Conns -> ConnStates] /\ v.conn \in Conns
        /\ v \in UpstreamStates /\ ConnSound(c) /\ Sending(i, v, c)
        /\ got[i] \in Seq(AnswerPieces)
        /\ ReqSound(i, v, c, got[i], at) /\ BaseSound(i, v, got[i], at)
        /\ (v.keepalive => c.rready \/ (v.left = 0 /\ c.need = 0))
        /\ (v.reh = "header" => ~v.keepalive /\ ~c.rready)
        /\ (v.reh # "header" => Passing(i, v, c, got[i], at))
    BY Zenon, Run1 DEF Joined
  <1>2. v.busy \in Seq(AnswerPieces) /\ b \in Seq(AnswerPieces)
    <2>1. v \in UpstreamStates
      BY Zenon, <1>1
    <2>2. v.busy \in Seq(AnswerPieces)
      BY Zenon, <2>1 DEF UpstreamStates
    <2>3. <<>> \in Seq(AnswerPieces)
      OBVIOUS
    <2>4. CASE b = <<>>
      BY <2>2, <2>3, <2>4
    <2>5. CASE b = v.busy
      BY Zenon, <2>2, <2>5
    <2>6. QED
      BY <2>4, <2>5
  <1>3. w \in UpstreamStates
    <2>1. PICK w1 \in UpstreamStates : w1 = [v EXCEPT !.busy = b]
      BY Zenon, <1>1, <1>2, UpstreamSet
    <2>2. [w1 EXCEPT !.wtimer = t] \in UpstreamStates
      BY Zenon, UpstreamSet
    <2>3. QED
      BY Zenon, <2>1, <2>2 DEF Busy
  <1>4. /\ w.st = v.st /\ w.kind = v.kind /\ w.peer = v.peer /\ w.conn = v.conn /\ w.x = v.x
        /\ w.reading = v.reading /\ w.left = v.left /\ w.request_sent = v.request_sent
        /\ w.body_sent = v.body_sent /\ w.header_sent = v.header_sent /\ w.reh = v.reh
        /\ w.head = v.head /\ w.again = v.again /\ w.served = v.served /\ w.down = v.down
        /\ w.length = v.length /\ w.keepalive = v.keepalive
        /\ w.busy = b /\ w.wtimer = t
    BY ZenonT(120), <1>1 DEF UpstreamStates, Busy
  <1>5. conn' = [conn EXCEPT ![v.conn] = c]
    BY Zenon, <1>1
  <1>6. v.length \in Int
    BY Zenon, <1>1 DEF UpstreamStates
  <1>7. (v.reh = "direct" \/ (v.again /\ v.reh = "header")) /\ (t => v.header_sent)
    <2>1. Runs(at, i, {"direct"})
      BY DEF Runs
    <2>2. QED
      BY Zenon, <2>1, <1>1 DEF ReqSound, BaseSound
  <1>8. CASE v.reh = "direct"
    <2>1. Passing(i, v, c, got[i], at) /\ v.kind.mode = "direct"
      BY Zenon, <1>1, <1>8 DEF Passing
    <2>2. PICK new, s : new = <<>> /\ s = got[i] \o v.busy
      BY Zenon
    <2>3. Len(new) = 0 /\ v.length = (IF v.length = -1 THEN -1 ELSE v.length - Len(new))
      BY <1>6, <2>2
    <2>4. Progress(w, v, c, c, new)
      BY Zenon, <1>4, <2>1, <2>2, <2>3 DEF Progress
    <2>5. s \in Seq(AnswerPieces) /\ s \o <<>> = s
      <3>1. PICK h \in Seq(AnswerPieces) : h = got[i]
        BY Zenon, <1>1
      <3>2. h \o v.busy \in Seq(AnswerPieces)
        BY <1>2
      <3>3. s \in Seq(AnswerPieces)
        BY Zenon, <2>2, <3>1, <3>2
      <3>4. QED
        BY <3>3
    <2>6. g \o w.busy = IF w.down THEN s ELSE s \o new
      BY Zenon, <1>4, <2>2, <2>5
    <2>7. Proceeds(i, w, c, at')
      <3>1. w.keepalive => c.rready \/ (w.left = 0 /\ c.need = 0)
        BY Zenon, <1>1, <1>4
      <3>2. at'.f = "direct" => at'.v = "fill" /\ (w.busy # <<>> \/ w.length # 0)
        BY Zenon, <1>4 DEF Follows
      <3>3. at'.f = "finalize" /\ at'.v = "0" => w.busy = <<>> /\ w.length <= 0
        BY Zenon, <1>4 DEF Follows
      <3>4. at'.f = "direct" => w.reh = at'.f
        BY Zenon, <1>4, <1>8
      <3>5. QED
        BY Zenon, <3>1, <3>2, <3>3, <3>4 DEF Proceeds, Follows
    <2>8. w.kind.mode # "direct" => w.busy = <<>>
      BY Zenon, <1>4, <2>1
    <2>9. u[i].reh # "header" /\ at.f \in {"pipe", "memory", "direct"}
      BY <1>8
    <2>10. c \in ConnStates
      BY Zenon, <1>1
    <2>11. UNCHANGED <<conns, cache, exiting>>
      OBVIOUS
    <2>12. s = got[i] \o v.busy
      BY Zenon, <2>2
    <2>13. QED
      BY ZenonT(120), <1>3, <1>5, <2>4, <2>6, <2>7, <2>8, <2>9, <2>10, <2>11, <2>12, Passed
  <1>9. CASE v.again /\ v.reh = "header"
    <2>1. Sending(i, w, c)
      <3>1. Sending(i, v, c)
        BY Zenon, <1>1
      <3>2. w.left = v.left /\ w.reading = v.reading /\ w.request_sent = v.request_sent
            /\ w.body_sent = v.body_sent
        BY Zenon, <1>4
      <3>3. PiecesOf(w) = PiecesOf(v)
        BY Zenon, <1>4 DEF PiecesOf
      <3>4. Current(i, w, c) <=> Current(i, v, c)
        BY Zenon, <1>4 DEF Current
      <3>5. QED
        BY Zenon, <3>1, <3>2, <3>3, <3>4 DEF Sending
    <2>2. ReqSound(i, w, c, g, at')
      <3>1. /\ ~Runs(at', i, {"header"}) /\ ~Runs(at', i, {"header", "memory"})
            /\ ~Runs(at', i, {"respond"}) /\ ~Runs(at', i, {"pipe", "memory"})
            /\ ~Runs(at', i, {"next"})
            /\ Runs(at', i, {"direct"}) => at'.v = "fill" /\ (w.busy # <<>> \/ w.length # 0)
        BY Zenon, <1>4 DEF Runs, Follows
      <3>2. w.reh = "header" /\ w.again /\ ~w.keepalive /\ ~c.rready
        BY ZenonT(120), <1>1, <1>4, <1>9
      <3>3. QED
        BY Zenon, <2>1, <3>1, <3>2 DEF ReqSound
    <2>3. BaseSound(i, w, g, at')
      <3>1. OneAnswer(i, g \o w.busy)
        BY Zenon, <1>1, <1>4 DEF BaseSound
      <3>2. ~Complete(w, g) => FALSE
        BY Zenon, <1>4, <1>9 DEF Complete
      <3>3. OnceOnly(w) <=> OnceOnly(v)
        BY Zenon, <1>4 DEF OnceOnly
      <3>4. ~Runs(at', i, {"connect"})
        BY DEF Runs, Follows
      <3>5. /\ ~w.header_sent => w.busy = <<>> /\ ~w.wtimer /\ ~w.down
            /\ w.kind.mode # "direct" => w.busy = <<>>
        BY ZenonT(120), <1>1, <1>4, <1>7 DEF BaseSound
      <3>6. QED
        BY ZenonT(120), <1>1, <1>4, <3>1, <3>2, <3>3, <3>4, <3>5 DEF BaseSound
    <2>4. at.i = i /\ (at'.f = "rest" \/ at'.i = i) /\ at'.f # "connect"
      BY DEF Follows
    <2>5. /\ w.st = u[i].st /\ w.conn = u[i].conn /\ w.peer = u[i].peer /\ w.x = u[i].x
          /\ u[i].conn # None /\ c.srv = conn[u[i].conn].srv /\ i \in Requests
          /\ c \in ConnStates /\ c.st # "closed" /\ ConnSound(c)
      BY Zenon, <1>1, <1>4
    <2>6. conn' = [conn EXCEPT ![u[i].conn] = c]
      BY Zenon, <1>5
    <2>7. QED
      BY Zenon, <1>3, <2>2, <2>3, <2>4, <2>5, <2>6, Stepped
  <1>10. QED
    BY <1>7, <1>8, <1>9

LEMMA DirectWritten == ASSUME IInv, DirectWrites PROVE IInv'
  <1>i. PICK i : i = at.i
    OBVIOUS
  <1>v. PICK v, c, h : v = u[i] /\ c = conn[v.conn] /\ h = got[i]
    OBVIOUS
  <1>1. at.f = "direct" /\ at.i = i /\ UNCHANGED <<conn, conns, cache, exiting>>
    BY <1>i DEF DirectWrites, At
  <1>2. i \in Requests /\ v.conn # None /\ v \in UpstreamStates /\ h \in Seq(AnswerPieces)
        /\ u \in [Requests -> UpstreamStates] /\ got \in [Requests -> Seq(AnswerPieces)]
    BY <1>1, <1>v, Run1 DEF Joined
  <1>3. v.busy \in Seq(AnswerPieces) /\ v.length \in Int
    BY <1>2 DEF UpstreamStates
  <1>4. CASE Run("finalize", I, "ERROR") /\ UNCHANGED <<u, got>>
    <2>1. at'.f = "finalize" /\ at'.i = i /\ at'.v # "0"
      BY <1>4, <1>i DEF Run, I
    <2>2. SameRequest(u[i], u[i])
      BY DEF SameRequest
    <2>3. Ready(i, u[i], conn[u[i].conn], at')
      BY <1>1, <1>2, <1>v, <2>1, <2>2, Ending
    <2>4. QED
      BY <1>1, <1>2, <1>4, <1>v, <2>1, <2>3, Decided
  <1>5. CASE /\ v.busy # <<>> /\ u' = [u EXCEPT ![I].wtimer = TRUE]
             /\ Run("direct", I, "fill") /\ UNCHANGED got
    <2>1. PICK b, t, w : b = v.busy /\ t = TRUE /\ w = [v EXCEPT !.busy = b, !.wtimer = t]
      OBVIOUS
    <2>2. w = [v EXCEPT !.wtimer = TRUE]
      BY Zenon, <1>2, <2>1 DEF UpstreamStates
    <2>3. u' = [u EXCEPT ![i] = w]
      BY <1>2, <1>5, <1>i, <1>v, <2>2 DEF I
    <2>4. got' = [got EXCEPT ![i] = h]
      BY <1>2, <1>5, <1>v
    <2>5. at'.f = "direct" /\ at'.i = i /\ at'.v = "fill"
      BY <1>5, <1>i DEF Run, I
    <2>6. h \o b = got[i] \o v.busy /\ b \in {<<>>, v.busy} /\ t \in BOOLEAN /\ v.busy # <<>>
          /\ b # <<>>
      BY <1>5, <1>v, <2>1
    <2>7. Busy(w, v, b, t)
      BY <2>1 DEF Busy
    <2>8. Follows(at', i, b, v.length)
      BY <2>5, <2>6 DEF Follows
    <2>9. QED
      BY ZenonT(120), <1>1, <1>2, <1>v, <1>i, <2>3, <2>4, <2>6, <2>7, <2>8, Written
  <1>6. CASE /\ u' = [u EXCEPT ![I].busy = <<>>, ![I].wtimer = FALSE]
             /\ got' = [got EXCEPT ![I] = @ \o u[I].busy]
             /\ LET end == DirectEnd(u[I], C) IN
                IF end = "-" THEN Run("direct", I, "fill") ELSE Run("finalize", I, end)
    <2>1. PICK b, t, w, g : b = <<>> /\ t = FALSE /\ w = [v EXCEPT !.busy = b, !.wtimer = t]
                            /\ g = h \o v.busy
      OBVIOUS
    <2>3. u' = [u EXCEPT ![i] = w]
      BY Zenon, <1>2, <1>6, <1>i, <1>v, <2>1 DEF I
    <2>4. got' = [got EXCEPT ![i] = g]
      BY Zenon, <1>2, <1>6, <1>i, <1>v, <2>1 DEF I
    <2>5. g \in Seq(AnswerPieces) /\ g \o b = got[i] \o v.busy /\ b \in {<<>>, v.busy}
          /\ t \in BOOLEAN /\ ~t
      <3>1. h \o v.busy \in Seq(AnswerPieces)
        BY <1>2, <1>3
      <3>2. g \o <<>> = g
        BY <2>1, <3>1
      <3>3. QED
        BY <1>v, <2>1, <3>1, <3>2
    <2>6. PICK end : end = DirectEnd(v, v.conn)
      OBVIOUS
    <2>7. IF end = "-" THEN Run("direct", i, "fill") ELSE Run("finalize", i, end)
      BY <1>6, <1>i, <1>v, <2>6 DEF I, C
    <2>8. (end = "-" => v.length # 0) /\ (end = "0" => v.length <= 0)
      <3>1. (end = "-" => v.length # 0) /\ (end = "0" => v.length = 0 \/ v.length = -1)
        BY <2>6 DEF DirectEnd
      <3>2. QED
        BY <1>3, <3>1
    <2>9. /\ at'.i = i /\ at'.f \in {"direct", "finalize"}
          /\ at'.f = "direct" => at'.v = "fill" /\ v.length # 0
          /\ at'.f = "finalize" /\ at'.v = "0" => v.length <= 0
      <3>1. CASE end = "-"
        BY <2>7, <2>8, <3>1 DEF Run
      <3>2. CASE end # "-"
        <4>1. at'.i = i /\ at'.f = "finalize" /\ at'.v = end
          BY <2>7, <3>2 DEF Run
        <4>2. QED
          BY <2>8, <4>1
      <3>3. QED
        BY <3>1, <3>2
    <2>10. Busy(w, v, b, t)
      BY <2>1 DEF Busy
    <2>11. Follows(at', i, b, v.length)
      BY <2>1, <2>9 DEF Follows
    <2>12. QED
      BY ZenonT(120), <1>1, <1>2, <1>v, <1>i, <2>3, <2>4, <2>5, <2>10, <2>11, Written
  <1>7. QED
    BY Zenon, <1>4, <1>5, <1>6, <1>i, <1>v DEF DirectWrites, I

(* One buffer is read: there is nothing to do, the connection is waited    *)
(* for, or what came is what the client gets next.                         *)
LEMMA DirectRead == ASSUME IInv, DirectReads PROVE IInv'
  <1>i. PICK i : i = at.i
    OBVIOUS
  <1>v. PICK v, c, h : v = u[i] /\ c = conn[v.conn] /\ h = got[i]
    OBVIOUS
  <1>1. at.f = "direct" /\ at.i = i /\ at.v \in {"read", "fill"}
        /\ UNCHANGED <<conns, cache, exiting, got>>
    BY <1>i DEF DirectReads, At, V
  <1>2. i \in Requests /\ v.conn # None /\ v.conn \in Conns /\ c \in ConnStates
        /\ v \in UpstreamStates /\ h \in Seq(AnswerPieces)
        /\ u \in [Requests -> UpstreamStates] /\ got \in [Requests -> Seq(AnswerPieces)]
        /\ conn \in [Conns -> ConnStates] /\ c.st # "closed"
        /\ ReqSound(i, v, c, h, at) /\ BaseSound(i, v, h, at)
        /\ (v.keepalive => c.rready \/ (v.left = 0 /\ c.need = 0))
        /\ (v.reh = "header" => ~v.keepalive /\ ~c.rready)
        /\ (v.reh # "header" => Passing(i, v, c, h, at))
    BY Zenon, <1>1, <1>v, Run1 DEF Joined
  <1>3. /\ v.reh = "direct" \/ (at.v = "fill" /\ v.reh = "header")
        /\ at.v = "fill" => v.busy # <<>> \/ v.length # 0
        /\ v.keepalive => v.length = 0
    <2>1. Runs(at, i, {"direct"})
      BY <1>1 DEF Runs
    <2>2. v.keepalive => v.length = 0
      BY <1>2 DEF Passing
    <2>3. QED
      BY <1>1, <1>2, <2>1, <2>2 DEF ReqSound
  <1>4. C = v.conn /\ I = i /\ V = at.v
    BY <1>i, <1>v DEF C, I, V
  <1>5. CASE at.v = "read" /\ v.length = 0 /\ Run("direct", I, "write") /\ UNCHANGED <<u, conn>>
    <2>1. at'.f = "direct" /\ at'.i = i /\ at'.v = "write"
      BY Zenon, <1>5, <1>i DEF Run, I
    <2>2. v.reh = "direct"
      BY <1>3, <1>5
    <2>3. Ready(i, v, c, at')
      BY <1>2, <2>1, <2>2 DEF Ready, Runs
    <2>4. QED
      BY <1>1, <1>2, <1>5, <1>v, <2>1, <2>3, Decided
  <1>6. CASE /\ conn' = [conn EXCEPT ![C].rtimer = ~conn[C].rready] /\ Stop /\ UNCHANGED u
    <2>1. PICK r \in BOOLEAN : r = ~c.rready
      OBVIOUS
    <2>2. PICK d \in ConnStates : d = [c EXCEPT !.rtimer = r]
      BY <1>2, ConnSet
    <2>3. conn' = [conn EXCEPT ![v.conn] = d]
      BY Zenon, <1>2, <1>4, <1>6, <1>v, <2>1, <2>2
    <2>4. at'.f = "rest"
      BY <1>6 DEF Stop, Rest
    <2>5. /\ d.st = c.st /\ d.srv = c.srv /\ d.rsp = c.rsp /\ d.n = c.n /\ d.need = c.need
          /\ d.inq = c.inq /\ d.fin = c.fin /\ d.rready = c.rready
      BY <1>2, <2>2 DEF ConnStates
    <2>6. Ready(i, v, d, at')
      BY <1>2, <2>4, <2>5 DEF Ready, Runs
    <2>7. UNCHANGED <<u, conns, cache, exiting, got>> /\ at.f # "next"
          /\ (at.f = "rest" \/ at.i = i) /\ (at'.f = "rest" \/ at'.i = i)
      BY <1>1, <1>6, <2>4
    <2>8. d.st # "closed" /\ (c.fin => d.fin) /\ u[i].conn # None /\ i \in Requests
      BY <1>2, <1>v, <2>5
    <2>9. c = conn[u[i].conn] /\ conn' = [conn EXCEPT ![u[i].conn] = d] /\ Ready(i, u[i], d, at')
      BY <1>v, <2>3, <2>6
    <2>10. QED
      BY Zenon, <2>5, <2>7, <2>8, <2>9, Noted
  <1>7. CASE /\ at.v = "read" => v.length # 0
             /\ v.busy = <<>> /\ c.rready
             /\ conn' = [conn EXCEPT ![C].rready = FALSE, ![C].rtimer = TRUE] /\ Stop /\ UNCHANGED u
    <2>1. PICK d1 \in ConnStates : d1 = [c EXCEPT !.rready = FALSE]
      BY Zenon, <1>2, ConnSet
    <2>2. PICK d \in ConnStates : d = [d1 EXCEPT !.rtimer = TRUE]
      BY Zenon, ConnSet
    <2>3. d = [c EXCEPT !.rready = FALSE, !.rtimer = TRUE]
      BY <2>1, <2>2
    <2>4. conn' = [conn EXCEPT ![v.conn] = d]
      BY Zenon, <1>2, <1>4, <1>7, <1>v, <2>3
    <2>5. at'.f = "rest"
      BY <1>7 DEF Stop, Rest
    <2>6. /\ d.st = c.st /\ d.srv = c.srv /\ d.rsp = c.rsp /\ d.n = c.n /\ d.need = c.need
          /\ d.inq = c.inq /\ d.fin = c.fin /\ d.rready = FALSE
      BY ZenonT(120), <1>2, <2>3 DEF ConnStates
    <2>7. ~v.keepalive
      BY <1>1, <1>3, <1>7
    <2>8. Ready(i, v, d, at')
      BY <2>5, <2>6, <2>7 DEF Ready, Runs
    <2>9. QED
      BY ZenonT(120), <1>1, <1>2, <1>7, <1>v, <2>4, <2>5, <2>6, <2>8, Noted
  <1>8. CASE /\ at.v = "read" => v.length # 0
             /\ v.busy = <<>> /\ c.rready
             /\ u' = [u EXCEPT ![I] = [InputFilter(u[I], Len(conn[C].inq)) EXCEPT !.busy = conn[C].inq]]
             /\ conn' = [conn EXCEPT ![C].inq = <<>>,
                                     ![C].rready = IF conn[C].inq = <<>> THEN FALSE ELSE @,
                                     ![C].eof = conn[C].inq = <<>>]
             /\ Run("direct", I, "write")
    <2>1. PICK new : new = c.inq
      OBVIOUS
    <2>2. PICK e : e = InputFilter(v, Len(new))
      OBVIOUS
    <2>3. new \in Seq(AnswerPieces) /\ Len(new) \in Nat /\ v.length \in Int
      BY <1>2, <2>1 DEF ConnStates, UpstreamStates
    <2>4. /\ e \in UpstreamStates /\ SameFilter(e, v) /\ e.header_sent = v.header_sent
          /\ e.reh = v.reh
          /\ e.length = (IF v.length = -1 THEN -1 ELSE v.length - Len(new))
          /\ e.keepalive => v.keepalive \/ (v.length = Len(new) /\ Len(new) # 0 /\ v.length # -1)
      BY ZenonT(120), <1>2, <2>2, <2>3, Filtered
    <2>5. PICK w \in UpstreamStates : w = [e EXCEPT !.busy = new]
      BY Zenon, <2>3, <2>4, UpstreamSet
    <2>6. u' = [u EXCEPT ![i] = w]
      BY Zenon, <1>4, <1>8, <1>v, <2>1, <2>2, <2>5
    <2>7. PICK eof, r : eof \in BOOLEAN /\ eof = (new = <<>>) /\ r = (IF new = <<>> THEN FALSE ELSE c.rready)
                        /\ r \in BOOLEAN
      BY Zenon, <1>8
    <2>8. PICK d : d = [c EXCEPT !.inq = <<>>, !.rready = r, !.eof = eof]
      OBVIOUS
    <2>9. d \in ConnStates
      <3>a. <<>> \in Seq(AnswerPieces)
        OBVIOUS
      <3>0. PICK nil \in Seq(AnswerPieces) : nil = <<>>
        BY Zenon, <3>a
      <3>1. PICK d1 \in ConnStates : d1 = [c EXCEPT !.inq = nil]
        BY Zenon, <1>2, <3>0, ConnSet
      <3>2. PICK d2 \in ConnStates : d2 = [d1 EXCEPT !.rready = r]
        BY Zenon, <2>7, ConnSet
      <3>3. [d2 EXCEPT !.eof = eof] \in ConnStates
        BY Zenon, <2>7, ConnSet
      <3>4. d = [d2 EXCEPT !.eof = eof]
        BY <2>8, <3>0, <3>1, <3>2
      <3>5. QED
        BY <3>3, <3>4
    <2>10. conn' = [conn EXCEPT ![v.conn] = d]
      <3>1. PICK k : k = v.conn
        OBVIOUS
      <3>2. k \in Conns /\ conn[k] = c /\ C = k
        BY Zenon, <1>2, <1>4, <1>v, <3>1
      <3>3. conn' = [conn EXCEPT ![k].inq = <<>>, ![k].rready = r, ![k].eof = eof]
        BY Zenon, <1>8, <2>1, <2>7, <3>2
      <3>4. conn' = [conn EXCEPT ![k] = [conn[k] EXCEPT !.inq = <<>>, !.rready = r, !.eof = eof]]
        BY Zenon, <3>2, <3>3, <1>2
      <3>5. QED
        BY Zenon, <2>8, <3>1, <3>2, <3>4
    <2>11. /\ d.st = c.st /\ d.srv = c.srv /\ d.rsp = c.rsp /\ d.n = c.n /\ d.need = c.need
           /\ d.inq = <<>> /\ d.fin = c.fin /\ d.rready = r
      BY <1>2, <2>8 DEF ConnStates
    <2>12. v.reh = "direct" /\ Passing(i, v, c, h, at) /\ v.kind.mode = "direct" /\ ~v.down
           /\ ~v.keepalive
      <3>1. v.reh = "direct" /\ Passing(i, v, c, h, at)
        BY <1>2, <1>3, <1>8
      <3>2. v.kind.mode = "direct"
        BY <3>1 DEF Passing
      <3>3. QED
        BY <1>1, <1>2, <1>3, <1>8, <3>1, <3>2 DEF BaseSound
    <2>13. /\ w.st = v.st /\ w.kind = v.kind /\ w.peer = v.peer /\ w.conn = v.conn /\ w.x = v.x
           /\ w.reading = v.reading /\ w.left = v.left /\ w.request_sent = v.request_sent
           /\ w.body_sent = v.body_sent /\ w.header_sent = v.header_sent /\ w.reh = v.reh
           /\ w.head = v.head /\ w.again = v.again /\ w.served = v.served /\ w.down = v.down
           /\ w.wtimer = v.wtimer /\ w.length = e.length /\ w.keepalive = e.keepalive
           /\ w.busy = new
      BY <2>4, <2>5 DEF SameFilter, UpstreamStates
    <2>14. Progress(w, v, d, c, new)
      BY <2>1, <2>4, <2>11, <2>12, <2>13 DEF Progress
    <2>15. at'.f = "direct" /\ at'.i = i /\ at'.v = "write"
      BY <1>8, <1>4 DEF Run
    <2>16. w.keepalive => d.rready
      <3>1. Len(<<>>) = 0
        OBVIOUS
      <3>2. w.keepalive => new # <<>>
        BY <2>4, <2>12, <2>13, <3>1
      <3>3. QED
        BY <1>8, <2>7, <2>11, <3>2
    <2>17. Proceeds(i, w, d, at')
      BY <2>12, <2>13, <2>15, <2>16 DEF Proceeds
    <2>18. PICK s : s = got[i] \o v.busy
      BY Zenon
    <2>19. h \o w.busy = IF w.down THEN s ELSE s \o new
      <3>1. h \o <<>> = h
        BY <1>2
      <3>2. QED
        BY Zenon, <1>8, <1>v, <2>12, <2>13, <2>18, <3>1
    <2>20. got' = [got EXCEPT ![i] = h] /\ UNCHANGED <<conns, cache, exiting>>
      BY <1>1, <1>2, <1>v
    <2>21. (w.kind.mode # "direct" => w.busy = <<>>) /\ u[i].reh # "header"
           /\ at.f \in {"pipe", "memory", "direct"}
      BY <1>1, <1>v, <2>12, <2>13
    <2>22. QED
      BY Zenon, <1>2, <1>i, <1>v, <2>6, <2>9, <2>10, <2>14, <2>17, <2>18, <2>19, <2>20, <2>21, Passed
  <1>9. QED
    BY Zenon, <1>1, <1>4, <1>5, <1>6, <1>7, <1>8, <1>v DEF DirectReads

(* A subrequest in memory takes all there is.                              *)
LEMMA TakenToMemory == ASSUME IInv, BodyInMemory PROVE IInv'
  <1>i. PICK i : i = at.i
    OBVIOUS
  <1>v. PICK v, c, h : v = u[i] /\ c = conn[v.conn] /\ h = got[i]
    OBVIOUS
  <1>1. at.f = "memory" /\ at.i = i /\ UNCHANGED <<conns, cache, exiting>>
    BY <1>i DEF BodyInMemory, At
  <1>2. i \in Requests /\ v.conn # None /\ v.conn \in Conns /\ c \in ConnStates
        /\ v \in UpstreamStates /\ h \in Seq(AnswerPieces)
        /\ u \in [Requests -> UpstreamStates] /\ got \in [Requests -> Seq(AnswerPieces)]
        /\ conn \in [Conns -> ConnStates] /\ c.st # "closed"
        /\ ReqSound(i, v, c, h, at) /\ BaseSound(i, v, h, at) /\ Sending(i, v, c)
        /\ (v.reh # "header" => Passing(i, v, c, h, at))
    BY <1>1, <1>v, Run1 DEF Joined
  <1>3. v.reh = "memory" /\ (c.rready \/ c.rtimedout)
    BY <1>1, <1>2 DEF ReqSound, Runs
  <1>4. Passing(i, v, c, h, at) /\ v.kind.mode = "memory" /\ v.busy = <<>> /\ ~v.down
        /\ (v.keepalive => v.length = 0)
    BY <1>2, <1>3 DEF Passing, BaseSound
  <1>5. C = v.conn /\ I = i
    BY <1>i, <1>v DEF C, I
  <1>6. CASE Run("finalize", I, "504") /\ UNCHANGED <<u, conn, got>>
    <2>1. at'.f = "finalize" /\ at'.i = i /\ at'.v # "0"
      BY <1>5, <1>6 DEF Run
    <2>2. SameRequest(v, v)
      BY DEF SameRequest
    <2>3. Ready(i, v, c, at')
      BY <1>1, <1>2, <1>v, <2>1, <2>2, Ending
    <2>4. QED
      BY <1>1, <1>2, <1>6, <1>v, <2>1, <2>3, Decided
  <1>7. CASE /\ ~c.rtimedout /\ c.inq # <<>>
             /\ u' = [u EXCEPT ![I] = InputFilter(u[I], Len(conn[C].inq))]
             /\ got' = [got EXCEPT ![I] = @ \o conn[C].inq]
             /\ conn' = [conn EXCEPT ![C].inq = <<>>]
             /\ Run("memory", I, "-")
    <2>1. PICK new : new = c.inq
      OBVIOUS
    <2>2. PICK w : w = InputFilter(v, Len(new))
      OBVIOUS
    <2>3. new \in Seq(AnswerPieces) /\ Len(new) \in Nat /\ v.length \in Int
      BY <1>2, <2>1 DEF ConnStates, UpstreamStates
    <2>4. /\ w \in UpstreamStates /\ SameFilter(w, v) /\ w.header_sent = v.header_sent
          /\ w.reh = v.reh /\ w.busy = v.busy
          /\ w.length = (IF v.length = -1 THEN -1 ELSE v.length - Len(new))
          /\ w.keepalive => v.keepalive \/ (v.length = Len(new) /\ Len(new) # 0 /\ v.length # -1)
      BY Zenon, <1>2, <2>2, <2>3, Filtered
    <2>5. u' = [u EXCEPT ![i] = w]
      BY <1>5, <1>7, <1>v, <2>1, <2>2
    <2>a. <<>> \in Seq(AnswerPieces)
      OBVIOUS
    <2>6. PICK nil \in Seq(AnswerPieces) : nil = <<>>
      BY <2>a
    <2>7. PICK d \in ConnStates : d = [c EXCEPT !.inq = nil]
      BY <1>2, <2>6, ConnSet
    <2>8. conn' = [conn EXCEPT ![v.conn] = d]
      BY Zenon, <1>2, <1>5, <1>7, <1>v, <2>6, <2>7
    <2>9. /\ d.st = c.st /\ d.srv = c.srv /\ d.rsp = c.rsp /\ d.n = c.n /\ d.need = c.need
          /\ d.inq = <<>> /\ d.fin = c.fin /\ d.rready = c.rready
      BY <1>2, <2>6, <2>7 DEF ConnStates
    <2>10. Progress(w, v, d, c, new)
      BY <2>1, <2>4, <2>9 DEF Progress, SameFilter
    <2>11. at'.f = "memory" /\ at'.i = i
      BY <1>5, <1>7 DEF Run
    <2>12. d.rready
      BY <1>3, <1>7, <2>9
    <2>13. Proceeds(i, w, d, at')
      BY <1>3, <2>4, <2>11, <2>12 DEF Proceeds
    <2>14. PICK s, g : s = got[i] \o v.busy /\ g = h \o new
      OBVIOUS
    <2>15. g \in Seq(AnswerPieces) /\ s = h /\ g \o <<>> = g
      <3>1. h \o new \in Seq(AnswerPieces) /\ h \o <<>> = h
        BY <1>2, <2>3
      <3>2. s = h \o <<>> /\ g = h \o new
        BY <1>4, <1>v, <2>14
      <3>3. g \in Seq(AnswerPieces) /\ s = h
        BY <3>1, <3>2
      <3>4. g \o <<>> = g
        BY <3>3
      <3>5. QED
        BY <3>3, <3>4
    <2>16. w.kind.mode # "direct" => w.busy = <<>>
      BY <1>4, <2>4
    <2>17. g \o w.busy = IF w.down THEN s ELSE s \o new
      <3>1. ~w.down /\ w.busy = <<>>
        BY <1>4, <2>4 DEF SameFilter
      <3>2. QED
        BY <2>14, <2>15, <3>1
    <2>18. got' = [got EXCEPT ![i] = g]
      BY Zenon, <1>5, <1>7, <1>v, <2>1, <2>14
    <2>19. u[i].reh # "header" /\ UNCHANGED <<conns, cache, exiting>>
           /\ at.f \in {"pipe", "memory", "direct"}
      BY <1>1, <1>3, <1>v
    <2>20. QED
      BY ZenonT(120), <1>2, <1>i, <1>v, <2>4, <2>5, <2>8, <2>10, <2>13, <2>14, <2>15, <2>16, <2>17, <2>18,
         <2>19, Passed
  <1>8. CASE /\ conn' = [conn EXCEPT ![C].eof = TRUE, ![C].rready = FALSE]
             /\ Run("finalize", I, "0") /\ UNCHANGED <<u, got>>
    <2>1. PICK d1 \in ConnStates : d1 = [c EXCEPT !.eof = TRUE]
      BY <1>2, ConnSet
    <2>2. PICK d \in ConnStates : d = [d1 EXCEPT !.rready = FALSE]
      BY ConnSet
    <2>3. d = [c EXCEPT !.eof = TRUE, !.rready = FALSE]
      BY <2>1, <2>2
    <2>4. conn' = [conn EXCEPT ![v.conn] = d]
      BY <1>2, <1>5, <1>8, <1>v, <2>3
    <2>5. at'.f = "finalize" /\ at'.i = i
      BY <1>5, <1>8 DEF Run
    <2>6. /\ d.st = c.st /\ d.srv = c.srv /\ d.rsp = c.rsp /\ d.n = c.n /\ d.need = c.need
          /\ d.inq = c.inq /\ d.fin = c.fin /\ d.rready = FALSE /\ d.eof = TRUE
      BY <1>2, <2>3 DEF ConnStates
    <2>7. Ready(i, v, d, at')
      BY <1>4, <2>5, <2>6 DEF Ready, Runs
    <2>8. UNCHANGED <<u, conns, cache, exiting, got>> /\ at.f # "next"
          /\ (at.f = "rest" \/ at.i = i) /\ (at'.f = "rest" \/ at'.i = i)
      BY <1>1, <1>8, <2>5
    <2>9. d.st # "closed" /\ (c.fin => d.fin) /\ u[i].conn # None /\ i \in Requests
      BY <1>2, <1>v, <2>6
    <2>10. c = conn[u[i].conn] /\ conn' = [conn EXCEPT ![u[i].conn] = d] /\ Ready(i, u[i], d, at')
      BY <1>v, <2>4, <2>7
    <2>11. QED
      BY ZenonT(120), <2>6, <2>8, <2>9, <2>10, Noted
  <1>9. CASE /\ ~c.fin
             /\ conn' = [conn EXCEPT ![C].rready = FALSE, ![C].rtimer = u[I].length # 0]
             /\ IF u[I].length = 0 THEN Run("finalize", I, "0") ELSE Stop
             /\ UNCHANGED <<u, got>>
    <2>1. PICK t \in BOOLEAN : t = (v.length # 0)
      OBVIOUS
    <2>2. PICK d1 \in ConnStates : d1 = [c EXCEPT !.rready = FALSE]
      BY <1>2, ConnSet
    <2>3. PICK d \in ConnStates : d = [d1 EXCEPT !.rtimer = t]
      BY ConnSet
    <2>4. d = [c EXCEPT !.rready = FALSE, !.rtimer = t]
      BY <2>2, <2>3
    <2>5. conn' = [conn EXCEPT ![v.conn] = d]
      <3>1. t = (u[I].length # 0)
        BY <1>5, <1>v, <2>1
      <3>2. conn' = [conn EXCEPT ![C].rready = FALSE, ![C].rtimer = t]
        BY <1>9, <3>1
      <3>3. QED
        BY Zenon, <1>2, <1>5, <1>v, <2>4, <3>2
    <2>6. /\ d.st = c.st /\ d.srv = c.srv /\ d.rsp = c.rsp /\ d.n = c.n /\ d.need = c.need
          /\ d.inq = c.inq /\ d.fin = c.fin /\ d.rready = FALSE
      BY <1>2, <2>4 DEF ConnStates
    <2>7. v.keepalive => (v.left = 0 /\ c.need = 0) \/ ~v.body_sent
      <3>1. PiecesOf(v) # 0
        BY DEF PiecesOf
      <3>2. QED
        BY <1>2, <1>9, <3>1 DEF Sending
    <2>8. CASE v.length = 0
      <3>1. at'.f = "finalize" /\ at'.i = i
        BY <1>5, <1>9, <1>v, <2>8 DEF Run
      <3>2. Ready(i, v, d, at')
        BY <1>4, <2>6, <2>7, <3>1 DEF Ready, Runs
      <3>3. QED
        BY Zenon, <1>1, <1>2, <1>9, <1>v, <2>5, <2>6, <3>1, <3>2, Noted
    <2>9. CASE v.length # 0
      <3>1. at'.f = "rest"
        BY <1>5, <1>9, <1>v, <2>9 DEF Stop, Rest
      <3>2. Ready(i, v, d, at')
        BY <1>4, <2>6, <2>9, <3>1 DEF Ready, Runs
      <3>3. QED
        BY Zenon, <1>1, <1>2, <1>9, <1>v, <2>5, <2>6, <3>1, <3>2, Noted
    <2>10. QED
      BY <2>8, <2>9
  <1>10. QED
    BY Zenon, <1>5, <1>6, <1>7, <1>8, <1>9, <1>v DEF BodyInMemory

-----------------------------------------------------------------------------
(* Where the connections are after a step, after which request i has w and *)
(* every other request has what it had.                                    *)
Places(i, w) ==
  /\ conn' \in [Conns -> ConnStates]
  /\ cache' \in Seq(Conns) /\ Len(cache') <= CacheMax /\ Distinct(cache')
  /\ exiting' \in BOOLEAN /\ (exiting' => cache' = <<>>)
  /\ \A m \in Conns :
       /\ ConnSound(conn'[m])
       /\ conn'[m].srv = conn[m].srv \/ conn'[m].srv = Nobody
       /\ In(cache', m) => IdleSound(conn'[m]) /\ conn'[m].st # "closed"
       /\ conn'[m].st # "closed" =>
            In(cache', m) \/ m = w.conn \/ \E j \in Requests \ {i} : u[j].conn = m
  /\ \A j \in Requests \ {i} :
       u[j].conn # None =>
         conn'[u[j].conn] = conn[u[j].conn] /\ ~In(cache', u[j].conn) /\ u[j].conn # w.conn
  /\ w.conn # None => conn'[w.conn].st # "closed" /\ ~In(cache', w.conn)

\* ... and where the connections of the requests are
Stays(i, w) ==
  /\ \A j \in Requests : u'[j].conn = IF j = i THEN w.conn ELSE u[j].conn
  /\ i \notin Requests => w.conn = None

(* None is no connection and no request.                                   *)
LEMMA Nothing == None \notin Conns /\ None \notin Requests /\ None \notin Peers
  BY UpstreamAssumption DEF None

LEMMA Placed ==
  ASSUME IInv, NEW i, NEW w, w.conn \in Conns \cup {None}, Places(i, w), Stays(i, w)
  PROVE  Holding'
  <1>1. /\ u \in [Requests -> UpstreamStates] /\ cache' \in Seq(Conns)
        /\ \A j \in Requests : u[j].conn \in Conns \cup {None}
    BY DEF IInv, Types, UpstreamStates, Places
  <1>2. \A x : In(cache', x) => x \in Conns
    BY <1>1 DEF In
  <1>3. \A j \in Requests : u'[j].conn \in Conns \cup {None}
    BY <1>1 DEF Stays
  <1>4. ASSUME NEW a \in Requests, NEW b \in Requests, u'[a].conn # None, u'[a].conn = u'[b].conn
        PROVE  a = b
    <2>1. CASE a # i /\ b # i
      BY <1>4, <2>1 DEF Stays, IInv, Holding
    <2>2. CASE a = i /\ b # i
      BY <1>4, <2>2 DEF Stays, Places
    <2>3. CASE b = i /\ a # i
      BY <1>4, <2>3 DEF Stays, Places
    <2>4. QED
      BY <2>1, <2>2, <2>3
  <1>5. ASSUME NEW j \in Requests, In(cache', u'[j].conn) PROVE FALSE
    <2>1. u'[j].conn # None
      BY <1>2, <1>5, Nothing
    <2>2. CASE j = i
      BY <1>5, <2>1, <2>2 DEF Stays, Places
    <2>3. CASE j # i
      BY <1>5, <2>1, <2>3 DEF Stays, Places
    <2>4. QED
      BY <2>2, <2>3
  <1>6. ASSUME NEW k \in Conns
        PROVE  conn'[k].st = "closed" <=> (\A j \in Requests : u'[j].conn # k) /\ ~In(cache', k)
    <2>1. ASSUME conn'[k].st = "closed", NEW j \in Requests, u'[j].conn = k PROVE FALSE
      <3>1. k # None
        BY Nothing
      <3>2. CASE j = i
        BY <2>1, <3>1, <3>2 DEF Stays, Places
      <3>3. CASE j # i
        <4>1. conn'[k] = conn[k] /\ u[j].conn = k
          BY <2>1, <3>1, <3>3 DEF Stays, Places
        <4>2. conn[k].st # "closed"
          BY <4>1 DEF IInv, Holding
        <4>3. QED
          BY <2>1, <4>1, <4>2
      <3>4. QED
        BY <3>2, <3>3
    <2>2. ASSUME conn'[k].st = "closed", In(cache', k) PROVE FALSE
      BY <2>2 DEF Places
    <2>3. ASSUME conn'[k].st # "closed", \A j \in Requests : u'[j].conn # k, ~In(cache', k)
          PROVE  FALSE
      <3>1. CASE k = w.conn
        <4>1. i \notin Requests
          BY <2>3, <3>1 DEF Stays
        <4>2. QED
          BY <3>1, <4>1, Nothing DEF Stays
      <3>2. CASE \E j \in Requests \ {i} : u[j].conn = k
        BY <2>3, <3>2 DEF Stays
      <3>3. QED
        BY <2>3, <3>1, <3>2 DEF Places
    <2>4. QED
      BY <2>1, <2>2, <2>3
  <1>7. Distinct(cache') /\ (exiting' => cache' = <<>>)
    BY DEF Places
  <1>8. QED
    BY <1>4, <1>5, <1>6, <1>7 DEF Holding, Distinct

(* What a server is sent belongs to a request that was started.            *)
LEMMA Served ==
  ASSUME IInv, NEW i, NEW w, Places(i, w),
         \A j \in Requests :
           \/ u'[j].st = u[j].st /\ u'[j].x = u[j].x
           \/ u[j].st = "new" /\ u'[j].st # "done"
           \/ u'[j].st # "new" /\ (u'[j].st = "running" => u[j].st = "running" /\ u[j].x <= u'[j].x)
              /\ u'[j].x \in Nat
  PROVE  ConnsSound'
  <1>1. \A m \in Conns : ConnSound(conn'[m])
    BY DEF Places
  <1>2. \A m \in Conns : In(cache', m) => IdleSound(conn'[m])
    BY DEF Places
  <1>3. ASSUME NEW m \in Conns, NEW j \in Requests, conn'[m].srv.to = j
        PROVE  u'[j].st # "new" /\ (u'[j].st = "running" => conn'[m].srv.x <= u'[j].x)
    <2>1. conn'[m].srv = conn[m].srv \/ conn'[m].srv = Nobody
      BY DEF Places
    <2>2. conn'[m].srv # Nobody
      <3>1. 0 \notin Requests
        BY Nothing DEF None
      <3>2. QED
        BY <1>3, <3>1 DEF Nobody
    <2>3. conn[m].srv.to = j
      BY <1>3, <2>1, <2>2
    <2>4. u[j].st # "new" /\ (u[j].st = "running" => conn[m].srv.x <= u[j].x)
      BY <2>3 DEF IInv, ConnsSound
    <2>5. conn[m] \in ConnStates /\ u[j] \in UpstreamStates
      BY DEF IInv, Types
    <2>6. conn[m].srv.x \in Nat /\ u[j].x \in Nat
      BY Zenon, <2>5 DEF ConnStates, Exchanges, UpstreamStates
    <2>7. PICK a, b, c : a = conn[m].srv.x /\ b = u[j].x /\ c = u'[j].x
      OBVIOUS
    <2>8. CASE u'[j].st = u[j].st /\ u'[j].x = u[j].x
      BY <2>1, <2>2, <2>4, <2>8
    <2>9. CASE u'[j].st # "new" /\ (u'[j].st = "running" => u[j].st = "running" /\ u[j].x <= u'[j].x)
               /\ u'[j].x \in Nat
      <3>1. u'[j].st = "running" => a <= b /\ b <= c /\ a \in Nat /\ b \in Nat /\ c \in Nat
        BY <2>4, <2>6, <2>7, <2>9
      <3>2. u'[j].st = "running" => a <= c
        BY <3>1
      <3>3. QED
        BY Zenon, <2>1, <2>2, <2>7, <2>9, <3>2
    <2>10. QED
      BY <2>4, <2>8, <2>9
  <1>4. QED
    BY <1>1, <1>2, <1>3 DEF ConnsSound

(* A step of request i that may leave it another connection.               *)
Placeable(i, w, a) ==
  /\ w.st # "running" => w.conn = None /\ w.peer = None /\ a.f = "rest"
  /\ w.st # "new" /\ u[i].st # "done"
  /\ w.st = "running" =>
       /\ u[i].st = "new" \/ (u[i].st = "running" /\ u[i].x <= w.x)
       /\ w.conn = None => a.f \in {"connect", "next", "finalize"}
  /\ w.conn # None => w.peer # None
  /\ a.f = "connect" => w.conn = None /\ w.peer = None
  /\ a.f = "next" => w.peer # None \/ a.v # "ERROR"

LEMMA Rehandled ==
  ASSUME IInv, NEW i \in Requests, at.f = "rest" \/ at.i = i, at'.f = "rest" \/ at'.i = i,
         NEW w \in UpstreamStates, NEW g \in Seq(AnswerPieces),
         u' = [u EXCEPT ![i] = w], got' = [got EXCEPT ![i] = g],
         Places(i, w), Placeable(i, w, at'), ConnsExact', conns' \in [Peers -> Int],
         BaseSound(i, w, g, at'),
         w.conn # None => ReqSound(i, w, conn'[w.conn], g, at')
  PROVE  IInv'
  <1>1. /\ u \in [Requests -> UpstreamStates] /\ got \in [Requests -> Seq(AnswerPieces)]
        /\ w.conn \in Conns \cup {None}
    BY Zenon DEF IInv, Types, UpstreamStates
  <1>2. u'[i] = w /\ got'[i] = g /\ \A j \in Requests \ {i} : u'[j] = u[j] /\ got'[j] = got[j]
    BY <1>1
  <1>3. Stays(i, w)
    BY <1>2 DEF Stays
  <1>4. Holding'
    BY Zenon, <1>1, <1>3, Placed
  <1>5. ConnsSound'
    <2>1. w.x \in Nat
      BY Zenon DEF UpstreamStates
    <2>2. \A j \in Requests :
           \/ u'[j].st = u[j].st /\ u'[j].x = u[j].x
           \/ u[j].st = "new" /\ u'[j].st # "done"
           \/ u'[j].st # "new" /\ (u'[j].st = "running" => u[j].st = "running" /\ u[j].x <= u'[j].x)
              /\ u'[j].x \in Nat
      BY Zenon, <1>2, <2>1 DEF Placeable
    <2>3. QED
      BY Zenon, <2>2, Served
  <1>6. Types'
    <2>1. u' \in [Requests -> UpstreamStates] /\ got' \in [Requests -> Seq(AnswerPieces)]
      BY Zenon, <1>1
    <2>2. QED
      BY <2>1 DEF Types, Places
  <1>7. Control'
    <2>1. at'.f # "rest" => at'.i \in Requests /\ u'[at'.i].st = "running"
      BY <1>2 DEF Placeable
    <2>2. /\ at'.f = "connect" => u'[at'.i].conn = None /\ u'[at'.i].peer = None
          /\ at'.f = "next" => u'[at'.i].peer # None \/ at'.v # "ERROR"
      BY <1>2 DEF Placeable
    <2>3. ASSUME NEW j \in Requests
          PROVE  /\ u'[j].st # "running" => u'[j].conn = None /\ u'[j].peer = None
                 /\ u'[j].conn # None => u'[j].peer # None
                 /\ u'[j].st = "running" /\ u'[j].conn = None
                      => at'.i = j /\ at'.f \in {"connect", "next", "finalize"}
                 /\ u'[j].st = "new" => u'[j].served = {}
      <3>1. CASE j = i
        BY <1>2, <3>1 DEF Placeable
      <3>2. CASE j # i
        BY <1>2, <3>2 DEF IInv, Control
      <3>3. QED
        BY Zenon, <3>1, <3>2
    <2>4. QED
      BY Zenon, <2>1, <2>2, <2>3 DEF Control
  <1>8. Exchange'
    <2>1. ASSUME NEW j \in Requests
          PROVE  /\ BaseSound(j, u'[j], got'[j], at')
                 /\ u'[j].conn # None => ReqSound(j, u'[j], conn'[u'[j].conn], got'[j], at')
      <3>1. CASE j = i
        BY Zenon, <1>2, <3>1
      <3>2. CASE j # i
        <4>1. /\ BaseSound(j, u[j], got[j], at)
              /\ u[j].conn # None => ReqSound(j, u[j], conn[u[j].conn], got[j], at)
          BY DEF IInv, Exchange
        <4>2. (at.f = "rest" \/ at.i # j) /\ (at'.f = "rest" \/ at'.i # j)
          BY <3>2
        <4>3. /\ BaseSound(j, u[j], got[j], at')
              /\ u[j].conn # None => ReqSound(j, u[j], conn[u[j].conn], got[j], at')
          BY Zenon, <4>1, <4>2, Beside
        <4>4. u[j].conn # None => conn'[u[j].conn] = conn[u[j].conn]
          BY Zenon, <3>2 DEF Places
        <4>5. u'[j] = u[j] /\ got'[j] = got[j]
          BY Zenon, <1>2, <3>2
        <4>6. QED
          BY <4>3, <4>4, <4>5
      <3>3. QED
        BY <3>1, <3>2
    <2>2. QED
      BY <2>1 DEF Exchange
  <1>9. QED
    BY <1>4, <1>5, <1>6, <1>7, <1>8 DEF IInv

(* A step about the connections that no request holds.                     *)
Somebody == [conn |-> None]

LEMMA Idled ==
  ASSUME IInv, UNCHANGED <<u, conns, got>>, at' = at \/ (at.f = "rest" /\ at'.f = "rest"),
         Places(None, Somebody)
  PROVE  IInv'
  <1>1. Stays(None, Somebody)
    <2>1. \A j \in Requests : j # None
      BY Nothing
    <2>2. QED
      BY <2>1 DEF Stays, Somebody
  <1>2. Somebody.conn \in Conns \cup {None}
    BY DEF Somebody
  <1>3. Holding'
    BY <1>1, <1>2, Placed
  <1>4. \A j \in Requests : u'[j].st = u[j].st /\ u'[j].x = u[j].x
    OBVIOUS
  <1>5. ConnsSound'
    BY <1>4, Served
  <1>6. Types'
    BY DEF IInv, Types, Places
  <1>7. Control'
    BY DEF IInv, Control
  <1>8. ConnsExact'
    BY DEF IInv, ConnsExact
  <1>9. Exchange'
    <2>1. ASSUME NEW j \in Requests
          PROVE  /\ BaseSound(j, u'[j], got'[j], at')
                 /\ u'[j].conn # None => ReqSound(j, u'[j], conn'[u'[j].conn], got'[j], at')
      <3>1. /\ BaseSound(j, u[j], got[j], at)
            /\ u[j].conn # None => ReqSound(j, u[j], conn[u[j].conn], got[j], at)
        BY DEF IInv, Exchange
      <3>2. /\ BaseSound(j, u[j], got[j], at')
            /\ u[j].conn # None => ReqSound(j, u[j], conn[u[j].conn], got[j], at')
        BY <3>1, Beside
      <3>3. u[j].conn # None => conn'[u[j].conn] = conn[u[j].conn]
        BY Nothing DEF Places
      <3>4. QED
        BY <3>2, <3>3
    <2>2. QED
      BY <2>1 DEF Exchange
  <1>10. QED
    BY <1>3, <1>5, <1>6, <1>7, <1>8, <1>9 DEF IInv

-----------------------------------------------------------------------------
(* The counters of the peers.                                              *)
Counted(p, q) ==
  \/ p = q /\ conns' = conns
  \/ p = None /\ q \in Peers /\ conns' = Taken(q)
  \/ p \in Peers /\ q = None /\ \E failed \in BOOLEAN : conns' = Freed(p, failed)

LEMMA CountKept ==
  ASSUME IInv, NEW i \in Requests, NEW w, u' = [u EXCEPT ![i] = w], Counted(u[i].peer, w.peer)
  PROVE  ConnsExact' /\ conns' \in [Peers -> Int]
  <1> DEFINE H(p) == {j \in Requests : u[j].peer = p}
             G(p) == {j \in Requests : u'[j].peer = p}
  <1>1. /\ u \in [Requests -> UpstreamStates] /\ conns \in [Peers -> Int]
        /\ IsFiniteSet(Requests) /\ \A p \in Peers : conns[p] = Cardinality(H(p))
    BY UpstreamAssumption DEF IInv, Types, ConnsExact
  <1>2. u'[i] = w /\ \A j \in Requests \ {i} : u'[j] = u[j]
    BY <1>1
  <1>3. \A p : IsFiniteSet(H(p))
    BY <1>1, FS_Subset
  <1>4. CASE u[i].peer = w.peer /\ conns' = conns
    <2>1. \A p : G(p) = H(p)
      BY <1>2, <1>4
    <2>2. QED
      BY <1>1, <1>4, <2>1 DEF ConnsExact
  <1>5. CASE u[i].peer = None /\ w.peer \in Peers /\ conns' = Taken(w.peer)
    <2>1. \A p : p # w.peer /\ p # None => G(p) = H(p)
      BY <1>2, <1>5
    <2>2. G(w.peer) = H(w.peer) \cup {i} /\ i \notin H(w.peer)
      BY <1>2, <1>5, Nothing
    <2>3. Cardinality(G(w.peer)) = Cardinality(H(w.peer)) + 1
      BY Zenon, <1>3, <2>2, Joins
    <2>4. conns' \in [Peers -> Int] /\ conns'[w.peer] = conns[w.peer] + 1
          /\ \A p \in Peers \ {w.peer} : conns'[p] = conns[p]
      BY <1>1, <1>5 DEF Taken
    <2>5. ASSUME NEW p \in Peers PROVE conns'[p] = Cardinality(G(p))
      BY SMTT(60), <1>1, <2>1, <2>3, <2>4, Nothing
    <2>6. QED
      BY <2>4, <2>5 DEF ConnsExact
  <1>6. CASE u[i].peer \in Peers /\ w.peer = None
             /\ \E failed \in BOOLEAN : conns' = Freed(u[i].peer, failed)
    <2>q. PICK q : q = u[i].peer
      OBVIOUS
    <2>1. \A p : p # q /\ p # None => G(p) = H(p)
      BY <1>2, <1>6, <2>q
    <2>2. G(q) = H(q) \ {i} /\ i \in H(q)
      BY <1>2, <1>6, <2>q, Nothing
    <2>3. Cardinality(G(q)) = Cardinality(H(q)) - 1
      BY Zenon, <1>3, <2>2, Leaves
    <2>4. conns' \in [Peers -> Int] /\ conns'[q] = conns[q] - 1
          /\ \A p \in Peers \ {q} : conns'[p] = conns[p]
      BY <1>1, <1>6, <2>q DEF Freed
    <2>5. ASSUME NEW p \in Peers PROVE conns'[p] = Cardinality(G(p))
      BY ZenonT(120), <1>1, <2>1, <2>3, <2>4, Nothing
    <2>6. QED
      BY <2>4, <2>5 DEF ConnsExact
  <1>7. QED
    BY <1>4, <1>5, <1>6 DEF Counted

-----------------------------------------------------------------------------
(* A connection k is given back: it is kept in the cache or closed, and the *)
(* connections "out" leave the cache.                                       *)
GivenBack(k, kept, out) ==
  /\ \A x \in out : In(cache, x)
  /\ cache' \in Seq(Conns) /\ Len(cache') <= CacheMax /\ Distinct(cache')
  /\ \A x : In(cache', x) <=> (In(cache, x) /\ x \notin out) \/ (x = k /\ kept)
  /\ conn' \in [Conns -> ConnStates]
  /\ \A m \in Conns \ {k} : conn'[m] = IF m \in out THEN Unused ELSE conn[m]
  /\ ~kept => conn'[k] = Unused
  /\ kept => /\ ~exiting
             /\ IdleSound(conn'[k]) /\ ConnSound(conn'[k]) /\ conn'[k].st # "closed"
             /\ conn'[k].srv = conn[k].srv

LEMMA BackPlaces ==
  ASSUME IInv, NEW i \in Requests, u[i].conn # None, NEW kept \in BOOLEAN, NEW out,
         GivenBack(u[i].conn, kept, out), exiting' = exiting, NEW w, w.conn = None
  PROVE  Places(i, w)
  <1>k. PICK k : k = u[i].conn
    OBVIOUS
  <1>1. /\ k \in Conns /\ ~In(cache, k) /\ conn \in [Conns -> ConnStates] /\ exiting \in BOOLEAN
        /\ cache \in Seq(Conns)
    BY <1>k DEF IInv, Types, UpstreamStates, Holding
  <1>2. exiting => cache' = <<>>
    <2> SUFFICES ASSUME exiting PROVE cache' = <<>>
      OBVIOUS
    <2>1. cache = <<>>
      BY DEF IInv, Holding
    <2>2. \A x : ~In(cache, x)
      BY <2>1 DEF In
    <2>3. \A x : ~In(cache', x)
      BY <2>2 DEF GivenBack
    <2>4. cache' \in Seq(Conns)
      BY DEF GivenBack
    <2>s. PICK s \in Seq(Conns) : s = cache'
      BY <2>4
    <2>5. ASSUME s # <<>> PROVE FALSE
      <3>1. 1 \in 1..Len(s)
        BY <2>5
      <3>2. In(s, s[1])
        BY <3>1 DEF In
      <3>3. QED
        BY <3>2, <2>3, <2>s
    <2>6. QED
      BY <2>5, <2>s
  <1>3. Unused.st = "closed" /\ Unused.srv = Nobody /\ ConnSound(Unused)
    BY UnusedType DEF Unused
  <1>4. ASSUME NEW m \in Conns
        PROVE  /\ ConnSound(conn'[m])
               /\ conn'[m].srv = conn[m].srv \/ conn'[m].srv = Nobody
               /\ In(cache', m) => IdleSound(conn'[m]) /\ conn'[m].st # "closed"
               /\ conn'[m].st # "closed" =>
                    In(cache', m) \/ m = w.conn \/ \E j \in Requests \ {i} : u[j].conn = m
    <2>1. /\ ConnSound(conn[m]) /\ (In(cache, m) => IdleSound(conn[m]) /\ conn[m].st # "closed")
          /\ conn[m].st # "closed" => In(cache, m) \/ \E j \in Requests : u[j].conn = m
      BY DEF IInv, ConnsSound, Holding
    <2>2. CASE m = k
      BY <1>1, <1>3, <1>k, <2>2 DEF GivenBack
    <2>3. CASE m # k /\ m \in out
      BY <1>1, <1>3, <1>k, <2>3 DEF GivenBack
    <2>4. CASE m # k /\ m \notin out
      <3>1. conn'[m] = conn[m] /\ (In(cache', m) <=> In(cache, m))
        BY <1>1, <1>k, <2>4 DEF GivenBack
      <3>2. QED
        BY <1>k, <2>1, <2>4, <3>1
    <2>5. QED
      BY <2>2, <2>3, <2>4
  <1>5. ASSUME NEW j \in Requests \ {i}, u[j].conn # None
        PROVE  conn'[u[j].conn] = conn[u[j].conn] /\ ~In(cache', u[j].conn) /\ u[j].conn # w.conn
    <2>1. u[j].conn # k /\ ~In(cache, u[j].conn) /\ u[j].conn \in Conns
      BY <1>5, <1>k DEF IInv, Holding, Types, UpstreamStates
    <2>2. u[j].conn \notin out
      BY <2>1 DEF GivenBack
    <2>3. QED
      BY <1>5, <1>k, <2>1, <2>2 DEF GivenBack
  <1>6. /\ conn' \in [Conns -> ConnStates] /\ cache' \in Seq(Conns) /\ Len(cache') <= CacheMax
        /\ Distinct(cache')
    BY DEF GivenBack
  <1>7. QED
    BY <1>1, <1>2, <1>4, <1>5, <1>6 DEF Places

(* The connection is closed.                                               *)
LEMMA ClosedBack ==
  ASSUME IInv, NEW i \in Requests, u[i].conn # None, conn' = Closed(conn, u[i].conn),
         cache' = cache
  PROVE  GivenBack(u[i].conn, FALSE, {})
  <1>1. /\ u[i].conn \in Conns /\ conn \in [Conns -> ConnStates] /\ cache \in Seq(Conns)
        /\ Len(cache) <= CacheMax /\ Distinct(cache)
    BY DEF IInv, Types, UpstreamStates, Holding
  <1>2. Unused \in ConnStates
    BY UnusedType
  <1>3. /\ conn' \in [Conns -> ConnStates] /\ conn'[u[i].conn] = Unused
        /\ \A m \in Conns \ {u[i].conn} : conn'[m] = conn[m]
    BY <1>1, <1>2 DEF Closed
  <1>4. \A x : In(cache', x) <=> In(cache, x)
    BY DEF In
  <1>5. QED
    BY <1>1, <1>3, <1>4 DEF GivenBack

(* What may be kept is between two requests, or its server said more.      *)
LEMMA KeepableIdle ==
  ASSUME IInv, NEW i \in Requests, at.f = "finalize", at.i = i, Keepable(i, FALSE),
         NEW c, c = conn[u[i].conn]
  PROVE  /\ u[i].conn # None /\ ~exiting /\ Quiet(c) /\ c.rsp # <<>>
         /\ ~c.rtimedout /\ ~c.wtimedout
         /\ c.need = 0 \/ (c.rready /\ c.fin)
  <1>v. PICK v, g : v = u[i] /\ g = got[i]
    OBVIOUS
  <1>1. /\ v.conn # None /\ ~exiting /\ ~c.eof /\ ~c.rtimedout /\ ~c.wtimedout
        /\ v.keepalive /\ v.body_sent
    BY <1>v DEF Keepable
  <1>2. /\ v \in UpstreamStates /\ c \in ConnStates /\ ConnSound(c) /\ ReqSound(i, v, c, g, at)
    BY <1>1, <1>v, Joint DEF Joined
  <1>3. Passing(i, v, c, g, at) /\ Sending(i, v, c)
    BY <1>1, <1>2 DEF ReqSound, Runs
  <1>4. Headed(i, v, c) /\ c.rsp[1].framed /\ v.length = 0 /\ v.length = 1 + c.rsp[1].body - ReadOf(c)
        /\ (c.rready \/ (v.left = 0 /\ c.need = 0))
    BY Zenon, <1>1, <1>3 DEF Passing
  <1>5. c.rsp # <<>>
    BY Zenon, <1>4 DEF Headed
  <1>6. c.n \in Nat /\ c.inq \in Seq(AnswerPieces) /\ c.rsp[1].body \in Nat
        /\ c.n <= 1 + c.rsp[1].body
    <2>1. c.rsp = <<c.rsp[1]>> /\ c.n \in 1..(1 + c.rsp[1].body)
      BY Zenon, <1>2, <1>5 DEF ConnSound
    <2>2. c.rsp[1] \in Answers
      <3>1. c.rsp \in Seq(Answers)
        BY Zenon, <1>2 DEF ConnStates
      <3>2. QED
        BY <3>1, <2>1
    <2>3. c.rsp[1].body \in Nat
      BY Zenon, <2>2, UpstreamAssumption
    <2>4. c.n \in Nat /\ c.inq \in Seq(AnswerPieces)
      BY <1>2 DEF ConnStates
    <2>5. QED
      BY <2>1, <2>3, <2>4
  <1>7. PICK N, B, Q : N = c.n /\ B = c.rsp[1].body /\ Q = Len(c.inq)
    BY Zenon
  <1>8. N \in Nat /\ B \in Nat /\ Q \in Nat /\ N <= 1 + B /\ 0 = 1 + B - (N - Q)
    BY SMTT(60), <1>4, <1>6, <1>7 DEF ReadOf
  <1>9. Q = 0 /\ N = 1 + B
    BY <1>8
  <1>10. Quiet(c)
    <2>q. PICK q \in Seq(AnswerPieces) : q = c.inq
      BY Zenon, <1>6
    <2>a. Len(q) = 0
      BY Zenon, <2>q, <1>7, <1>9
    <2>b. q = <<>>
      BY <2>a
    <2>1. c.inq = <<>>
      BY <2>b, <2>q
    <2>2. QED
      BY Zenon, <1>5, <1>7, <1>9, <2>1 DEF Quiet
  <1>11. c.need = 0 \/ (c.rready /\ c.fin)
    <2>1. CASE c.fin
      BY <1>4, <2>1
    <2>2. CASE ~c.fin
      <3>1. v.left = 0 /\ PiecesOf(v) # 0
        BY <1>1, <1>3 DEF Sending, PiecesOf
      <3>2. QED
        BY <1>3, <2>2, <3>1 DEF Sending
    <2>3. QED
      BY <2>1, <2>2
  <1>12. QED
    BY <1>1, <1>5, <1>10, <1>11, <1>v

(* ngx_http_upstream_free_keepalive_peer() keeps it, and the last one may  *)
(* have to leave.                                                          *)
Evicts(front, out) ==
  /\ front = IF Len(cache) = CacheMax THEN SubSeq(cache, 1, Len(cache) - 1) ELSE cache
  /\ out = IF Len(cache) = CacheMax THEN {cache[Len(cache)]} ELSE {}

LEMMA Evicting ==
  ASSUME IInv, NEW front, NEW out, Evicts(front, out)
  PROVE  /\ front \in Seq(Conns) /\ Len(front) + 1 <= CacheMax /\ Distinct(front)
         /\ \A x : In(front, x) <=> In(cache, x) /\ x \notin out
         /\ \A x \in out : In(cache, x) /\ x \in Conns
  <1>1. /\ cache \in Seq(Conns) /\ Len(cache) <= CacheMax /\ Distinct(cache) /\ CacheMax \in Nat \ {0}
        /\ Len(cache) \in Nat
    BY UpstreamAssumption DEF IInv, Types, Holding
  <1>2. CASE Len(cache) = CacheMax
    <2>1. front = SubSeq(cache, 1, Len(cache) - 1) /\ out = {cache[Len(cache)]}
      BY <1>2 DEF Evicts
    <2>2. Len(cache) > 0
      BY <1>1, <1>2
    <2>3. /\ front \in Seq(Conns) /\ Len(front) = Len(cache) - 1 /\ Distinct(front)
          /\ \A x : In(front, x) <=> In(cache, x) /\ x # cache[Len(cache)]
      BY <1>1, <2>1, <2>2, FrontDistinct
    <2>4. Len(cache) \in 1..Len(cache)
      BY <1>1, <2>2
    <2>5. In(cache, cache[Len(cache)]) /\ cache[Len(cache)] \in Conns
      BY <1>1, <2>4 DEF In
    <2>6. QED
      BY <1>1, <1>2, <2>1, <2>3, <2>5
  <1>3. CASE Len(cache) # CacheMax
    <2>1. front = cache /\ out = {}
      BY <1>3 DEF Evicts
    <2>2. QED
      BY <1>1, <1>3, <2>1
  <1>4. QED
    BY <1>2, <1>3

Keeps(k, front, out, ca, base, cs) ==
  /\ Evicts(front, out) /\ ca = <<k>> \o front
  /\ base = (IF Len(cache) = CacheMax THEN Closed(conn, cache[Len(cache)]) ELSE conn)
  /\ cs = [base EXCEPT ![k].rtimer = FALSE, ![k].wtimer = FALSE]

LEMMA KeptIs ==
  ASSUME NEW k, NEW front, NEW out, NEW ca, NEW base, NEW cs, Keeps(k, front, out, ca, base, cs)
  PROVE  Kept(k) = IF conn[k].rready THEN CloseHandler(cs, ca, k) ELSE [conn |-> cs, cache |-> ca]
  BY DEF Keeps, Kept, Evicts

LEMMA KeptBack ==
  ASSUME IInv, NEW i \in Requests, at.f = "finalize", at.i = i, Keepable(i, FALSE),
         conn' = Kept(u[i].conn).conn, cache' = Kept(u[i].conn).cache
  PROVE  \E out : \E kept \in BOOLEAN : GivenBack(u[i].conn, kept, out)
  <1>k. PICK k, c : k = u[i].conn /\ c = conn[k]
    OBVIOUS
  <1>1. /\ k # None /\ ~exiting /\ Quiet(c) /\ c.rsp # <<>> /\ ~c.rtimedout /\ ~c.wtimedout
        /\ c.need = 0 \/ (c.rready /\ c.fin)
    BY Zenon, <1>k, KeepableIdle
  <1>2. /\ k \in Conns /\ ~In(cache, k) /\ conn \in [Conns -> ConnStates] /\ c \in ConnStates
        /\ ConnSound(c) /\ c.st # "closed"
    BY <1>1, <1>k, Joint DEF Joined, IInv, Holding
  <1>f. PICK front, out : Evicts(front, out)
    BY Zenon DEF Evicts
  <1>3. /\ front \in Seq(Conns) /\ Len(front) + 1 <= CacheMax /\ Distinct(front)
        /\ \A x : In(front, x) <=> In(cache, x) /\ x \notin out
        /\ \A x \in out : In(cache, x) /\ x \in Conns
    BY <1>f, Evicting
  <1>a. PICK ca : ca = <<k>> \o front
    OBVIOUS
  <1>4. /\ ca \in Seq(Conns) /\ Len(ca) = Len(front) + 1 /\ Distinct(ca)
        /\ \A x : In(ca, x) <=> x = k \/ In(front, x)
    BY <1>2, <1>3, <1>a, PutInFront
  <1>5. Len(ca) <= CacheMax /\ \A x : In(ca, x) <=> x = k \/ (In(cache, x) /\ x \notin out)
    BY <1>3, <1>4
  <1>b. PICK base : base = (IF Len(cache) = CacheMax THEN Closed(conn, cache[Len(cache)]) ELSE conn)
    OBVIOUS
  <1>c. PICK cs : cs = [base EXCEPT ![k].rtimer = FALSE, ![k].wtimer = FALSE]
    BY Zenon
  <1>6. /\ base \in [Conns -> ConnStates] /\ base[k] = c
        /\ \A m \in Conns : base[m] = IF m \in out THEN Unused ELSE conn[m]
    <2>1. k \notin out
      BY <1>2, <1>3
    <2>2. CASE Len(cache) = CacheMax
      <3>1. PICK e : e = cache[Len(cache)]
        OBVIOUS
      <3>2. out = {e} /\ base = [conn EXCEPT ![e] = Unused] /\ e \in Conns
        BY <1>3, <1>b, <1>f, <2>2, <3>1 DEF Evicts, Closed
      <3>3. Unused \in ConnStates
        BY UnusedType
      <3>4. /\ base \in [Conns -> ConnStates]
            /\ \A m \in Conns : base[m] = IF m = e THEN Unused ELSE conn[m]
        BY <1>2, <3>2, <3>3
      <3>5. QED
        BY <1>2, <1>k, <2>1, <3>2, <3>4
    <2>3. CASE Len(cache) # CacheMax
      BY <1>2, <1>b, <1>f, <1>k, <2>1, <2>3 DEF Evicts
    <2>4. QED
      BY <2>2, <2>3
  <1>d. PICK d : d = [c EXCEPT !.rtimer = FALSE, !.wtimer = FALSE]
    OBVIOUS
  <1>7. /\ d \in ConnStates /\ d.st = c.st /\ d.srv = c.srv /\ d.rsp = c.rsp /\ d.n = c.n
        /\ d.inq = c.inq /\ d.need = c.need /\ d.rready = c.rready /\ d.fin = c.fin
        /\ d.rtimedout = c.rtimedout /\ d.wtimedout = c.wtimedout /\ ~d.rtimer /\ ~d.wtimer
    <2>1. PICK d1 \in ConnStates : d1 = [c EXCEPT !.rtimer = FALSE]
      BY <1>2, ConnSet
    <2>2. [d1 EXCEPT !.wtimer = FALSE] \in ConnStates
      BY ConnSet
    <2>3. d = [d1 EXCEPT !.wtimer = FALSE]
      BY <1>d, <2>1
    <2>4. d \in ConnStates
      BY <2>2, <2>3
    <2>5. QED
      BY <1>2, <1>d, <2>4 DEF ConnStates
  <1>8. cs = [base EXCEPT ![k] = d]
    BY <1>2, <1>6, <1>c, <1>d
  <1>9. cs[k] = d /\ cs \in [Conns -> ConnStates] /\ \A m \in Conns \ {k} : cs[m] = base[m]
    BY <1>2, <1>6, <1>7, <1>8
  <1>10. /\ conn' = (IF c.rready THEN CloseHandler(cs, ca, k).conn ELSE cs)
         /\ cache' = (IF c.rready THEN CloseHandler(cs, ca, k).cache ELSE ca)
    <2>1. Kept(k) = IF conn[k].rready THEN CloseHandler(cs, ca, k) ELSE [conn |-> cs, cache |-> ca]
      <3>1. Keeps(k, front, out, ca, base, cs)
        BY Zenon, <1>a, <1>b, <1>c, <1>f DEF Keeps
      <3>2. QED
        BY Zenon, <3>1, KeptIs
    <2>2. CASE c.rready
      BY <1>k, <2>1, <2>2
    <2>3. CASE ~c.rready
      BY <1>k, <2>1, <2>3
    <2>4. QED
      BY <2>2, <2>3
  <1>11. CASE c.rready /\ ~(d.inq = <<>> /\ ~d.fin)
    <2>1. conn' = Closed(cs, k) /\ cache' = Without(ca, k)
      BY <1>9, <1>10, <1>11 DEF CloseHandler
    <2>2. In(ca, k)
      BY <1>4
    <2>3. /\ cache' \in Seq(Conns) /\ Len(cache') = Len(ca) - 1 /\ Distinct(cache')
          /\ \A x : In(cache', x) <=> In(ca, x) /\ x # k
      BY <1>4, <2>1, <2>2, TakenOut
    <2>4. Len(cache') <= CacheMax
      <3>1. Len(front) \in Nat /\ CacheMax \in Nat
        BY <1>3, UpstreamAssumption
      <3>2. Len(cache') = Len(front)
        BY <1>4, <2>3, <3>1
      <3>3. QED
        BY <1>3, <3>1, <3>2
    <2>5. \A x : In(cache', x) <=> (In(cache, x) /\ x \notin out)
      BY <1>2, <1>5, <2>3
    <2>6. Unused \in ConnStates
      BY UnusedType
    <2>7. /\ conn' \in [Conns -> ConnStates] /\ conn'[k] = Unused
          /\ \A m \in Conns \ {k} : conn'[m] = IF m \in out THEN Unused ELSE conn[m]
      BY <1>2, <1>6, <1>9, <2>1, <2>6 DEF Closed
    <2>8. GivenBack(k, FALSE, out)
      BY <1>3, <2>3, <2>4, <2>5, <2>7 DEF GivenBack
    <2>9. QED
      BY <1>k, <2>8
  <1>12. ASSUME ~(c.rready /\ ~(d.inq = <<>> /\ ~d.fin))
         PROVE  \E out2 : \E kept \in BOOLEAN : GivenBack(u[i].conn, kept, out2)
    <2>e. PICK e : e = [d EXCEPT !.rready = FALSE]
      OBVIOUS
    <2>1. /\ e \in ConnStates /\ e.st = d.st /\ e.srv = d.srv /\ e.rsp = d.rsp /\ e.n = d.n
          /\ e.inq = d.inq /\ e.need = d.need /\ ~e.rready
          /\ e.rtimedout = d.rtimedout /\ e.wtimedout = d.wtimedout /\ ~e.rtimer /\ ~e.wtimer
      <3>1. e \in ConnStates
        BY Zenon, <1>7, <2>e, ConnSet
      <3>2. d \in ConnStates
        BY <1>7
      <3>3. /\ e.st = d.st /\ e.srv = d.srv /\ e.rsp = d.rsp /\ e.n = d.n
            /\ e.inq = d.inq /\ e.need = d.need /\ ~e.rready
            /\ e.rtimedout = d.rtimedout /\ e.wtimedout = d.wtimedout
            /\ e.rtimer = d.rtimer /\ e.wtimer = d.wtimer
        BY <3>2, <2>e DEF ConnStates
      <3>4. QED
        BY <1>7, <3>1, <3>3
    <2>2. conn' = [cs EXCEPT ![k] = e] /\ cache' = ca
      <3>1. CASE c.rready
        <4>1. conn' = [cs EXCEPT ![k].rready = FALSE] /\ cache' = ca
          BY <1>9, <1>10, <1>12, <3>1 DEF CloseHandler
        <4>2. QED
          BY <1>9, <2>e, <4>1
      <3>2. CASE ~c.rready
        <4>1. e = d
          <5>1. d.rready = FALSE
            BY <1>7, <3>2 DEF ConnStates
          <5>2. QED
            BY <1>7, <2>e, <5>1 DEF ConnStates
        <4>2. conn' = cs /\ cache' = ca
          BY <1>10, <3>2
        <4>3. QED
          BY <1>9, <4>1, <4>2
      <3>3. QED
        BY <3>1, <3>2
    <2>3. /\ conn' \in [Conns -> ConnStates] /\ conn'[k] = e
          /\ \A m \in Conns \ {k} : conn'[m] = IF m \in out THEN Unused ELSE conn[m]
      BY <1>2, <1>6, <1>9, <2>1, <2>2
    <2>4. e.need = 0
      BY <1>1, <1>7, <1>12, <2>1
    <2>5. Quiet(e)
      BY <1>1, <1>7, <2>1 DEF Quiet
    <2>6. IdleSound(e) /\ ConnSound(e) /\ e.st # "closed" /\ e.srv = conn[k].srv
      <3>1. ConnSound(e)
        BY <1>2, <1>7, <2>1, SameSound
      <3>2. QED
        BY Zenon, <1>1, <1>2, <1>7, <1>k, <2>1, <2>4, <2>5, <3>1 DEF IdleSound
    <2>7. GivenBack(k, TRUE, out)
      BY <1>1, <1>3, <1>4, <1>5, <2>2, <2>3, <2>6 DEF GivenBack
    <2>8. QED
      BY <1>k, <2>7
  <1>13. QED
    BY <1>11, <1>12

(* Nothing changes about connections.                                      *)
LEMMA SamePlaces ==
  ASSUME IInv, NEW i \in Requests, NEW w, w.conn = u[i].conn, UNCHANGED <<conn, cache, exiting>>
  PROVE  Places(i, w)
  <1>1. /\ conn \in [Conns -> ConnStates] /\ cache \in Seq(Conns) /\ Len(cache) <= CacheMax
        /\ exiting \in BOOLEAN /\ Distinct(cache) /\ (exiting => cache = <<>>)
    BY DEF IInv, Types, Holding
  <1>2. ASSUME NEW m \in Conns
        PROVE  /\ ConnSound(conn[m])
               /\ In(cache, m) => IdleSound(conn[m]) /\ conn[m].st # "closed"
               /\ conn[m].st # "closed" =>
                    In(cache, m) \/ m = w.conn \/ \E j \in Requests \ {i} : u[j].conn = m
    BY DEF IInv, ConnsSound, Holding
  <1>3. ASSUME NEW j \in Requests \ {i}, u[j].conn # None
        PROVE  ~In(cache, u[j].conn) /\ u[j].conn # w.conn
    BY <1>3 DEF IInv, Holding
  <1>4. w.conn # None => conn[w.conn].st # "closed" /\ ~In(cache, w.conn)
    BY DEF IInv, Holding, Types, UpstreamStates
  <1>5. \A x : In(cache', x) <=> In(cache, x)
    BY DEF In
  <1>6. Distinct(cache')
    BY <1>1 DEF Distinct
  <1>7. QED
    BY <1>1, <1>2, <1>3, <1>4, <1>5, <1>6 DEF Places

(* u->peer.free(): the peer is counted down once, its connection is kept   *)
(* or closed.                                                              *)
LEMMA FreedPeer ==
  ASSUME IInv, NEW i \in Requests, NEW failed \in BOOLEAN, FreePeer(i, failed),
         ~Keepable(i, failed) \/ (at.f = "finalize" /\ at.i = i /\ ~failed),
         exiting' = exiting, NEW w, w.conn = None, w.peer = None
  PROVE  Places(i, w) /\ Counted(u[i].peer, w.peer)
  <1>1. u[i].peer \in Peers \cup {None}
    BY DEF IInv, Types, UpstreamStates
  <1>2. Counted(u[i].peer, w.peer)
    BY <1>1 DEF FreePeer, Counted
  <1>3. CASE u[i].conn = None
    <2>1. ~Keepable(i, failed)
      BY <1>3 DEF Keepable
    <2>2. conn' = conn /\ cache' = cache
      BY <1>3, <2>1 DEF FreePeer
    <2>3. QED
      BY <1>2, <1>3, <2>2, SamePlaces
  <1>4. CASE u[i].conn # None /\ ~(u[i].peer # None /\ Keepable(i, failed))
    <2>1. conn' = Closed(conn, u[i].conn) /\ cache' = cache
      BY <1>4 DEF FreePeer
    <2>2. GivenBack(u[i].conn, FALSE, {})
      BY <1>4, <2>1, ClosedBack
    <2>3. QED
      BY <1>2, <1>4, <2>2, BackPlaces
  <1>5. CASE u[i].conn # None /\ u[i].peer # None /\ Keepable(i, failed)
    <2>1. conn' = Kept(u[i].conn).conn /\ cache' = Kept(u[i].conn).cache
      BY <1>5 DEF FreePeer
    <2>2. Keepable(i, FALSE) /\ at.f = "finalize" /\ at.i = i
      <3>1. failed = FALSE
        BY <1>5 DEF Keepable
      <3>2. QED
        BY <1>5, <3>1
    <2>k. PICK out : \E kept \in BOOLEAN : GivenBack(u[i].conn, kept, out)
      BY <2>1, <2>2, KeptBack
    <2>3. PICK kept \in BOOLEAN : GivenBack(u[i].conn, kept, out)
      BY <2>k
    <2>4. QED
      BY Zenon, <1>2, <1>5, <2>3, BackPlaces
  <1>6. QED
    BY <1>3, <1>4, <1>5

-----------------------------------------------------------------------------
(* ngx_http_upstream_next()                                                *)
LEMMA TriesBounded ==
  ASSUME IInv, at.f = "next", NEW i, i = at.i, NEW ft, ft = at.v
  PROVE  TriesAfter(i, ft) \in 0..Cardinality(Peers)
  <1>1. /\ u[i].tries \in 0..Cardinality(Peers) /\ u[i].peer \in Peers \cup {None}
        /\ u[i].peer # None \/ ft # "ERROR"
    BY DEF IInv, Control, Types, UpstreamStates
  <1>2. Cardinality(Peers) \in Nat
    BY UpstreamAssumption, FS_CardinalityType
  <1>3. u[i].peer # None => Cardinality(Peers) >= 1
    <2>1. u[i].peer # None => Peers # {}
      BY <1>1
    <2>2. QED
      BY <1>2, <2>1, UpstreamAssumption, FS_EmptySet
  <1>p. PICK p, t, b : p = Cardinality(Peers) /\ t = u[i].tries
                       /\ b = (IF u[i].cached /\ ft = "ERROR" THEN 1 ELSE 0)
    OBVIOUS
  <1>4. CASE u[i].peer = None
    <2>1. TriesAfter(i, ft) = t + 0
      BY <1>1, <1>4, <1>p DEF TriesAfter
    <2>2. QED
      BY <1>1, <1>2, <1>p, <2>1
  <1>5. CASE u[i].peer # None
    <2>1. TriesAfter(i, ft) = TriesLeft(i) + b /\ b \in 0..1
      BY <1>5, <1>p DEF TriesAfter
    <2>2. TriesLeft(i) \in 0..(p - 1)
      BY <1>1, <1>2, <1>3, <1>5, <1>p DEF TriesLeft
    <2>3. QED
      BY <1>2, <1>p, <2>1, <2>2
  <1>6. QED
    BY <1>4, <1>5

LEMMA NextTried == ASSUME IInv, NextUpstream PROVE IInv'
  <1>i. PICK i, ft : i = at.i /\ ft = at.v
    OBVIOUS
  <1>v. PICK v, g, n, b : v = u[i] /\ g = got[i] /\ n = TriesAfter(i, ft) /\ b = (v.again \/ v.header_sent)
    OBVIOUS
  <1>1. at.f = "next" /\ at.i = i /\ exiting' = exiting /\ got' = got
    BY <1>i DEF NextUpstream, At
  <1>2. /\ i \in Requests /\ v.st = "running" /\ v \in UpstreamStates
        /\ u \in [Requests -> UpstreamStates] /\ got \in [Requests -> Seq(AnswerPieces)]
        /\ g \in Seq(AnswerPieces) /\ BaseSound(i, v, g, at)
    BY <1>1, <1>i, <1>v DEF IInv, Control, Types, Exchange
  <1>w. PICK w : w = [v EXCEPT !.tries = n, !.peer = None, !.conn = None, !.again = b]
    OBVIOUS
  <1>3. w \in UpstreamStates
    <2>1. n \in 0..Cardinality(Peers)
      BY <1>1, <1>i, <1>v, TriesBounded
    <2>2. b \in BOOLEAN
      BY <1>v
    <2>3. PICK w1 \in UpstreamStates : w1 = [v EXCEPT !.tries = n]
      BY Zenon, <1>2, <2>1, UpstreamSet
    <2>4. PICK w2 \in UpstreamStates : w2 = [w1 EXCEPT !.peer = None]
      BY Zenon, UpstreamSet
    <2>5. PICK w3 \in UpstreamStates : w3 = [w2 EXCEPT !.conn = None]
      BY Zenon, UpstreamSet
    <2>6. [w3 EXCEPT !.again = b] \in UpstreamStates
      BY Zenon, <2>2, UpstreamSet
    <2>7. w = [w3 EXCEPT !.again = b]
      BY <1>w, <2>3, <2>4, <2>5
    <2>8. QED
      BY <2>6, <2>7
  <1>4. /\ w.st = v.st /\ w.x = v.x /\ w.kind = v.kind /\ w.header_sent = v.header_sent
        /\ w.busy = v.busy /\ w.wtimer = v.wtimer /\ w.down = v.down /\ w.keepalive = v.keepalive
        /\ w.request_sent = v.request_sent /\ w.served = v.served
        /\ w.peer = None /\ w.conn = None /\ w.again = b
    BY <1>2, <1>w DEF UpstreamStates
  <1>5. u' = [u EXCEPT ![i] = w]
    <2>1. u' = [u EXCEPT ![i].tries = n, ![i].peer = None, ![i].conn = None,
                         ![i].again = @ \/ u[i].header_sent]
      BY Zenon, <1>i, <1>v DEF NextUpstream, I, V
    <2>2. u' = [u EXCEPT ![i] = [v EXCEPT !.tries = n, !.peer = None, !.conn = None,
                                          !.again = v.again \/ v.header_sent]]
      BY Zenon, <1>2, <1>v, <2>1
    <2>3. QED
      BY <1>v, <1>w, <2>2
  <1>6. Places(i, w) /\ Counted(u[i].peer, w.peer)
    <2>f. PICK failed \in BOOLEAN : failed = (ft # "HTTP_404")
      OBVIOUS
    <2>1. FreePeer(i, failed)
      BY <1>i, <2>f DEF NextUpstream, I, V
    <2>2. ASSUME Keepable(i, failed) PROVE FALSE
      <3>1. u[i].conn # None /\ v.keepalive /\ ft = "HTTP_404"
        BY <1>v, <2>2, <2>f DEF Keepable
      <3>2. ReqSound(i, v, conn[v.conn], g, at)
        BY <1>2, <1>v, <3>1, Joint DEF Joined
      <3>3. QED
        BY <1>1, <1>i, <3>1, <3>2 DEF ReqSound, Runs
    <2>3. QED
      BY <1>1, <1>2, <1>4, <2>1, <2>2, FreedPeer
  <1>7. ConnsExact' /\ conns' \in [Peers -> Int]
    BY <1>2, <1>5, <1>6, CountKept
  <1>8. \/ Run("finalize", i, "499")
        \/ Run("finalize", i, StatusOf(ft))
        \/ Run("connect", i, "-") /\ ~GivesUp(i, ft)
    BY <1>i DEF NextUpstream, I, V
  <1>9. /\ at'.i = i /\ at'.f \in {"finalize", "connect"}
        /\ at'.f = "finalize" => at'.v # "0"
        /\ at'.f = "connect" => ~GivesUp(i, ft)
    <2>1. StatusOf(ft) \in {"500", "502", "504", "404"}
      BY DEF StatusOf
    <2>2. QED
      BY <1>8, <2>1 DEF Run
  <1>10. Placeable(i, w, at')
    <2>1. w.x \in Nat
      BY <1>3 DEF UpstreamStates
    <2>2. QED
      BY <1>2, <1>4, <1>9, <1>v, <2>1 DEF Placeable
  <1>11. BaseSound(i, w, g, at')
    <2>1. OnceOnly(w) <=> OnceOnly(v)
      BY <1>4 DEF OnceOnly
    <2>2. ~(Runs(at', i, {"finalize"}) /\ at'.v = "0")
      BY <1>9 DEF Runs
    <2>3. OnceOnly(v) /\ Runs(at', i, {"connect"}) => v.served = {}
      <3> SUFFICES ASSUME OnceOnly(v), Runs(at', i, {"connect"}), v.served # {} PROVE FALSE
        OBVIOUS
      <3>1. ~GivesUp(i, ft)
        BY <1>9 DEF Runs
      <3>2. v.request_sent
        BY <1>2 DEF BaseSound
      <3>3. CASE ~v.kind.idempotent /\ "NON_IDEMPOTENT" \notin NextOn
        BY <1>v, <3>1, <3>2, <3>3 DEF GivesUp, FailureSet
      <3>4. CASE v.kind.body /\ v.kind.unbuffered
        BY <1>v, <3>1, <3>2, <3>4 DEF GivesUp
      <3>5. QED
        BY <3>3, <3>4 DEF OnceOnly
    <2>4. w.conn = None => w.again \/ ~w.header_sent
      BY Zenon, <1>4, <1>v
    <2>5. QED
      BY <1>2, <1>4, <2>1, <2>2, <2>3, <2>4 DEF BaseSound
  <1>12. got' = [got EXCEPT ![i] = g]
    BY <1>1, <1>2, <1>v
  <1>13. (at.f = "rest" \/ at.i = i) /\ (at'.f = "rest" \/ at'.i = i)
    BY <1>1, <1>9
  <1>14. QED
    BY Zenon, <1>2, <1>3, <1>4, <1>5, <1>6, <1>7, <1>10, <1>11, <1>12, <1>13, Rehandled

LEMMA RequestFinalized == ASSUME IInv, FinalizeRequest PROVE IInv'
  <1>i. PICK i : i = at.i
    OBVIOUS
  <1>v. PICK v : v = u[i]
    OBVIOUS
  <1>1. at.f = "finalize" /\ at.i = i /\ exiting' = exiting /\ at' = Rest
    BY <1>i DEF FinalizeRequest, At, Stop
  <1>2. /\ i \in Requests /\ v.st = "running" /\ v \in UpstreamStates
        /\ u \in [Requests -> UpstreamStates] /\ got \in [Requests -> Seq(AnswerPieces)]
        /\ v.kind \in Kinds /\ v.again \in BOOLEAN
    BY Zenon, <1>1, <1>i, <1>v DEF IInv, Control, Types, UpstreamStates
  <1>w. PICK n, w : n = NewUpstream(v.kind) /\ w = [n EXCEPT !.st = "done", !.again = v.again]
    OBVIOUS
  <1>3. n \in UpstreamStates /\ w \in UpstreamStates
    <2>1. n \in UpstreamStates
      BY <1>2, <1>w, NewType
    <2>2. PICK w1 \in UpstreamStates : w1 = [n EXCEPT !.st = "done"]
      BY Zenon, <2>1, UpstreamSet
    <2>3. [w1 EXCEPT !.again = v.again] \in UpstreamStates
      BY Zenon, <1>2, UpstreamSet
    <2>4. w = [w1 EXCEPT !.again = v.again]
      BY <1>w, <2>2
    <2>5. QED
      BY <2>1, <2>3, <2>4
  <1>4. /\ w.st = "done" /\ w.peer = None /\ w.conn = None /\ w.busy = <<>> /\ ~w.header_sent
        /\ ~w.wtimer /\ ~w.down /\ ~w.keepalive /\ w.served = {}
    BY <1>w DEF NewUpstream
  <1>5. u' = [u EXCEPT ![i] = w] /\ got' = [got EXCEPT ![i] = <<>>]
    BY <1>i, <1>v, <1>w DEF FinalizeRequest, I
  <1>6. Places(i, w) /\ Counted(u[i].peer, w.peer)
    <2>1. FreePeer(i, FALSE)
      BY <1>i DEF FinalizeRequest, I
    <2>2. QED
      BY Zenon, <1>1, <1>2, <1>4, <2>1, FreedPeer
  <1>7. ConnsExact' /\ conns' \in [Peers -> Int]
    BY <1>2, <1>5, <1>6, CountKept
  <1>8. at'.f = "rest"
    BY <1>1 DEF Rest
  <1>9. Placeable(i, w, at')
    BY <1>2, <1>4, <1>8, <1>v DEF Placeable
  <1>10. PICK g \in Seq(AnswerPieces) : g = <<>>
    <2>1. <<>> \in Seq(AnswerPieces)
      OBVIOUS
    <2>2. QED
      BY <2>1
  <1>11. BaseSound(i, w, g, at')
    <2>1. g \o w.busy = <<>>
      BY <1>4, <1>10
    <2>2. OneAnswer(i, g \o w.busy)
      <3>1. OneAnswer(i, <<>>)
        BY DEF OneAnswer
      <3>2. QED
        BY <2>1, <3>1
    <2>3. ~Runs(at', i, {"finalize"}) /\ ~Runs(at', i, {"connect"})
      BY <1>8 DEF Runs
    <2>4. QED
      BY <1>4, <2>2, <2>3 DEF BaseSound
  <1>12. got' = [got EXCEPT ![i] = g]
    BY <1>5, <1>10
  <1>13. QED
    BY Zenon, <1>1, <1>2, <1>3, <1>4, <1>5, <1>6, <1>7, <1>8, <1>9, <1>11, <1>12, Rehandled

-----------------------------------------------------------------------------
(* The request that a peer is looked for.                                  *)
LEMMA Connecting ==
  ASSUME IInv, at.f = "connect", NEW i, i = at.i
  PROVE  /\ i \in Requests /\ u[i].st = "running" /\ u[i].conn = None /\ u[i].peer = None
         /\ u \in [Requests -> UpstreamStates] /\ u[i] \in UpstreamStates
         /\ got \in [Requests -> Seq(AnswerPieces)] /\ got[i] \in Seq(AnswerPieces)
         /\ BaseSound(i, u[i], got[i], at) /\ (~u[i].keepalive \/ u[i].request_sent)
         /\ u[i].wtimer => u[i].again
         /\ OnceOnly(u[i]) => u[i].served = {}
  <1>1. /\ i \in Requests /\ u[i].st = "running" /\ u[i].conn = None /\ u[i].peer = None
        /\ u \in [Requests -> UpstreamStates] /\ got \in [Requests -> Seq(AnswerPieces)]
        /\ BaseSound(i, u[i], got[i], at)
    BY DEF IInv, Control, Types, Exchange
  <1>2. Runs(at, i, {"connect"})
    BY DEF Runs
  <1>3. QED
    BY <1>1, <1>2 DEF BaseSound

(* A step after which request i has no connection, as before.              *)
LEMMA Unconnected ==
  ASSUME IInv, NEW i \in Requests, at.f = "rest" \/ (at.i = i /\ at.f = "connect"),
         u[i].conn = None, u[i].peer = None,
         at'.i = i, at'.f \in {"connect", "next", "finalize"}, at'.f = "finalize" => at'.v # "0",
         NEW w \in UpstreamStates, u' = [u EXCEPT ![i] = w],
         w.st = "running", u[i].st \in {"new", "running"}, w.conn = None, w.x = u[i].x,
         w.kind = u[i].kind, w.header_sent = u[i].header_sent, w.busy = u[i].busy,
         w.wtimer = u[i].wtimer, w.down = u[i].down, w.keepalive = u[i].keepalive,
         w.request_sent = u[i].request_sent, w.served = u[i].served, w.again = u[i].again,
         at'.f = "connect" => w.peer = None /\ u[i].st = "new",
         at'.f = "next" => w.peer # None \/ at'.v # "ERROR",
         Counted(u[i].peer, w.peer), UNCHANGED <<conn, cache, exiting, got>>
  PROVE  IInv'
  <1>1. /\ got \in [Requests -> Seq(AnswerPieces)] /\ got[i] \in Seq(AnswerPieces)
        /\ BaseSound(i, u[i], got[i], at) /\ (u[i].st = "new" => u[i].served = {})
        /\ u[i].x \in Nat
    BY Zenon DEF IInv, Control, Types, Exchange, UpstreamStates
  <1>2. got' = [got EXCEPT ![i] = got[i]]
    BY <1>1
  <1>3. Places(i, w)
    BY SamePlaces
  <1>4. ConnsExact' /\ conns' \in [Peers -> Int]
    BY Zenon, CountKept
  <1>5. Placeable(i, w, at')
    BY <1>1 DEF Placeable
  <1>6. BaseSound(i, w, got[i], at')
    <2>1. OnceOnly(w) <=> OnceOnly(u[i])
      BY DEF OnceOnly
    <2>2. ~(Runs(at', i, {"finalize"}) /\ at'.v = "0")
      BY DEF Runs
    <2>3. Runs(at', i, {"connect"}) => w.served = {}
      BY <1>1 DEF Runs
    <2>4. QED
      BY <1>1, <2>1, <2>2, <2>3 DEF BaseSound
  <1>7. QED
    BY Zenon, <1>1, <1>2, <1>3, <1>4, <1>5, <1>6, Rehandled

LEMMA RequestStarted == ASSUME IInv, NEW i \in Requests, InitRequest(i) PROVE IInv'
  <1>v. PICK v : v = u[i]
    OBVIOUS
  <1>1. /\ v.st = "new" /\ v.conn = None /\ v.peer = None /\ v \in UpstreamStates
        /\ u \in [Requests -> UpstreamStates] /\ v.kind \in Kinds
    BY Zenon, <1>v DEF InitRequest, IInv, Control, Types, UpstreamStates
  <1>2. at.f = "rest" /\ at'.f = "connect" /\ at'.i = i
    BY DEF InitRequest, Idle, Rest, Run
  <1>n. PICK n, b : /\ n = (IF Single THEN 1 ELSE Cardinality(Peers))
                    /\ b = (v.kind.body /\ v.kind.unbuffered)
    OBVIOUS
  <1>3. n \in 0..Cardinality(Peers)
    <2>1. Cardinality(Peers) \in Nat
      BY UpstreamAssumption, FS_CardinalityType
    <2>2. Single => Cardinality(Peers) = 1
      <3>1. Cardinality({1}) = 1
        BY FS_Singleton
      <3>2. QED
        BY <3>1 DEF Single
    <2>3. QED
      BY <1>n, <2>1, <2>2
  <1>w. PICK w : w = [v EXCEPT !.st = "running", !.tries = n, !.reading = b]
    OBVIOUS
  <1>4. w \in UpstreamStates
    <2>1. b \in BOOLEAN
      BY <1>1, <1>n DEF Kinds
    <2>2. PICK w1 \in UpstreamStates : w1 = [v EXCEPT !.st = "running"]
      BY Zenon, <1>1, UpstreamSet
    <2>3. PICK w2 \in UpstreamStates : w2 = [w1 EXCEPT !.tries = n]
      BY <1>3, UpstreamSet
    <2>4. [w2 EXCEPT !.reading = b] \in UpstreamStates
      BY Zenon, <2>1, UpstreamSet
    <2>5. w = [w2 EXCEPT !.reading = b]
      BY <1>w, <2>2, <2>3
    <2>6. QED
      BY <2>4, <2>5
  <1>5. /\ w.st = "running" /\ w.conn = v.conn /\ w.peer = v.peer /\ w.x = v.x /\ w.kind = v.kind
        /\ w.header_sent = v.header_sent /\ w.busy = v.busy /\ w.wtimer = v.wtimer
        /\ w.down = v.down /\ w.keepalive = v.keepalive /\ w.request_sent = v.request_sent
        /\ w.served = v.served /\ w.again = v.again
    BY <1>1, <1>w DEF UpstreamStates
  <1>6. u' = [u EXCEPT ![i] = w]
    <2>1. u' = [u EXCEPT ![i].st = "running", ![i].tries = n, ![i].reading = b]
      BY <1>n, <1>v DEF InitRequest
    <2>2. QED
      BY Zenon, <1>1, <1>v, <1>w, <2>1
  <1>7. UNCHANGED <<conn, cache, exiting, got>> /\ Counted(v.peer, w.peer)
    BY <1>5 DEF InitRequest, Counted
  <1>a. at.f = "rest" \/ (at.i = i /\ at.f = "connect")
    BY <1>2
  <1>b. /\ at'.i = i /\ at'.f \in {"connect", "next", "finalize"}
        /\ at'.f = "finalize" => at'.v # "0"
        /\ at'.f = "connect" => w.peer = None /\ u[i].st = "new"
        /\ at'.f = "next" => w.peer # None \/ at'.v # "ERROR"
    BY <1>1, <1>2, <1>5, <1>v
  <1>c. u[i].conn = None /\ u[i].peer = None /\ w.st = "running" /\ u[i].st \in {"new", "running"}
        /\ w.conn = None
    BY <1>1, <1>5, <1>v
  <1>d. /\ w.x = u[i].x /\ w.kind = u[i].kind
        /\ w.header_sent = u[i].header_sent /\ w.busy = u[i].busy /\ w.wtimer = u[i].wtimer
        /\ w.down = u[i].down /\ w.keepalive = u[i].keepalive
        /\ w.request_sent = u[i].request_sent /\ w.served = u[i].served /\ w.again = u[i].again
    BY <1>5, <1>v
  <1>e. i \in Requests /\ Counted(u[i].peer, w.peer) /\ UNCHANGED <<conn, cache, exiting, got>>
    BY <1>7, <1>v
  <1>8. QED
    BY Zenon, <1>4, <1>6, <1>a, <1>b, <1>c, <1>d, <1>e, Unconnected

LEMMA NoPeer == ASSUME IInv, ConnectBusy PROVE IInv'
  <1>i. PICK i, v : i = at.i /\ v = u[i]
    OBVIOUS
  <1>1. at.f = "connect" /\ at'.f = "next" /\ at'.i = i /\ at'.v = "NOLIVE"
    BY <1>i DEF ConnectBusy, At, Run, I
  <1>2. /\ i \in Requests /\ v.st = "running" /\ v.conn = None /\ v.peer = None
        /\ u \in [Requests -> UpstreamStates] /\ v \in UpstreamStates
    BY <1>1, <1>i, Connecting
  <1>w. PICK w : w = [v EXCEPT !.cached = FALSE, !.conn = None]
    OBVIOUS
  <1>3. w \in UpstreamStates
    <2>1. PICK w1 \in UpstreamStates : w1 = [v EXCEPT !.cached = FALSE]
      BY <1>2, UpstreamSet
    <2>2. [w1 EXCEPT !.conn = None] \in UpstreamStates
      BY Zenon, UpstreamSet
    <2>3. QED
      BY <1>w, <2>1, <2>2
  <1>4. /\ w.st = v.st /\ w.conn = v.conn /\ w.peer = v.peer /\ w.x = v.x /\ w.kind = v.kind
        /\ w.header_sent = v.header_sent /\ w.busy = v.busy /\ w.wtimer = v.wtimer
        /\ w.down = v.down /\ w.keepalive = v.keepalive /\ w.request_sent = v.request_sent
        /\ w.served = v.served /\ w.again = v.again
    BY <1>2, <1>w DEF UpstreamStates
  <1>5. u' = [u EXCEPT ![i] = w]
    BY Zenon, <1>2, <1>i, <1>w DEF ConnectBusy, I
  <1>6. UNCHANGED <<conn, cache, exiting, got>> /\ Counted(v.peer, w.peer)
    BY <1>4 DEF ConnectBusy, Counted
  <1>a. at.f = "rest" \/ (at.i = i /\ at.f = "connect")
    BY <1>1, <1>i
  <1>b. /\ at'.i = i /\ at'.f \in {"connect", "next", "finalize"}
        /\ at'.f = "finalize" => at'.v # "0"
        /\ at'.f = "connect" => w.peer = None /\ u[i].st = "new"
        /\ at'.f = "next" => w.peer # None \/ at'.v # "ERROR"
    BY <1>1
  <1>c. u[i].conn = None /\ u[i].peer = None /\ w.st = "running" /\ u[i].st \in {"new", "running"}
        /\ w.conn = None
    BY <1>2, <1>4, <1>i
  <1>d. /\ w.x = u[i].x /\ w.kind = u[i].kind
        /\ w.header_sent = u[i].header_sent /\ w.busy = u[i].busy /\ w.wtimer = u[i].wtimer
        /\ w.down = u[i].down /\ w.keepalive = u[i].keepalive
        /\ w.request_sent = u[i].request_sent /\ w.served = u[i].served /\ w.again = u[i].again
    BY <1>4, <1>i
  <1>e. i \in Requests /\ Counted(u[i].peer, w.peer) /\ UNCHANGED <<conn, cache, exiting, got>>
    BY <1>2, <1>6, <1>i
  <1>7. QED
    BY Zenon, <1>3, <1>5, <1>a, <1>b, <1>c, <1>d, <1>e, Unconnected

(* The peer is taken, but there is no connection.                          *)
LEMMA PeerWithoutConn ==
  ASSUME IInv, at.f = "connect", NEW p \in PeersFor(I), conns' = Taken(p),
         u' = [u EXCEPT ![I].peer = p, ![I].conn = None, ![I].cached = FALSE, ![I].tried = @ \cup {p}],
         Run("next", I, "ERROR") \/ Run("finalize", I, "500"),
         UNCHANGED <<conn, cache, exiting, got>>
  PROVE  IInv'
  <1>i. PICK i, v : i = at.i /\ v = u[i]
    OBVIOUS
  <1>1. /\ at'.i = i /\ at'.f \in {"next", "finalize"} /\ (at'.f = "finalize" => at'.v # "0")
    BY <1>i DEF Run, I
  <1>2. /\ i \in Requests /\ v.st = "running" /\ v.conn = None /\ v.peer = None
        /\ u \in [Requests -> UpstreamStates] /\ v \in UpstreamStates
    BY <1>1, <1>i, Connecting
  <1>p. p \in Peers /\ p # None /\ v.tried \in SUBSET Peers
    <2>1. p \in Peers
      BY DEF PeersFor
    <2>2. QED
      BY Zenon, <2>1, <1>2, Nothing DEF UpstreamStates
  <1>w. PICK t, w : t = v.tried \cup {p} /\ w = [v EXCEPT !.peer = p, !.conn = None, !.cached = FALSE, !.tried = t]
    OBVIOUS
  <1>3. w \in UpstreamStates
    <2>1. PICK w1 \in UpstreamStates : w1 = [v EXCEPT !.peer = p]
      BY Zenon, <1>2, <1>p, UpstreamSet
    <2>2. PICK w2 \in UpstreamStates : w2 = [w1 EXCEPT !.conn = None]
      BY Zenon, UpstreamSet
    <2>3. PICK w3 \in UpstreamStates : w3 = [w2 EXCEPT !.cached = FALSE]
      BY Zenon, UpstreamSet
    <2>4. t \in SUBSET Peers
      BY <1>p, <1>w
    <2>5. [w3 EXCEPT !.tried = t] \in UpstreamStates
      BY Zenon, <2>4, UpstreamSet
    <2>6. w = [w3 EXCEPT !.tried = t]
      BY <1>w, <2>1, <2>2, <2>3
    <2>7. QED
      BY <2>5, <2>6
  <1>4. /\ w.st = v.st /\ w.conn = v.conn /\ w.peer = p /\ w.x = v.x /\ w.kind = v.kind
        /\ w.header_sent = v.header_sent /\ w.busy = v.busy /\ w.wtimer = v.wtimer
        /\ w.down = v.down /\ w.keepalive = v.keepalive /\ w.request_sent = v.request_sent
        /\ w.served = v.served /\ w.again = v.again
    BY <1>2, <1>w DEF UpstreamStates
  <1>5. u' = [u EXCEPT ![i] = w]
    BY Zenon, <1>2, <1>i, <1>w DEF I
  <1>6. Counted(v.peer, w.peer)
    BY <1>2, <1>4, <1>p DEF Counted
  <1>a. at.f = "rest" \/ (at.i = i /\ at.f = "connect")
    BY <1>i
  <1>b. /\ at'.i = i /\ at'.f \in {"connect", "next", "finalize"}
        /\ at'.f = "finalize" => at'.v # "0"
        /\ at'.f = "connect" => w.peer = None /\ u[i].st = "new"
        /\ at'.f = "next" => w.peer # None \/ at'.v # "ERROR"
    BY <1>1, <1>4, <1>p
  <1>c. u[i].conn = None /\ u[i].peer = None /\ w.st = "running" /\ u[i].st \in {"new", "running"}
        /\ w.conn = None
    BY <1>2, <1>4, <1>i
  <1>d. /\ w.x = u[i].x /\ w.kind = u[i].kind
        /\ w.header_sent = u[i].header_sent /\ w.busy = u[i].busy /\ w.wtimer = u[i].wtimer
        /\ w.down = u[i].down /\ w.keepalive = u[i].keepalive
        /\ w.request_sent = u[i].request_sent /\ w.served = u[i].served /\ w.again = u[i].again
    BY <1>4, <1>i
  <1>e. i \in Requests /\ Counted(u[i].peer, w.peer) /\ UNCHANGED <<conn, cache, exiting, got>>
    BY <1>2, <1>6, <1>i
  <1>7. QED
    BY ZenonT(120), <1>3, <1>5, <1>a, <1>b, <1>c, <1>d, <1>e, Unconnected

LEMMA ConnectFailed == ASSUME IInv, ConnectFails PROVE IInv'
  BY PeerWithoutConn DEF ConnectFails, At

(* A connection to the peer, from the cache or a new one: nothing of the   *)
(* request was sent on it.                                                 *)
Fresh(d, c) ==
  /\ d \in ConnStates /\ Quiet(d) /\ d.need = 0 /\ ~d.rready
  /\ d.srv = c.srv \/ d.srv = Nobody

LEMMA ConnectedSound ==
  ASSUME IInv, at.f = "connect", NEW i, i = at.i, NEW p \in Peers, NEW k \in Conns,
         NEW cached \in BOOLEAN, Connected(i, p, k, cached), NEW d, Fresh(d, conn[k]),
         conn' = [conn EXCEPT ![k] = d], at'.f \in {"rest", "send"}, at'.f = "rest" \/ at'.i = i,
         conns' = Taken(p), UNCHANGED <<exiting, got>>,
         \A w : w.conn = k => Places(i, w)
  PROVE  IInv'
  <1>v. PICK v, g : v = u[i] /\ g = got[i]
    OBVIOUS
  <1>1. /\ i \in Requests /\ v.st = "running" /\ v.conn = None /\ v.peer = None
        /\ u \in [Requests -> UpstreamStates] /\ v \in UpstreamStates
        /\ got \in [Requests -> Seq(AnswerPieces)] /\ g \in Seq(AnswerPieces)
        /\ BaseSound(i, v, g, at) /\ (~v.keepalive \/ v.request_sent)
        /\ (v.wtimer => v.again) /\ (OnceOnly(v) => v.served = {})
    BY <1>v, Connecting
  <1>2. conn \in [Conns -> ConnStates] /\ conn[k] \in ConnStates /\ p # None /\ k # None
    BY Nothing DEF IInv, Types
  <1>n. PICK x, n, t, ka, h :
          /\ x = v.x + 1 /\ n = Pieces(i) /\ t = v.tried \cup {p}
          /\ ka = (IF v.request_sent THEN FALSE ELSE v.keepalive)
          /\ h = (IF v.request_sent THEN <<>> ELSE v.head)
    BY Zenon
  <1>w. PICK w : w = [v EXCEPT !.peer = p, !.conn = k, !.cached = cached, !.tried = t, !.x = x,
                               !.left = n, !.keepalive = ka, !.head = h, !.request_sent = FALSE,
                               !.body_sent = FALSE, !.weh = "send", !.reh = "header"]
    OBVIOUS
  <1>3. x \in Nat /\ v.x \in Nat /\ x > v.x /\ n \in 1..2 /\ t \in SUBSET Peers /\ ka = FALSE
        /\ h \in Seq(AnswerPieces)
    <2>1. v.x \in Nat /\ x \in Nat /\ x > v.x
      <3>1. v.x \in Nat
        BY <1>1 DEF UpstreamStates
      <3>2. QED
        BY <1>n, <3>1
    <2>2. n \in 1..2
      BY <1>n DEF Pieces
    <2>3. t \in SUBSET Peers
      <3>1. v.tried \in SUBSET Peers
        BY <1>1 DEF UpstreamStates
      <3>2. QED
        BY <1>n, <3>1
    <2>4. ka = FALSE
      <3>1. v.keepalive \in BOOLEAN
        BY <1>1 DEF UpstreamStates
      <3>2. QED
        BY <1>1, <1>n, <3>1
    <2>5. h \in Seq(AnswerPieces)
      <3>1. v.head \in Seq(AnswerPieces)
        BY <1>1 DEF UpstreamStates
      <3>2. <<>> \in Seq(AnswerPieces)
        OBVIOUS
      <3>3. QED
        BY <1>n, <3>1, <3>2
    <2>6. QED
      BY <2>1, <2>2, <2>3, <2>4, <2>5
  <1>4. w \in UpstreamStates
    <2>1. PICK w1 \in UpstreamStates : w1 = [v EXCEPT !.peer = p]
      BY Zenon, <1>1, UpstreamSet
    <2>2. PICK w2 \in UpstreamStates : w2 = [w1 EXCEPT !.conn = k]
      BY Zenon, UpstreamSet
    <2>3. PICK w3 \in UpstreamStates : w3 = [w2 EXCEPT !.cached = cached]
      BY Zenon, UpstreamSet
    <2>4. PICK w4 \in UpstreamStates : w4 = [w3 EXCEPT !.tried = t]
      BY Zenon, <1>3, UpstreamSet
    <2>5. PICK w5 \in UpstreamStates : w5 = [w4 EXCEPT !.x = x]
      BY Zenon, <1>3, UpstreamSet
    <2>6. PICK w6 \in UpstreamStates : w6 = [w5 EXCEPT !.left = n]
      <3>1. n \in 0..2
        BY <1>3
      <3>2. QED
        BY Zenon, <3>1, UpstreamSet
    <2>7. PICK w7 \in UpstreamStates : w7 = [w6 EXCEPT !.keepalive = ka]
      BY Zenon, <1>3, UpstreamSet
    <2>8. PICK w8 \in UpstreamStates : w8 = [w7 EXCEPT !.head = h]
      BY Zenon, <1>3, UpstreamSet
    <2>9. PICK w9 \in UpstreamStates : w9 = [w8 EXCEPT !.request_sent = FALSE]
      BY Zenon, UpstreamSet
    <2>10. PICK w10 \in UpstreamStates : w10 = [w9 EXCEPT !.body_sent = FALSE]
      BY Zenon, UpstreamSet
    <2>11. PICK w11 \in UpstreamStates : w11 = [w10 EXCEPT !.weh = "send"]
      BY Zenon, UpstreamSet
    <2>12. [w11 EXCEPT !.reh = "header"] \in UpstreamStates
      BY Zenon, UpstreamSet
    <2>13. w4 = [v EXCEPT !.peer = p, !.conn = k, !.cached = cached, !.tried = t]
      BY <2>1, <2>2, <2>3, <2>4
    <2>14. w8 = [v EXCEPT !.peer = p, !.conn = k, !.cached = cached, !.tried = t, !.x = x,
                          !.left = n, !.keepalive = ka, !.head = h]
      BY <2>5, <2>6, <2>7, <2>8, <2>13
    <2>15. w = [w11 EXCEPT !.reh = "header"]
      BY <1>w, <2>9, <2>10, <2>11, <2>14
    <2>16. QED
      BY <2>12, <2>15
  <1>5. /\ w.st = v.st /\ w.conn = k /\ w.peer = p /\ w.x = x /\ w.kind = v.kind /\ w.left = n
        /\ w.header_sent = v.header_sent /\ w.busy = v.busy /\ w.wtimer = v.wtimer
        /\ w.down = v.down /\ ~w.keepalive /\ ~w.request_sent /\ ~w.body_sent
        /\ w.served = v.served /\ w.again = v.again /\ w.reh = "header"
    BY <1>1, <1>3, <1>w DEF UpstreamStates
  <1>6. u' = [u EXCEPT ![i] = w]
    <2>1. u' = [u EXCEPT ![i] = [v EXCEPT !.peer = p, !.conn = k, !.cached = cached, !.tried = t,
                 !.x = x, !.left = n, !.keepalive = ka, !.head = h, !.request_sent = FALSE,
                 !.body_sent = FALSE, !.weh = "send", !.reh = "header"]]
      BY <1>n, <1>v DEF Connected
    <2>2. QED
      BY <1>w, <2>1
  <1>7. Sending(i, w, d)
    <2>1. PiecesOf(w) = n
      BY <1>5, <1>n, <1>v DEF PiecesOf, Pieces
    <2>2. ~Current(i, w, d)
      <3>1. SUFFICES ASSUME d.srv = [to |-> i, x |-> x] PROVE FALSE
        BY <1>5 DEF Current
      <3>2. d.srv.to = i /\ d.srv.x = x
        BY <3>1
      <3>3. d.srv # Nobody
        BY <1>1, <3>2, Nothing DEF Nobody, None
      <3>4. conn[k].srv.to = i /\ conn[k].srv.x = x
        BY <3>2, <3>3 DEF Fresh
      <3>5. conn[k].srv.x <= v.x
        BY <1>1, <1>v, <3>4 DEF IInv, ConnsSound
      <3>6. x <= v.x
        BY <3>4, <3>5
      <3>7. QED
        BY <1>3, <3>6
    <2>3. w.left <= n /\ w.left >= 1 /\ ~(w.left < n)
      BY <1>3, <1>5
    <2>4. Quiet(d) /\ d.need = 0
      BY DEF Fresh
    <2>5. QED
      BY <1>5, <2>1, <2>2, <2>3, <2>4 DEF Sending
  <1>8. ReqSound(i, w, d, g, at')
    <2>1. ~Runs(at', i, {"header"}) /\ ~Runs(at', i, {"header", "memory"})
          /\ ~Runs(at', i, {"respond"}) /\ ~Runs(at', i, {"pipe", "memory"})
          /\ ~Runs(at', i, {"direct"}) /\ ~Runs(at', i, {"next"})
      BY DEF Runs
    <2>2. w.wtimer => w.again
      BY <1>1, <1>5
    <2>3. ~d.rready
      BY DEF Fresh
    <2>4. QED
      BY <1>5, <1>7, <2>1, <2>2, <2>3 DEF ReqSound
  <1>9. BaseSound(i, w, g, at')
    <2>1. OnceOnly(w) <=> OnceOnly(v)
      BY <1>5 DEF OnceOnly
    <2>2. ~Runs(at', i, {"finalize"}) /\ ~Runs(at', i, {"connect"})
      BY DEF Runs
    <2>3. OnceOnly(w) => w.served = {}
      BY <1>1, <1>5, <2>1
    <2>4. w.conn # None
      BY <1>2, <1>5
    <2>5. /\ ~w.header_sent => w.busy = <<>> /\ ~w.wtimer /\ ~w.down
          /\ w.down => w.kind.mode = "pipe"
          /\ w.kind.mode # "direct" => w.busy = <<>>
          /\ w.header_sent => w.kind.mode # "memory"
          /\ OneAnswer(i, g \o w.busy)
      BY <1>1, <1>5 DEF BaseSound
    <2>6. QED
      BY <1>5, <2>2, <2>3, <2>4, <2>5 DEF BaseSound
  <1>10. Placeable(i, w, at')
    <2>1. v.x <= x
      BY <1>3
    <2>2. at'.f # "connect" /\ at'.f # "next"
      OBVIOUS
    <2>3. QED
      BY <1>1, <1>2, <1>5, <1>v, <2>1, <2>2 DEF Placeable
  <1>11. Counted(u[i].peer, w.peer)
    BY <1>1, <1>5, <1>v DEF Counted
  <1>12. ConnsExact' /\ conns' \in [Peers -> Int]
    BY <1>1, <1>6, <1>11, CountKept
  <1>13. got' = [got EXCEPT ![i] = g]
    BY <1>1, <1>v
  <1>14. Places(i, w) /\ conn'[w.conn] = d
    BY <1>2, <1>5
  <1>15. QED
    BY Zenon, <1>1, <1>4, <1>6, <1>8, <1>9, <1>10, <1>12, <1>13, <1>14, Rehandled

(* The most recent connection to the peer leaves the cache.                *)
LEMMA CachedConnected == ASSUME IInv, ConnectCached PROVE IInv'
  <1>i. PICK i : i = at.i
    OBVIOUS
  <1>1. at.f = "connect" /\ at'.f = "send" /\ at'.i = i /\ UNCHANGED <<conn, exiting, got>>
    BY <1>i DEF ConnectCached, At, Run, I
  <1>p. PICK p \in PeersFor(I) : \E j \in OfPeer(p) :
          /\ Connected(I, p, cache[j], TRUE)
          /\ cache' = Remove(cache, j)
          /\ conns' = Taken(p)
    BY Zenon DEF ConnectCached
  <1>2. PICK first \in OfPeer(p) :
          /\ Connected(I, p, cache[first], TRUE)
          /\ cache' = Remove(cache, first)
          /\ conns' = Taken(p)
    BY <1>p
  <1>3. i \in Requests /\ u[i].conn = None
    BY <1>1, <1>i, Connecting
  <1>4. p \in Peers
    BY DEF PeersFor
  <1>5. /\ conn \in [Conns -> ConnStates] /\ cache \in Seq(Conns) /\ Len(cache) <= CacheMax
        /\ exiting \in BOOLEAN /\ Distinct(cache) /\ (exiting => cache = <<>>)
        /\ Len(cache) \in Nat /\ CacheMax \in Nat
    BY UpstreamAssumption DEF IInv, Types, Holding
  <1>8. first \in 1..Len(cache)
    BY DEF OfPeer
  <1>k. PICK k \in Conns : k = cache[first]
    BY <1>5, <1>8
  <1>9. Connected(i, p, k, TRUE) /\ cache' = Remove(cache, first) /\ conns' = Taken(p)
    BY <1>2, <1>i, <1>k DEF I
  <1>10. /\ cache' \in Seq(Conns) /\ Len(cache') = Len(cache) - 1 /\ Distinct(cache')
         /\ \A x : In(cache', x) <=> In(cache, x) /\ x # k
    BY <1>5, <1>8, <1>9, <1>k, RemovedDistinct
  <1>11. In(cache, k) /\ conn[k].st # "closed" /\ IdleSound(conn[k]) /\ ConnSound(conn[k])
    <2>1. In(cache, k)
      BY <1>8, <1>k DEF In
    <2>2. QED
      BY <2>1 DEF IInv, Holding, ConnsSound
  <1>12. Fresh(conn[k], conn[k])
    BY <1>5, <1>11 DEF Fresh, IdleSound
  <1>13. conn' = [conn EXCEPT ![k] = conn[k]]
    BY <1>1, <1>5
  <1>14. ASSUME NEW w, w.conn = k PROVE Places(i, w)
    <2>1. Len(cache') <= CacheMax
      BY <1>5, <1>10
    <2>2. exiting => cache' = <<>>
      <3>1. cache # <<>>
        BY <1>5, <1>8
      <3>2. QED
        BY <1>5, <3>1
    <2>3. ASSUME NEW m \in Conns
          PROVE  /\ ConnSound(conn[m])
                 /\ In(cache', m) => IdleSound(conn[m]) /\ conn[m].st # "closed"
                 /\ conn[m].st # "closed" =>
                      In(cache', m) \/ m = w.conn \/ \E a \in Requests \ {i} : u[a].conn = m
      <3>1. /\ ConnSound(conn[m]) /\ (In(cache, m) => IdleSound(conn[m]) /\ conn[m].st # "closed")
            /\ conn[m].st # "closed" => In(cache, m) \/ \E a \in Requests : u[a].conn = m
        BY DEF IInv, ConnsSound, Holding
      <3>2. u[i].conn # m
        BY <1>3, Nothing
      <3>3. QED
        BY <1>10, <1>14, <3>1, <3>2
    <2>4. ASSUME NEW a \in Requests \ {i}, u[a].conn # None
          PROVE  ~In(cache', u[a].conn) /\ u[a].conn # w.conn
      <3>1. ~In(cache, u[a].conn)
        BY DEF IInv, Holding
      <3>2. QED
        BY <1>10, <1>11, <1>14, <3>1
    <2>5. conn[w.conn].st # "closed" /\ ~In(cache', w.conn)
      BY <1>10, <1>11, <1>14
    <2>6. QED
      BY Zenon, <1>1, <1>5, <1>10, <2>1, <2>2, <2>3, <2>4, <2>5 DEF Places
  <1>15. QED
    BY Zenon, <1>1, <1>4, <1>9, <1>12, <1>13, <1>14, <1>i, ConnectedSound

(* ngx_event_connect_peer(): the connection is open, on its way, or not    *)
(* there.                                                                  *)
LEMMA NewConnected == ASSUME IInv, ConnectNew PROVE IInv'
  <1>i. PICK i : i = at.i
    OBVIOUS
  <1>1. at.f = "connect" /\ UNCHANGED <<cache, exiting, got>>
    BY DEF ConnectNew, At
  <1>2. PICK p \in PeersFor(I), k \in Conns :
          /\ conn[k].st = "closed" /\ conns' = Taken(p)
          /\ \/ /\ Connected(I, p, k, FALSE)
                /\ conn' = [conn EXCEPT ![k] = [Unused EXCEPT !.st = "connecting", !.peer = p, !.wtimer = TRUE]]
                /\ Stop
             \/ /\ Connected(I, p, k, FALSE)
                /\ conn' = [conn EXCEPT ![k] = [Unused EXCEPT !.st = "open", !.peer = p, !.wready = TRUE]]
                /\ Run("send", I, "write")
             \/ /\ u' = [u EXCEPT ![I].peer = p, ![I].conn = None, ![I].cached = FALSE,
                                  ![I].tried = @ \cup {p}]
                /\ Run("next", I, "ERROR") /\ UNCHANGED conn
    BY Zenon DEF ConnectNew
  <1>3. i \in Requests /\ u[i].conn = None
    BY <1>1, <1>i, Connecting
  <1>4. p \in Peers
    BY DEF PeersFor
  <1>5. /\ conn \in [Conns -> ConnStates] /\ cache \in Seq(Conns) /\ Len(cache) <= CacheMax
        /\ exiting \in BOOLEAN /\ Distinct(cache) /\ (exiting => cache = <<>>)
    BY DEF IInv, Types, Holding
  <1>6. ~In(cache, k) /\ \A j \in Requests : u[j].conn # k
    BY <1>2 DEF IInv, Holding
  <1>7. CASE u' = [u EXCEPT ![I].peer = p, ![I].conn = None, ![I].cached = FALSE,
                            ![I].tried = @ \cup {p}]
             /\ Run("next", I, "ERROR") /\ UNCHANGED conn
    BY Zenon, <1>1, <1>2, <1>7, PeerWithoutConn
  <1>8. ASSUME Connected(I, p, k, FALSE), NEW d \in ConnStates, conn' = [conn EXCEPT ![k] = d],
               d.st # "closed", d.srv = Nobody, d.rsp = <<>>, d.n = 0, d.inq = <<>>, d.need = 0,
               ~d.rready,
               Stop \/ Run("send", I, "write")
        PROVE  IInv'
    <2>1. at'.f \in {"rest", "send"} /\ (at'.f = "rest" \/ at'.i = i)
      BY <1>8, <1>i DEF Stop, Rest, Run, I
    <2>2. Fresh(d, conn[k])
      BY <1>8 DEF Fresh, Quiet
    <2>3. ConnSound(d)
      BY <1>8 DEF ConnSound
    <2>4. conn' \in [Conns -> ConnStates] /\ conn'[k] = d /\ \A m \in Conns \ {k} : conn'[m] = conn[m]
      BY <1>5, <1>8
    <2>5. ASSUME NEW w, w.conn = k PROVE Places(i, w)
      <3>1. ASSUME NEW m \in Conns
            PROVE  /\ ConnSound(conn'[m])
                   /\ conn'[m].srv = conn[m].srv \/ conn'[m].srv = Nobody
                   /\ In(cache, m) => IdleSound(conn'[m]) /\ conn'[m].st # "closed"
                   /\ conn'[m].st # "closed" =>
                        In(cache, m) \/ m = w.conn \/ \E j \in Requests \ {i} : u[j].conn = m
        <4>1. /\ ConnSound(conn[m]) /\ (In(cache, m) => IdleSound(conn[m]) /\ conn[m].st # "closed")
              /\ conn[m].st # "closed" => In(cache, m) \/ \E j \in Requests : u[j].conn = m
          BY DEF IInv, ConnsSound, Holding
        <4>2. u[i].conn # m
          BY <1>3, Nothing
        <4>3. CASE m = k
          BY <1>6, <1>8, <2>3, <2>4, <2>5, <4>3
        <4>4. CASE m # k
          BY <2>4, <4>1, <4>2, <4>4
        <4>5. QED
          BY <4>3, <4>4
      <3>2. ASSUME NEW j \in Requests \ {i}, u[j].conn # None
            PROVE  conn'[u[j].conn] = conn[u[j].conn] /\ ~In(cache, u[j].conn) /\ u[j].conn # w.conn
        <4>1. ~In(cache, u[j].conn) /\ u[j].conn \in Conns
          BY <3>2 DEF IInv, Holding, Types, UpstreamStates
        <4>2. QED
          BY <1>6, <2>4, <2>5, <4>1
      <3>3. conn'[w.conn].st # "closed" /\ ~In(cache, w.conn)
        BY <1>6, <1>8, <2>4, <2>5
      <3>4. \A x : In(cache', x) <=> In(cache, x)
        BY <1>1 DEF In
      <3>5. Distinct(cache')
        BY <1>1, <1>5 DEF Distinct
      <3>6. QED
        BY Zenon, <1>1, <1>5, <2>4, <3>1, <3>2, <3>3, <3>4, <3>5 DEF Places
    <2>6. Connected(i, p, k, FALSE)
      BY Zenon, <1>8, <1>i DEF I
    <2>7. QED
      BY ZenonT(120), <1>1, <1>2, <1>4, <1>8, <1>i, <2>1, <2>2, <2>5, <2>6, ConnectedSound
  <1>9. CASE /\ Connected(I, p, k, FALSE)
             /\ conn' = [conn EXCEPT ![k] = [Unused EXCEPT !.st = "connecting", !.peer = p, !.wtimer = TRUE]]
             /\ Stop
    <2>d. PICK d : d = [Unused EXCEPT !.st = "connecting", !.peer = p, !.wtimer = TRUE]
      OBVIOUS
    <2>1. d \in ConnStates
      <3>1. Unused \in ConnStates
        BY UnusedType
      <3>2. PICK d1 \in ConnStates : d1 = [Unused EXCEPT !.st = "connecting"]
        BY Zenon, <3>1, ConnSet
      <3>3. PICK d2 \in ConnStates : d2 = [d1 EXCEPT !.peer = p]
        BY Zenon, <1>4, ConnSet
      <3>4. [d2 EXCEPT !.wtimer = TRUE] \in ConnStates
        BY Zenon, ConnSet
      <3>5. QED
        BY Zenon, <2>d, <3>2, <3>3, <3>4
    <2>2. /\ d.st # "closed" /\ d.srv = Nobody /\ d.rsp = <<>> /\ d.n = 0 /\ d.inq = <<>> /\ d.need = 0
          /\ ~d.rready
      BY <2>d DEF Unused
    <2>3. QED
      BY Zenon, <1>8, <1>9, <2>1, <2>2, <2>d
  <1>10. CASE /\ Connected(I, p, k, FALSE)
              /\ conn' = [conn EXCEPT ![k] = [Unused EXCEPT !.st = "open", !.peer = p, !.wready = TRUE]]
              /\ Run("send", I, "write")
    <2>d. PICK d : d = [Unused EXCEPT !.st = "open", !.peer = p, !.wready = TRUE]
      OBVIOUS
    <2>1. d \in ConnStates
      <3>1. Unused \in ConnStates
        BY UnusedType
      <3>2. PICK d1 \in ConnStates : d1 = [Unused EXCEPT !.st = "open"]
        BY <3>1, ConnSet
      <3>3. PICK d2 \in ConnStates : d2 = [d1 EXCEPT !.peer = p]
        BY Zenon, <1>4, ConnSet
      <3>4. [d2 EXCEPT !.wready = TRUE] \in ConnStates
        BY Zenon, ConnSet
      <3>5. QED
        BY <2>d, <3>2, <3>3, <3>4
    <2>2. /\ d.st # "closed" /\ d.srv = Nobody /\ d.rsp = <<>> /\ d.n = 0 /\ d.inq = <<>> /\ d.need = 0
          /\ ~d.rready
      BY <2>d DEF Unused
    <2>3. QED
      BY Zenon, <1>8, <1>10, <2>1, <2>2, <2>d
  <1>11. QED
    BY Zenon, <1>2, <1>7, <1>9, <1>10

-----------------------------------------------------------------------------
(* An event of a connection that is held by a request.                     *)
LEMMA Owned ==
  ASSUME IInv, NEW k \in Conns, ~InCache(k), conn[k].st # "closed"
  PROVE  /\ ~In(cache, k)
         /\ \E i \in Requests : u[i].conn = k /\ u[i].conn # None /\ Owner(k) = {i}
  <1>1. ~In(cache, k)
    BY DEF In, InCache, Range, IInv, Types
  <1>2. PICK i \in Requests : u[i].conn = k
    BY <1>1 DEF IInv, Holding
  <1>3. u[i].conn # None
    BY <1>2, Nothing
  <1>4. ASSUME NEW j \in Requests, u[j].conn = k PROVE j = i
    BY <1>2, <1>3, <1>4 DEF IInv, Holding
  <1>5. Owner(k) = {i}
    BY <1>2, <1>4 DEF Owner
  <1>6. QED
    BY <1>1, <1>2, <1>3, <1>5

(* The worker rests, so nothing of a request is under way.                 *)
LEMMA Resting ==
  ASSUME IInv, Idle, NEW i \in Requests, u[i].conn # None, NEW c, c = conn[u[i].conn]
  PROVE  /\ at.f = "rest" /\ at.f # "next"
         /\ u[i].conn \in Conns /\ c \in ConnStates /\ c.st # "closed" /\ ConnSound(c)
         /\ u[i] \in UpstreamStates
         /\ u \in [Requests -> UpstreamStates] /\ conn \in [Conns -> ConnStates]
         /\ got \in [Requests -> Seq(AnswerPieces)] /\ got[i] \in Seq(AnswerPieces)
         /\ BaseSound(i, u[i], got[i], at) /\ ReqSound(i, u[i], c, got[i], at)
         /\ Sending(i, u[i], c)
         /\ u[i].reh = "header" => ~u[i].keepalive /\ ~c.rready
         /\ u[i].reh # "header" => Passing(i, u[i], c, got[i], at)
         /\ u[i].keepalive => c.rready \/ (u[i].left = 0 /\ c.need = 0)
  <1>1. at.f = "rest"
    BY DEF Idle, Rest
  <1>2. Joined(i)
    BY Joint
  <1>3. \A F : "rest" \notin F => ~Runs(at, i, F)
    BY <1>1 DEF Runs
  <1>4. ReqSound(i, u[i], c, got[i], at)
    BY <1>2 DEF Joined
  <1>5. ~Runs(at, i, {"next"}) /\ ~Runs(at, i, {"finalize"})
        /\ ~Runs(at, i, {"header", "respond", "next", "finalize"})
    BY <1>3
  <1>6. /\ Sending(i, u[i], c)
        /\ u[i].reh = "header" => ~u[i].keepalive /\ ~c.rready
        /\ u[i].reh # "header" => Passing(i, u[i], c, got[i], at)
    BY <1>4, <1>5 DEF ReqSound
  <1>7. u[i].keepalive => c.rready \/ (u[i].left = 0 /\ c.need = 0)
    BY Zenon, <1>5, <1>6 DEF Passing
  <1>8. QED
    BY <1>1, <1>2, <1>4, <1>6, <1>7 DEF Joined

(* The state of a connection that no request holds changes, but nothing of *)
(* its exchange.                                                           *)
LEMMA IdleTouched ==
  ASSUME IInv, NEW k \in Conns, NEW d \in ConnStates, d.srv = conn[k].srv, ConnSound(d),
         \/ In(cache, k) /\ d.st # "closed" /\ IdleSound(d)
         \/ conn[k].st = "closed" /\ d.st = "closed",
         conn' = [conn EXCEPT ![k] = d],
         UNCHANGED <<u, conns, cache, exiting, got>>,
         at' = at \/ (at.f = "rest" /\ at'.f = "rest")
  PROVE  IInv'
  <1>1. /\ conn \in [Conns -> ConnStates] /\ cache \in Seq(Conns) /\ Len(cache) <= CacheMax
        /\ Distinct(cache) /\ exiting \in BOOLEAN /\ (exiting => cache = <<>>)
    BY DEF IInv, Types, Holding
  <1>2. /\ conn' \in [Conns -> ConnStates] /\ conn'[k] = d
        /\ \A m \in Conns : m # k => conn'[m] = conn[m]
    BY <1>1
  <1>3. ASSUME NEW m \in Conns
        PROVE  /\ ConnSound(conn'[m])
               /\ conn'[m].srv = conn[m].srv
               /\ In(cache, m) => IdleSound(conn'[m]) /\ conn'[m].st # "closed"
               /\ conn'[m].st # "closed" =>
                    In(cache, m) \/ \E j \in Requests : u[j].conn = m
    <2>1. /\ ConnSound(conn[m]) /\ (In(cache, m) => IdleSound(conn[m]) /\ conn[m].st # "closed")
          /\ conn[m].st # "closed" => In(cache, m) \/ \E j \in Requests : u[j].conn = m
      BY DEF IInv, ConnsSound, Holding
    <2>2. CASE m = k
      BY <2>1, <2>2, <1>2
    <2>3. CASE m # k
      BY <2>1, <2>3, <1>2
    <2>4. QED
      BY <2>2, <2>3
  <1>4. ASSUME NEW j \in Requests, u[j].conn # None
        PROVE  conn'[u[j].conn] = conn[u[j].conn] /\ ~In(cache, u[j].conn)
    <2>1. ~In(cache, u[j].conn) /\ u[j].conn \in Conns /\ conn[u[j].conn].st # "closed"
      BY <1>4, Joint DEF IInv, Holding, Joined
    <2>2. QED
      BY <2>1, <1>2
  <1>5. cache' = cache /\ exiting' = exiting /\ \A m : In(cache', m) <=> In(cache, m)
    BY DEF In
  <1>6. Requests \ {None} = Requests
    BY Nothing
  <1>7. Places(None, Somebody)
    BY <1>1, <1>2, <1>3, <1>4, <1>5, <1>6 DEF Places, Somebody, Distinct
  <1>8. QED
    BY <1>7, Idled

(* An idle connection is closed.                                           *)
LEMMA IdleClosed ==
  ASSUME IInv, NEW k \in Conns, In(cache, k),
         conn' = Closed(conn, k), cache' = Without(cache, k),
         UNCHANGED <<u, conns, exiting, got>>,
         at' = at \/ (at.f = "rest" /\ at'.f = "rest")
  PROVE  IInv'
  <1>1. /\ conn \in [Conns -> ConnStates] /\ cache \in Seq(Conns) /\ Len(cache) <= CacheMax
        /\ Distinct(cache) /\ exiting \in BOOLEAN /\ (exiting => cache = <<>>)
        /\ Len(cache) \in Nat /\ CacheMax \in Nat
    BY UpstreamAssumption DEF IInv, Types, Holding
  <1>2. /\ conn' \in [Conns -> ConnStates] /\ conn'[k] = Unused
        /\ \A m \in Conns : m # k => conn'[m] = conn[m]
    BY <1>1, UnusedType DEF Closed
  <1>3. /\ cache' \in Seq(Conns) /\ Len(cache') = Len(cache) - 1 /\ Distinct(cache')
        /\ \A x : In(cache', x) <=> In(cache, x) /\ x # k
    BY <1>1, TakenOut
  <1>4. ~exiting
    <2>1. cache # <<>>
      BY <1>1 DEF In
    <2>2. QED
      BY <1>1, <2>1
  <1>5. ASSUME NEW m \in Conns
        PROVE  /\ ConnSound(conn'[m])
               /\ conn'[m].srv = conn[m].srv \/ conn'[m].srv = Nobody
               /\ In(cache', m) => IdleSound(conn'[m]) /\ conn'[m].st # "closed"
               /\ conn'[m].st # "closed" =>
                    In(cache', m) \/ \E j \in Requests : u[j].conn = m
    <2>1. /\ ConnSound(conn[m]) /\ (In(cache, m) => IdleSound(conn[m]) /\ conn[m].st # "closed")
          /\ conn[m].st # "closed" => In(cache, m) \/ \E j \in Requests : u[j].conn = m
      BY DEF IInv, ConnsSound, Holding
    <2>2. CASE m = k
      <3>1. Unused.st = "closed" /\ Unused.srv = Nobody
        BY DEF Unused
      <3>2. QED
        BY <2>2, <3>1, <1>2, <1>3, UnusedType
    <2>3. CASE m # k
      BY <2>1, <2>3, <1>2, <1>3
    <2>4. QED
      BY <2>2, <2>3
  <1>6. ASSUME NEW j \in Requests, u[j].conn # None
        PROVE  conn'[u[j].conn] = conn[u[j].conn] /\ ~In(cache', u[j].conn)
    <2>1. ~In(cache, u[j].conn) /\ u[j].conn \in Conns
      BY <1>6, Joint DEF IInv, Holding, Joined
    <2>2. QED
      BY <2>1, <1>2, <1>3
  <1>7. Len(cache') <= CacheMax /\ exiting' = exiting
    BY <1>1, <1>3
  <1>8. Requests \ {None} = Requests
    BY Nothing
  <1>9. Places(None, Somebody)
    BY <1>1, <1>2, <1>3, <1>4, <1>5, <1>6, <1>7, <1>8 DEF Places, Somebody
  <1>10. QED
    BY <1>9, Idled

(* c and d differ only in what the kernel has to tell of them.             *)
SaysTheSame(c, d) ==
  /\ c.st # "closed" /\ d.st # "closed"
  /\ d.srv = c.srv /\ d.rsp = c.rsp /\ d.n = c.n /\ d.need = c.need /\ d.inq = c.inq
  /\ d.rready = c.rready /\ d.rtimer = c.rtimer /\ d.wtimer = c.wtimer
  /\ d.rtimedout = c.rtimedout /\ d.wtimedout = c.wtimedout /\ (c.fin => d.fin)

(* What a connection shows of the network changes, and nothing is called.  *)
LEMMA Noticed ==
  ASSUME IInv, Idle, NEW k \in Conns, NEW d \in ConnStates, NEW c, c = conn[k],
         SaysTheSame(c, d), conn' = [conn EXCEPT ![k] = d],
         UNCHANGED <<u, conns, cache, exiting, at, got>>
  PROVE  IInv'
  <1> USE DEF SaysTheSame
  <1>1. CASE In(cache, k)
    <2>1. ConnSound(c) /\ IdleSound(c)
      BY <1>1 DEF IInv, ConnsSound
    <2>2. ConnSound(d)
      BY <2>1, SameSound
    <2>3. IdleSound(d)
      BY <2>1 DEF IdleSound, Quiet
    <2>4. QED
      BY Zenon, <1>1, <2>2, <2>3, IdleTouched
  <1>2. CASE ~In(cache, k)
    <2>1. ~InCache(k)
      BY <1>2 DEF In, InCache, Range
    <2>2. PICK i \in Requests : u[i].conn = k /\ u[i].conn # None
      BY <2>1, Owned
    <2>3. /\ at.f = "rest" /\ at'.f = "rest" /\ at.f # "next"
          /\ u[i].reh = "header" => ~u[i].keepalive /\ ~c.rready
          /\ u[i].keepalive => c.rready \/ (u[i].left = 0 /\ c.need = 0)
      BY <2>2, Resting
    <2>4. Ready(i, u[i], d, at')
      BY <2>3 DEF Ready, Runs
    <2>5. /\ c = conn[u[i].conn] /\ conn' = [conn EXCEPT ![u[i].conn] = d]
          /\ UNCHANGED <<u, conns, cache, exiting, got>>
      BY <2>2
    <2>6. QED
      BY ZenonT(120), <2>2, <2>3, <2>4, <2>5, Noted
  <1>3. QED
    BY <1>1, <1>2

-----------------------------------------------------------------------------
(* The events of the connections.                                          *)
LEMMA ConnectionAccepted == ASSUME IInv, NEW k \in Conns, Accepts(k) PROVE IInv'
  <1>c. PICK c : c = conn[k]
    OBVIOUS
  <1>1. conn \in [Conns -> ConnStates] /\ c \in ConnStates /\ c.st = "connecting" /\ Idle
    BY <1>c DEF IInv, Types, Accepts
  <1>2. PICK s \in {"open", "refused"}, b \in BOOLEAN :
          conn' = [conn EXCEPT ![k].st = s, ![k].wnews = TRUE, ![k].rnews = b]
    BY Zenon DEF Accepts
  <1>3. PICK d : d = [c EXCEPT !.st = s, !.wnews = TRUE, !.rnews = b]
    OBVIOUS
  <1>4. conn' = [conn EXCEPT ![k] = d]
    BY <1>1, <1>2, <1>3, <1>c
  <1>5. d \in ConnStates /\ SaysTheSame(c, d)
    BY Zenon, <1>1, <1>3 DEF ConnStates, SaysTheSame
  <1>6. UNCHANGED <<u, conns, cache, exiting, at, got>>
    BY <1>1 DEF Accepts
  <1>7. QED
    BY <1>1, <1>4, <1>5, <1>6, <1>c, Noticed

LEMMA RoomMade == ASSUME IInv, NEW k \in Conns, Room(k) PROVE IInv'
  <1>c. PICK c, d : c = conn[k] /\ d = [conn[k] EXCEPT !.wnews = TRUE]
    BY Zenon
  <1>1. conn \in [Conns -> ConnStates] /\ c \in ConnStates /\ c.st = "open" /\ Idle
    BY <1>c DEF IInv, Types, Room
  <1>4. conn' = [conn EXCEPT ![k] = d]
    BY <1>1, <1>c DEF Room
  <1>5. d \in ConnStates /\ SaysTheSame(c, d)
    BY ZenonT(120), <1>1, <1>c DEF ConnStates, SaysTheSame
  <1>6. UNCHANGED <<u, conns, cache, exiting, at, got>>
    BY <1>1 DEF Room
  <1>7. QED
    BY <1>1, <1>4, <1>5, <1>6, <1>c, Noticed

LEMMA PartAnswered == ASSUME IInv, NEW k \in Conns, AnswerPart(k) PROVE IInv'
  <1>c. PICK c, d : c = conn[k] /\ d = [conn[k] EXCEPT !.rnews = TRUE]
    OBVIOUS
  <1>1. conn \in [Conns -> ConnStates] /\ c \in ConnStates /\ c.st = "open" /\ Idle
    BY <1>c DEF IInv, Types, AnswerPart
  <1>4. conn' = [conn EXCEPT ![k] = d]
    BY <1>1, <1>c DEF AnswerPart
  <1>5. d \in ConnStates /\ SaysTheSame(c, d)
    BY ZenonT(120), <1>1, <1>c DEF ConnStates, SaysTheSame
  <1>6. UNCHANGED <<u, conns, cache, exiting, at, got>>
    BY <1>1 DEF AnswerPart
  <1>7. QED
    BY Zenon, <1>1, <1>4, <1>5, <1>6, <1>c, Noticed

LEMMA ServerClosed == ASSUME IInv, NEW k \in Conns, ServerCloses(k) PROVE IInv'
  <1>c. PICK c, d : c = conn[k] /\ d = [conn[k] EXCEPT !.fin = TRUE, !.rnews = TRUE]
    OBVIOUS
  <1>1. conn \in [Conns -> ConnStates] /\ c \in ConnStates /\ c.st = "open" /\ Idle
    BY <1>c DEF IInv, Types, ServerCloses
  <1>4. conn' = [conn EXCEPT ![k] = d]
    BY Zenon, <1>1, <1>c DEF ServerCloses
  <1>5. d \in ConnStates /\ SaysTheSame(c, d)
    BY ZenonT(120), <1>1, <1>c DEF ConnStates, SaysTheSame
  <1>6. UNCHANGED <<u, conns, cache, exiting, at, got>>
    BY <1>1 DEF ServerCloses
  <1>7. QED
    BY Zenon, <1>1, <1>4, <1>5, <1>6, <1>c, Noticed

(* A handler is called for the request that holds the connection.          *)
LEMMA ReadHandled ==
  ASSUME IInv, Idle, NEW k \in Conns, NEW c, c = conn[k], c.st # "closed", ~InCache(k),
         ReadHandler(k), NEW d \in ConnStates, conn' = [conn EXCEPT ![k] = d],
         d.st # "closed", d.srv = c.srv, d.rsp = c.rsp, d.n = c.n, d.need = c.need,
         d.inq = c.inq, c.fin => d.fin, c.rready => d.rready, d.rready \/ d.rtimedout
  PROVE  IInv'
  <1>1. PICK i \in Requests : u[i].conn = k /\ u[i].conn # None /\ Owner(k) = {i}
    BY Zenon, Owned
  <1>2. /\ at'.i = i /\ UNCHANGED <<u, conns, cache, exiting, got>>
        /\ IF u[i].reh = "direct" THEN at'.f = "direct" /\ at'.v = "read"
           ELSE at'.f = u[i].reh /\ at'.v = "-"
    BY <1>1 DEF ReadHandler, Run
  <1>3. /\ at.f = "rest" /\ at.f # "next" /\ u[i] \in UpstreamStates
        /\ u[i].reh = "header" => ~u[i].keepalive
        /\ u[i].keepalive => c.rready \/ (u[i].left = 0 /\ c.need = 0)
    BY <1>1, Resting
  <1>4. u[i].reh \in {"header", "pipe", "direct", "memory"}
    BY <1>3 DEF UpstreamStates
  <1>5. at'.f = u[i].reh /\ (at'.f = "direct" => at'.v = "read")
    BY <1>2
  <1>6. Ready(i, u[i], d, at')
    BY <1>2, <1>3, <1>4, <1>5 DEF Ready, Runs
  <1>7. c = conn[u[i].conn] /\ conn' = [conn EXCEPT ![u[i].conn] = d]
    BY <1>1
  <1>8. QED
    BY ZenonT(120), <1>1, <1>2, <1>3, <1>6, <1>7, Noted

LEMMA ReadTimedOut == ASSUME IInv, NEW k \in Conns, ReadTimeout(k) PROVE IInv'
  <1>c. PICK c, d : c = conn[k] /\ d = [conn[k] EXCEPT !.rtimer = FALSE, !.rtimedout = TRUE]
    OBVIOUS
  <1>1. conn \in [Conns -> ConnStates] /\ c \in ConnStates /\ Idle /\ ~InCache(k) /\ ReadHandler(k)
    BY <1>c DEF IInv, Types, ReadTimeout
  <1>2. conn' = [conn EXCEPT ![k] = d]
    BY Zenon, <1>1, <1>c DEF ReadTimeout
  <1>3. \E i \in Requests : u[i].conn = k
    BY <1>1 DEF ReadHandler, Owner
  <1>4. c.st # "closed"
    BY <1>3, <1>c DEF IInv, Holding
  <1>5. /\ d \in ConnStates /\ d.st # "closed" /\ d.srv = c.srv /\ d.rsp = c.rsp /\ d.n = c.n
        /\ d.need = c.need /\ d.inq = c.inq /\ (c.fin => d.fin) /\ (c.rready => d.rready)
        /\ d.rready \/ d.rtimedout
    BY ZenonT(120), <1>1, <1>4, <1>c DEF ConnStates
  <1>6. c = conn[k] /\ Idle /\ ~InCache(k) /\ ReadHandler(k)
    BY Zenon, <1>1, <1>c
  <1>7. QED
    BY Zenon, <1>2, <1>4, <1>5, <1>6, ReadHandled

LEMMA ReadSeen == ASSUME IInv, NEW k \in Conns, ReadEvent(k) PROVE IInv'
  <1>c. PICK c, d : c = conn[k] /\ d = [conn[k] EXCEPT !.rready = TRUE, !.rnews = FALSE]
    OBVIOUS
  <1>1. conn \in [Conns -> ConnStates] /\ c \in ConnStates /\ Idle /\ c.st # "closed" /\ ReadHandler(k)
    BY <1>c DEF IInv, Types, ReadEvent
  <1>2. CASE ~InCache(k)
    <2>1. conn' = [conn EXCEPT ![k] = d]
      BY <1>1, <1>2, <1>c DEF ReadEvent
    <2>2. /\ d \in ConnStates /\ d.st # "closed" /\ d.srv = c.srv /\ d.rsp = c.rsp /\ d.n = c.n
          /\ d.need = c.need /\ d.inq = c.inq /\ (c.fin => d.fin) /\ (c.rready => d.rready)
          /\ d.rready \/ d.rtimedout
      BY ZenonT(120), <1>1, <1>c DEF ConnStates
    <2>3. c = conn[k] /\ Idle /\ c.st # "closed" /\ ReadHandler(k)
      BY <1>1, <1>c
    <2>4. QED
      BY Zenon, <1>2, <2>1, <2>2, <2>3, ReadHandled
  <1>3. CASE InCache(k)
    <2>1. In(cache, k)
      BY <1>3 DEF In, InCache, Range, IInv, Types
    <2>2. ConnSound(c) /\ IdleSound(c)
      BY <2>1, <1>c DEF IInv, ConnsSound
    <2>p. PICK cs : cs = [conn EXCEPT ![k] = d]
      OBVIOUS
    <2>3. [conn EXCEPT ![k].rready = TRUE, ![k].rnews = FALSE] = cs
      BY <1>1, <1>c, <2>p
    <2>a. /\ UNCHANGED <<u, conns, exiting, got>> /\ at.f = "rest" /\ at'.f = "rest"
      BY <1>1, <1>3 DEF ReadHandler, Stop, Rest, Idle
    <2>b. /\ conn' = CloseHandler([conn EXCEPT ![k].rready = TRUE, ![k].rnews = FALSE], cache, k).conn
          /\ cache' = CloseHandler([conn EXCEPT ![k].rready = TRUE, ![k].rnews = FALSE], cache, k).cache
      BY <1>1, <1>3 DEF ReadHandler
    <2>4. /\ conn' = CloseHandler(cs, cache, k).conn /\ cache' = CloseHandler(cs, cache, k).cache
          /\ UNCHANGED <<u, conns, exiting, got>> /\ at.f = "rest" /\ at'.f = "rest"
      BY <2>a, <2>b, <2>3
    <2>5. cs[k] = d /\ d.inq = c.inq /\ d.fin = c.fin
      BY <1>1, <1>c, <2>p DEF ConnStates
    <2>6. CASE c.inq = <<>> /\ ~c.fin
      <3>e. PICK e : e = [d EXCEPT !.rready = FALSE]
        OBVIOUS
      <3>1. conn' = [cs EXCEPT ![k].rready = FALSE] /\ cache' = cache
        BY <2>4, <2>5, <2>6 DEF CloseHandler
      <3>2. conn' = [conn EXCEPT ![k] = e]
        BY <1>1, <2>p, <3>1, <3>e
      <3>3. /\ e \in ConnStates /\ e.st # "closed" /\ e.srv = c.srv /\ e.rsp = c.rsp /\ e.n = c.n
            /\ e.need = c.need /\ e.inq = c.inq /\ ~e.rready /\ e.rtimer = c.rtimer
            /\ e.wtimer = c.wtimer /\ e.rtimedout = c.rtimedout /\ e.wtimedout = c.wtimedout
        BY ZenonT(120), <1>1, <1>c, <3>e DEF ConnStates
      <3>4. ConnSound(e)
        BY <2>2, <3>3, SameSound
      <3>5. IdleSound(e)
        BY <2>2, <3>3 DEF IdleSound, Quiet
      <3>6. QED
        BY Zenon, <2>1, <2>4, <3>1, <3>2, <3>3, <3>4, <3>5, <1>c, IdleTouched
    <2>7. CASE ~(c.inq = <<>> /\ ~c.fin)
      <3>1. conn' = Closed(cs, k) /\ cache' = Without(cache, k)
        BY Zenon, <2>4, <2>5, <2>7 DEF CloseHandler
      <3>2. Closed(cs, k) = Closed(conn, k)
        BY Zenon, <1>1, <2>p DEF Closed
      <3>3. QED
        BY <2>1, <2>4, <3>1, <3>2, IdleClosed
    <2>8. QED
      BY <2>6, <2>7
  <1>4. QED
    BY <1>2, <1>3

(* A write handler is called for the request, or there is nothing to do.   *)
LEMMA WriteHandled ==
  ASSUME IInv, Idle, NEW k \in Conns, NEW c, c = conn[k], c.st # "closed", ~InCache(k),
         WriteHandler(k), NEW d \in ConnStates, conn' = [conn EXCEPT ![k] = d],
         d.st # "closed", d.srv = c.srv, d.rsp = c.rsp, d.n = c.n, d.need = c.need,
         d.inq = c.inq, c.fin => d.fin, d.rready = c.rready
  PROVE  IInv'
  <1>1. PICK i \in Requests : u[i].conn = k /\ u[i].conn # None /\ Owner(k) = {i}
    BY Owned
  <1>2. UNCHANGED <<u, conns, cache, exiting, got>>
    BY DEF WriteHandler
  <1>3. /\ at.f = "rest" /\ at.f # "next"
        /\ u[i].reh = "header" => ~u[i].keepalive /\ ~c.rready
        /\ u[i].keepalive => c.rready \/ (u[i].left = 0 /\ c.need = 0)
    BY <1>1, Resting
  <1>4. at'.f = "rest" \/ (at'.f = "sendhandler" /\ at'.i = i)
    BY <1>1 DEF WriteHandler, Run, Stop, Rest
  <1>5. Ready(i, u[i], d, at')
    BY <1>3, <1>4 DEF Ready, Runs
  <1>6. c = conn[u[i].conn] /\ conn' = [conn EXCEPT ![u[i].conn] = d]
    BY <1>1
  <1>7. at.f = "rest" \/ at.i = i
    BY <1>3
  <1>8. at'.f = "rest" \/ at'.i = i
    BY <1>4
  <1>9. QED
    BY ZenonT(120), <1>1, <1>2, <1>3, <1>5, <1>6, <1>7, <1>8, Noted

LEMMA WriteSeen == ASSUME IInv, NEW k \in Conns, WriteEvent(k) PROVE IInv'
  <1>c. PICK c, d : c = conn[k] /\ d = [conn[k] EXCEPT !.wready = TRUE, !.wnews = FALSE]
    OBVIOUS
  <1>1. conn \in [Conns -> ConnStates] /\ c \in ConnStates /\ c.st # "closed" /\ Idle
    BY <1>c DEF IInv, Types, WriteEvent
  <1>2. conn' = [conn EXCEPT ![k] = d]
    BY Zenon, <1>1, <1>c DEF WriteEvent
  <1>3. /\ d \in ConnStates /\ d.st # "closed"
        /\ d.srv = c.srv /\ d.rsp = c.rsp /\ d.n = c.n /\ d.need = c.need /\ d.inq = c.inq
        /\ d.rready = c.rready /\ d.rtimer = c.rtimer /\ d.wtimer = c.wtimer
        /\ d.rtimedout = c.rtimedout /\ d.wtimedout = c.wtimedout /\ (c.fin => d.fin)
    BY ZenonT(120), <1>1, <1>c DEF ConnStates
  <1>4. WriteHandler(k) /\ c = conn[k]
    BY <1>c DEF WriteEvent
  <1>5. CASE ~InCache(k)
    BY Zenon, <1>1, <1>2, <1>3, <1>4, <1>5, WriteHandled
  <1>6. CASE InCache(k)
    <2>1. UNCHANGED <<u, conns, cache, exiting, at, got>>
      BY Zenon, <1>1, <1>4, <1>6 DEF WriteHandler, Stop, Idle
    <2>2. d \in ConnStates /\ SaysTheSame(c, d)
      BY <1>1, <1>3 DEF SaysTheSame
    <2>3. QED
      BY Zenon, <1>1, <1>2, <1>4, <2>1, <2>2, Noticed
  <1>7. QED
    BY <1>5, <1>6

LEMMA WriteTimedOut == ASSUME IInv, NEW k \in Conns, WriteTimeout(k) PROVE IInv'
  <1>c. PICK c, d : c = conn[k] /\ d = [conn[k] EXCEPT !.wtimer = FALSE, !.wtimedout = TRUE]
    OBVIOUS
  <1>1. conn \in [Conns -> ConnStates] /\ c \in ConnStates /\ c.wtimer /\ Idle
    BY <1>c DEF IInv, Types, WriteTimeout
  <1>2. conn' = [conn EXCEPT ![k] = d]
    BY Zenon, <1>1, <1>c DEF WriteTimeout
  <1>3. WriteHandler(k) /\ c = conn[k]
    BY <1>c DEF WriteTimeout
  <1>4. ~InCache(k)
    <2>1. ~In(cache, k)
      BY <1>1, <1>3 DEF IInv, ConnsSound, IdleSound
    <2>2. QED
      BY <2>1 DEF In, InCache, Range
  <1>5. CASE c.st # "closed"
    <2>1. /\ d \in ConnStates /\ d.st # "closed"
          /\ d.srv = c.srv /\ d.rsp = c.rsp /\ d.n = c.n /\ d.need = c.need /\ d.inq = c.inq
          /\ d.rready = c.rready /\ (c.fin => d.fin)
      BY ZenonT(120), <1>1, <1>5, <1>c DEF ConnStates
    <2>2. QED
      BY Zenon, <1>1, <1>2, <1>3, <1>4, <1>5, <2>1, WriteHandled
  <1>6. CASE c.st = "closed"
    <2>1. Owner(k) = {}
      BY Zenon, <1>6, <1>c DEF IInv, Holding, Owner
    <2>2. UNCHANGED <<u, conns, cache, exiting, at, got>>
      BY Zenon, <1>1, <1>3, <2>1 DEF WriteHandler, Stop, Idle
    <2>3. /\ d \in ConnStates /\ d.st = "closed"
          /\ d.srv = c.srv /\ d.rsp = c.rsp /\ d.n = c.n /\ d.inq = c.inq
      BY ZenonT(120), <1>1, <1>6, <1>c DEF ConnStates
    <2>4. ConnSound(d)
      <3>1. ConnSound(c)
        BY Zenon, <1>c DEF IInv, ConnsSound
      <3>2. QED
        BY <2>3, <3>1, SameSound
    <2>5. QED
      BY Zenon, <1>2, <1>3, <1>6, <2>2, <2>3, <2>4, IdleTouched
  <1>7. QED
    BY <1>5, <1>6

-----------------------------------------------------------------------------
(* What the clients do.                                                    *)
LEMMA Connectedly ==
  ASSUME IInv, Idle, NEW i \in Requests, u[i].st = "running"
  PROVE  u[i].conn # None
  BY DEF IInv, Control, Idle, Rest

(* The request gets w, which differs in its error or in reading, and the   *)
(* worker runs something of it or nothing.                                 *)
LEMMA ClientDid ==
  ASSUME IInv, Idle, NEW i \in Requests, u[i].st = "running",
         NEW e \in BOOLEAN, NEW r \in BOOLEAN, r => u[i].reading,
         u' = [u EXCEPT ![i] = [u[i] EXCEPT !.error = e, !.reading = r]],
         at'.f = "rest" \/ (at'.i = i /\ at'.f \in {"send", "finalize"} /\ at'.v # "0"),
         UNCHANGED <<conn, conns, cache, exiting, got>>
  PROVE  IInv'
  <1>p. PICK v, c, w, w1 :
          v = u[i] /\ c = conn[u[i].conn] /\ w1 = [v EXCEPT !.error = e]
          /\ w = [w1 EXCEPT !.reading = r]
    BY Zenon
  <1>1. u[i].conn # None
    BY Connectedly
  <1>2. /\ at.f = "rest" /\ at.f # "next" /\ u[i].conn \in Conns /\ c \in ConnStates
        /\ c.st # "closed" /\ v \in UpstreamStates
        /\ u \in [Requests -> UpstreamStates] /\ conn \in [Conns -> ConnStates]
        /\ v.reh = "header" => ~v.keepalive /\ ~c.rready
        /\ v.keepalive => c.rready \/ (v.left = 0 /\ c.need = 0)
    BY <1>1, <1>p, Resting
  <1>3. w = [v EXCEPT !.error = e, !.reading = r]
    BY <1>p
  <1>4. w \in UpstreamStates
    <2>1. w1 \in UpstreamStates
      BY Zenon, <1>2, <1>p, UpstreamSet
    <2>2. QED
      BY Zenon, <2>1, <1>p, UpstreamSet
  <1>5. /\ SameRequest(w, v) /\ w.left = v.left /\ w.request_sent = v.request_sent
        /\ w.body_sent = v.body_sent /\ w.served = v.served
    BY <1>2, <1>3, <1>p DEF UpstreamStates, SameRequest
  <1>6. u' = [u EXCEPT ![i] = w] /\ conn' = [conn EXCEPT ![u[i].conn] = c]
    BY <1>2, <1>3, <1>p
  <1>7. Ready(i, w, c, at')
    <2>1. w.reh = v.reh /\ w.keepalive = v.keepalive
      BY <1>5 DEF SameRequest
    <2>2. QED
      BY <1>2, <1>5, <2>1 DEF Ready, Runs
  <1>8. SameRequest(w, u[i]) /\ w.left = u[i].left /\ (u[i].request_sent => w.request_sent)
        /\ w.body_sent = u[i].body_sent /\ w.served = u[i].served /\ c = conn[u[i].conn]
    BY <1>5, <1>p
  <1>9. at'.f = "rest" \/ at'.i = i
    OBVIOUS
  <1>10. c.srv = c.srv /\ c.rsp = c.rsp /\ c.n = c.n /\ c.need = c.need /\ c.inq = c.inq
         /\ (c.fin => c.fin)
    OBVIOUS
  <1>11. QED
    BY Zenon, <1>1, <1>2, <1>4, <1>6, <1>7, <1>8, <1>9, <1>10, Turned

LEMMA ClientLeft == ASSUME IInv, NEW i \in Requests, ClientLeaves(i) PROVE IInv'
  <1>1. /\ Idle /\ u[i].st = "running" /\ u[i].reading \in BOOLEAN /\ u[i] \in UpstreamStates
        /\ u \in [Requests -> UpstreamStates]
    BY Zenon DEF ClientLeaves, IInv, Types, UpstreamStates
  <1>2. u' = [u EXCEPT ![i] = [u[i] EXCEPT !.error = TRUE, !.reading = u[i].reading]]
    BY Zenon, <1>1 DEF ClientLeaves, UpstreamStates
  <1>3. /\ at'.f = "rest" \/ (at'.i = i /\ at'.f \in {"send", "finalize"} /\ at'.v # "0")
        /\ UNCHANGED <<conn, conns, cache, exiting, got>>
    BY DEF ClientLeaves, Run, Stop, Rest
  <1>4. QED
    BY <1>1, <1>2, <1>3, ClientDid

LEMMA RequestRead == ASSUME IInv, NEW i \in Requests, ReadRequest(i) PROVE IInv'
  <1>1. /\ Idle /\ u[i].st = "running" /\ u[i].reading \in BOOLEAN /\ u[i].error \in BOOLEAN
        /\ u[i] \in UpstreamStates /\ u \in [Requests -> UpstreamStates]
    BY Zenon DEF ReadRequest, IInv, Types, UpstreamStates
  <1>2. \E e \in BOOLEAN, r \in BOOLEAN :
          /\ r => u[i].reading
          /\ u' = [u EXCEPT ![i] = [u[i] EXCEPT !.error = e, !.reading = r]]
    <2>1. CASE u' = [u EXCEPT ![i].reading = FALSE]
      <3>1. u' = [u EXCEPT ![i] = [u[i] EXCEPT !.error = u[i].error, !.reading = FALSE]]
        BY Zenon, <1>1, <2>1 DEF UpstreamStates
      <3>2. QED
        BY <1>1, <3>1
    <2>2. CASE u' = [u EXCEPT ![i].error = TRUE]
      <3>1. u' = [u EXCEPT ![i] = [u[i] EXCEPT !.error = TRUE, !.reading = u[i].reading]]
        BY Zenon, <1>1, <2>2 DEF UpstreamStates
      <3>2. QED
        BY <1>1, <3>1
    <2>3. CASE u' = u
      <3>1. u' = [u EXCEPT ![i] = [u[i] EXCEPT !.error = u[i].error, !.reading = u[i].reading]]
        BY Zenon, <1>1, <2>3 DEF UpstreamStates
      <3>2. QED
        BY <1>1, <3>1
    <2>4. QED
      BY Zenon, <2>1, <2>2, <2>3 DEF ReadRequest
  <1>3. /\ at'.f = "rest" \/ (at'.i = i /\ at'.f \in {"send", "finalize"} /\ at'.v # "0")
        /\ UNCHANGED <<conn, conns, cache, exiting, got>>
    BY DEF ReadRequest, Run
  <1>4. QED
    BY <1>1, <1>2, <1>3, ClientDid

LEMMA ClientWrote == ASSUME IInv, NEW i \in Requests, ClientWritable(i) PROVE IInv'
  <1>p. PICK v, c : v = u[i] /\ c = conn[u[i].conn]
    OBVIOUS
  <1>1. u[i].conn # None /\ Idle
    BY Connectedly DEF ClientWritable
  <1>2. /\ at.f = "rest" /\ at.f # "next" /\ ReqSound(i, v, c, got[i], at)
        /\ v.reh = "header" => ~v.keepalive /\ ~c.rready
        /\ v.keepalive => c.rready \/ (v.left = 0 /\ c.need = 0)
    BY <1>1, <1>p, Resting
  <1>3. v.reh = "direct" \/ (v.again /\ v.reh = "header")
    BY <1>2, <1>p DEF ClientWritable, ReqSound
  <1>4. /\ \/ at'.f = "direct" /\ at'.v = "write"
           \/ at'.f = "finalize" /\ at'.v = "408"
        /\ at'.i = i
    BY DEF ClientWritable, Run
  <1>5. Ready(i, v, c, at')
    BY <1>2, <1>3, <1>4 DEF Ready, Runs
  <1>6. UNCHANGED <<u, conn, conns, cache, exiting, got>>
    BY DEF ClientWritable
  <1>7. QED
    BY <1>1, <1>2, <1>4, <1>5, <1>6, <1>p, Decided

-----------------------------------------------------------------------------
(* A piece of an answer is sent.                                           *)
More(c, d, a) ==
  /\ d \in ConnStates /\ d.st = c.st /\ d.srv = c.srv /\ d.rsp = <<a>> /\ d.n = c.n + 1
  /\ d.need = c.need /\ d.fin = c.fin /\ d.rready = c.rready /\ d.eof = c.eof
  /\ d.inq = Append(c.inq, [to |-> c.srv.to, x |-> c.srv.x, n |-> c.n, rsp |-> a])
  /\ a \in Answers /\ c.rsp \in {<<>>, <<a>>} /\ c.n <= a.body /\ c.srv # Nobody

LEMMA MoreSound ==
  ASSUME NEW c \in ConnStates, NEW d, NEW a, More(c, d, a), ConnSound(c),
         c.srv.to \in Requests
  PROVE  ConnSound(d) /\ ReadOf(d) = ReadOf(c)
  <1>p. PICK q, e, n : q = c.inq /\ n = c.n
                       /\ e = [to |-> c.srv.to, x |-> c.srv.x, n |-> c.n, rsp |-> a]
    OBVIOUS
  <1>1. /\ q \in Seq(AnswerPieces) /\ n \in Nat /\ Len(q) \in Nat /\ a.body \in Nat
        /\ n <= a.body /\ c.srv \in Exchanges
    <2>1. a \in Answers
      BY DEF More
    <2>2. a.body \in Nat
      BY <2>1, UpstreamAssumption
    <2>3. q \in Seq(AnswerPieces) /\ n \in Nat /\ Len(q) \in Nat /\ c.srv \in Exchanges
      BY <1>p DEF ConnStates
    <2>4. n <= a.body
      BY <1>p DEF More
    <2>5. QED
      BY <2>2, <2>3, <2>4
  <1>2. e \in AnswerPieces
    <2>1. a \in Answers /\ c.srv.x \in Nat /\ c.n \in Nat
      BY <1>1, <1>p DEF More, Exchanges
    <2>2. QED
      BY <2>1, <1>p DEF AnswerPieces
  <1>3. d.inq = Append(q, e) /\ d.n = n + 1 /\ d.rsp = <<a>> /\ d.srv = c.srv
    BY <1>p DEF More
  <1>4. /\ Len(d.inq) = Len(q) + 1
        /\ \A j \in 1..Len(q) : d.inq[j] = q[j]
        /\ d.inq[Len(q) + 1] = e
    BY <1>1, <1>2, <1>3
  <1>5. Len(q) <= n /\ \A j \in 1..Len(q) : q[j] = PieceOf(d, n - Len(q) + j - 1)
    <2>1. c.rsp \in {<<>>, <<a>>}
      BY DEF More
    <2>2. CASE c.rsp = <<>>
      <3>1. n = 0 /\ q = <<>>
        BY <2>2, <1>p DEF ConnSound
      <3>2. QED
        BY <3>1
    <2>3. CASE c.rsp = <<a>>
      <3>1. c.rsp # <<>> /\ c.rsp[1] = a
        BY <2>3
      <3>2. Len(q) <= n /\ \A j \in 1..Len(q) : q[j] = PieceOf(c, n - Len(q) + j - 1)
        BY <3>1, <1>p DEF ConnSound
      <3>3. \A m : PieceOf(d, m) = PieceOf(c, m)
        BY <3>1, <1>3 DEF PieceOf
      <3>4. QED
        BY <3>2, <3>3
    <2>4. QED
      BY <2>1, <2>2, <2>3
  <1>6. e = PieceOf(d, n)
    BY <1>3, <1>p DEF PieceOf
  <1>7. \A j \in 1..Len(d.inq) : d.inq[j] = PieceOf(d, d.n - Len(d.inq) + j - 1)
    <2>1. SUFFICES ASSUME NEW j \in 1..(Len(q) + 1)
                   PROVE  d.inq[j] = PieceOf(d, (n + 1) - (Len(q) + 1) + j - 1)
      BY <1>3, <1>4
    <2>2. (n + 1) - (Len(q) + 1) + j - 1 = n - Len(q) + j - 1
      BY <1>1
    <2>3. CASE j \in 1..Len(q)
      BY <2>2, <2>3, <1>4, <1>5
    <2>4. CASE j = Len(q) + 1
      <3>1. n - Len(q) + j - 1 = n
        BY <2>4, <1>1
      <3>2. QED
        BY <2>2, <2>4, <3>1, <1>4, <1>6
    <2>5. QED
      BY <2>3, <2>4, <1>1
  <1>8. ReadOf(d) = ReadOf(c)
    <2>1. (n + 1) - (Len(q) + 1) = n - Len(q)
      BY <1>1
    <2>2. ReadOf(d) = (n + 1) - (Len(q) + 1)
      BY <1>3, <1>4 DEF ReadOf
    <2>3. ReadOf(c) = n - Len(q)
      BY <1>p DEF ReadOf
    <2>4. QED
      BY <2>1, <2>2, <2>3
  <1>9. ConnSound(d)
    <2>1. d.rsp # <<>> /\ d.rsp = <<d.rsp[1]>> /\ d.rsp[1] = a /\ d.srv # Nobody
      BY <1>3 DEF More
    <2>2. d.n \in 1..(1 + d.rsp[1].body) /\ Len(d.inq) <= d.n
      BY <2>1, <1>1, <1>3, <1>4, <1>5
    <2>3. QED
      BY <2>1, <2>2, <1>7 DEF ConnSound
  <1>10. QED
    BY <1>8, <1>9

LEMMA AnswerSent == ASSUME IInv, NEW k \in Conns, Answer(k) PROVE IInv'
  <1>c. PICK c : c = conn[k]
    OBVIOUS
  <1>1. /\ conn \in [Conns -> ConnStates] /\ c \in ConnStates /\ c.st = "open" /\ Idle
        /\ ConnSound(c) /\ c.srv # Nobody
        /\ UNCHANGED <<u, conns, cache, exiting, at, got>>
    BY <1>c DEF IInv, Types, ConnsSound, Answer
  <1>2. PICK a \in Answers :
          /\ c.rsp \in {<<>>, <<a>>} /\ c.n <= a.body
          /\ conn' = [conn EXCEPT
               ![k].rsp = <<a>>, ![k].n = @ + 1, ![k].rnews = TRUE,
               ![k].inq = Append(@, [to |-> c.srv.to, x |-> c.srv.x, n |-> c.n, rsp |-> a])]
    BY Zenon, <1>c DEF Answer
  <1>d. PICK d, rsp, n, q :
          /\ d = [c EXCEPT !.rsp = rsp, !.n = n, !.rnews = TRUE, !.inq = q]
          /\ rsp = <<a>> /\ n = c.n + 1
          /\ q = Append(c.inq, [to |-> c.srv.to, x |-> c.srv.x, n |-> c.n, rsp |-> a])
    OBVIOUS
  <1>3. conn' = [conn EXCEPT ![k] = d]
    BY Zenon, <1>1, <1>2, <1>c, <1>d
  <1>q. ~Quiet(c)
    <2>1. a.body \in Nat /\ c.n \in Nat
      BY <1>1, UpstreamAssumption DEF ConnStates
    <2>2. c.n # 1 + a.body
      BY <1>2, <2>1
    <2>3. c.rsp # <<>> => c.rsp[1] = a
      BY <1>2
    <2>4. QED
      BY <1>1, <2>2, <2>3 DEF Quiet
  <1>4. ~In(cache, k)
    BY <1>q, <1>c DEF IInv, ConnsSound, IdleSound
  <1>5. PICK i \in Requests : u[i].conn = k /\ u[i].conn # None
    <2>1. ~InCache(k)
      BY <1>4 DEF In, InCache, Range
    <2>2. c.st # "closed"
      BY <1>1
    <2>3. QED
      BY <2>1, <2>2, <1>c, Owned
  <1>v. PICK v, g : v = u[i] /\ g = got[i]
    OBVIOUS
  <1>6. /\ v \in UpstreamStates /\ g \in Seq(AnswerPieces)
        /\ u \in [Requests -> UpstreamStates] /\ got \in [Requests -> Seq(AnswerPieces)]
        /\ BaseSound(i, v, g, at) /\ ReqSound(i, v, c, g, at) /\ Sending(i, v, c)
        /\ v.reh = "header" => ~v.keepalive /\ ~c.rready
        /\ v.reh # "header" => Passing(i, v, c, g, at)
        /\ at.f = "rest"
    BY <1>1, <1>5, <1>c, <1>v, Resting
  <1>7. Current(i, v, c) /\ c.srv.to \in Requests
    <2>1. Current(i, v, c)
      BY <1>6, <1>q DEF Sending
    <2>2. QED
      BY <2>1 DEF Current
  <1>8. q \in Seq(AnswerPieces) /\ n \in Nat /\ rsp \in Seq(Answers)
    <2>1. c.inq \in Seq(AnswerPieces) /\ c.n \in Nat /\ c.srv.x \in Nat
      BY <1>1 DEF ConnStates, Exchanges
    <2>2. [to |-> c.srv.to, x |-> c.srv.x, n |-> c.n, rsp |-> a] \in AnswerPieces
      BY <2>1, <1>7 DEF AnswerPieces
    <2>3. QED
      BY <2>1, <2>2, <1>d
  <1>9. d \in ConnStates
    <2>1. PICK d1 \in ConnStates : d1 = [c EXCEPT !.rsp = rsp]
      BY Zenon, <1>1, <1>8, ConnSet
    <2>2. PICK d2 \in ConnStates : d2 = [d1 EXCEPT !.n = n]
      BY Zenon, <1>8, ConnSet
    <2>3. PICK d3 \in ConnStates : d3 = [d2 EXCEPT !.rnews = TRUE]
      BY Zenon, ConnSet
    <2>4. [d3 EXCEPT !.inq = q] \in ConnStates
      BY Zenon, <1>8, ConnSet
    <2>5. QED
      BY <2>1, <2>2, <2>3, <2>4, <1>d
  <1>10. /\ d.st = c.st /\ d.srv = c.srv /\ d.rsp = rsp /\ d.n = n /\ d.need = c.need
         /\ d.fin = c.fin /\ d.rready = c.rready /\ d.eof = c.eof /\ d.inq = q
         /\ d.rtimedout = c.rtimedout
    BY <1>1, <1>d DEF ConnStates
  <1>11. More(c, d, a)
    BY <1>1, <1>2, <1>9, <1>10, <1>d DEF More
  <1>12. ConnSound(d) /\ ReadOf(d) = ReadOf(c)
    BY <1>1, <1>7, <1>11, MoreSound
  <1>13. Sending(i, v, d)
    BY <1>6, <1>7, <1>10 DEF Sending, Current
  <1>14. Passing(i, v, c, g, at) => Passing(i, v, d, g, at)
    <2> SUFFICES ASSUME Passing(i, v, c, g, at) PROVE Passing(i, v, d, g, at)
      OBVIOUS
    <2>1. Headed(i, v, c) /\ c.rsp # <<>>
      BY DEF Passing, Headed
    <2>2. d.rsp = c.rsp
      BY <2>1, <1>2, <1>10, <1>d
    <2>3. Headed(i, v, d)
      BY <2>1, <2>2, <1>7, <1>10, <1>12 DEF Headed, Current
    <2>4. \A m : PieceOf(d, m) = PieceOf(c, m)
      BY <2>2, <1>10 DEF PieceOf
    <2>5. QED
      BY <2>2, <2>3, <2>4, <1>10, <1>12 DEF Passing
  <1>15. \A F : "rest" \notin F => ~Runs(at, i, F)
    BY <1>6 DEF Runs
  <1>16. ReqSound(i, v, d, g, at)
    <2>1. /\ v.reh = "header" => ~v.keepalive /\ ~d.rready
          /\ v.reh # "header" => Passing(i, v, d, g, at)
      BY <1>6, <1>10, <1>14
    <2>2. /\ ~Runs(at, i, {"header"}) /\ ~Runs(at, i, {"header", "memory"})
          /\ ~Runs(at, i, {"respond"}) /\ ~Runs(at, i, {"pipe", "memory"})
          /\ ~Runs(at, i, {"direct"}) /\ ~Runs(at, i, {"next"})
      BY <1>15
    <2>3. /\ v.wtimer => v.reh = "direct" \/ (v.again /\ v.reh = "header")
          /\ v.reh \in {"pipe", "direct"} => v.header_sent
      BY <1>6 DEF ReqSound
    <2>4. QED
      BY <2>1, <2>2, <2>3, <1>13 DEF ReqSound
  <1>17. /\ u' = [u EXCEPT ![i] = v] /\ got' = [got EXCEPT ![i] = g]
         /\ conn' = [conn EXCEPT ![u[i].conn] = d] /\ at' = at
         /\ UNCHANGED <<conns, cache, exiting>>
    BY <1>1, <1>3, <1>5, <1>6, <1>v
  <1>18. /\ v.st = u[i].st /\ v.conn = u[i].conn /\ v.peer = u[i].peer /\ v.x = u[i].x
         /\ d.st # "closed" /\ d.srv = conn[u[i].conn].srv
    BY <1>1, <1>5, <1>10, <1>c, <1>v
  <1>19. BaseSound(i, v, g, at') /\ ReqSound(i, v, d, g, at') /\ at'.f = "rest"
    BY <1>6, <1>16, <1>17
  <1>20. QED
    BY Zenon, <1>5, <1>6, <1>9, <1>12, <1>17, <1>18, <1>19, Stepped

(* Every idle connection is closed.                                        *)
LEMMA WorkerLeaves == ASSUME IInv, Exiting PROVE IInv'
  <1>1. /\ conn \in [Conns -> ConnStates] /\ cache \in Seq(Conns) /\ at.f = "rest"
        /\ UNCHANGED <<u, conns, at, got>> /\ cache' = <<>> /\ exiting' = TRUE
    BY DEF IInv, Types, Exiting, Idle, Rest
  <1>2. \A k \in Conns : InCache(k) <=> In(cache, k)
    BY <1>1 DEF In, InCache, Range
  <1>3. /\ conn' \in [Conns -> ConnStates]
        /\ \A m \in Conns : conn'[m] = IF In(cache, m) THEN Unused ELSE conn[m]
    BY <1>1, <1>2, UnusedType DEF Exiting
  <1>4. \A x : ~In(cache', x)
    BY <1>1 DEF In
  <1>5. ASSUME NEW m \in Conns
        PROVE  /\ ConnSound(conn'[m])
               /\ conn'[m].srv = conn[m].srv \/ conn'[m].srv = Nobody
               /\ conn'[m].st # "closed" => \E j \in Requests : u[j].conn = m
    <2>1. /\ ConnSound(conn[m])
          /\ conn[m].st # "closed" => In(cache, m) \/ \E j \in Requests : u[j].conn = m
      BY DEF IInv, ConnsSound, Holding
    <2>2. Unused.st = "closed" /\ Unused.srv = Nobody
      BY DEF Unused
    <2>3. QED
      BY <2>1, <2>2, <1>3, UnusedType
  <1>6. ASSUME NEW j \in Requests, u[j].conn # None PROVE conn'[u[j].conn] = conn[u[j].conn]
    <2>1. ~In(cache, u[j].conn) /\ u[j].conn \in Conns
      BY <1>6, Joint DEF IInv, Holding, Joined
    <2>2. QED
      BY <2>1, <1>3
  <1>7. /\ <<>> \in Seq(Conns) /\ Len(<<>>) <= CacheMax /\ Distinct(<<>>)
    BY UpstreamAssumption DEF Distinct
  <1>8. Requests \ {None} = Requests
    BY Nothing
  <1>9. Places(None, Somebody)
    BY <1>1, <1>3, <1>4, <1>5, <1>6, <1>7, <1>8 DEF Places, Somebody
  <1>10. QED
    BY <1>1, <1>9, Idled

-----------------------------------------------------------------------------
LEMMA Initially == Init => IInv
  <1> SUFFICES ASSUME Init PROVE IInv
    OBVIOUS
  <1>1. PICK mix \in Mixes : u = [i \in Requests |-> NewUpstream(mix[i])]
    BY DEF Init
  <1>2. \A i \in Requests : mix[i] \in Kinds
    BY UpstreamAssumption DEF Kinds
  <1>3. /\ u \in [Requests -> UpstreamStates]
        /\ \A i \in Requests : u[i] = NewUpstream(mix[i])
    BY <1>1, <1>2, NewType
  <1>4. /\ conn = [k \in Conns |-> Unused] /\ conns = [p \in Peers |-> 0] /\ cache = <<>>
        /\ exiting = FALSE /\ at.f = "rest" /\ got = [i \in Requests |-> <<>>]
    BY DEF Init, Rest
  <1>5. ASSUME NEW i \in Requests
        PROVE  /\ u[i].st = "new" /\ u[i].conn = None /\ u[i].peer = None /\ u[i].served = {}
               /\ ~u[i].header_sent /\ u[i].busy = <<>> /\ ~u[i].wtimer /\ ~u[i].down
               /\ ~u[i].keepalive
    BY <1>3 DEF NewUpstream
  <1>6. /\ \A k \in Conns : conn[k] = Unused
        /\ Unused.st = "closed" /\ Unused.srv.to = None
    BY <1>4 DEF Unused, Nobody, None
  <1>7. Types
    <2>1. <<>> \in Seq(Conns) /\ Len(<<>>) <= CacheMax /\ <<>> \in Seq(AnswerPieces)
      BY UpstreamAssumption
    <2>2. conns \in [Peers -> Int]
      BY <1>4
    <2>3. conn \in [Conns -> ConnStates] /\ got \in [Requests -> Seq(AnswerPieces)]
      BY <1>4, <2>1, UnusedType
    <2>4. QED
      BY Zenon, <1>3, <1>4, <2>1, <2>2, <2>3 DEF Types
  <1>8. Control
    BY <1>4, <1>5 DEF Control
  <1>9. Holding
    <2>1. \A x : ~In(cache, x)
      BY <1>4 DEF In
    <2>2. \A k \in Conns : k # None
      BY Nothing
    <2>3. QED
      BY <1>4, <1>5, <1>6, <2>1, <2>2 DEF Holding, Distinct
  <1>10. ConnsExact
    <2>1. ASSUME NEW p \in Peers PROVE {i \in Requests : u[i].peer = p} = {}
      BY <1>5, Nothing
    <2>2. QED
      BY Zenon, <1>4, <2>1, FS_EmptySet DEF ConnsExact
  <1>11. ConnsSound
    <2>1. \A x : ~In(cache, x)
      BY <1>4 DEF In
    <2>2. \A i \in Requests : i # None
      BY Nothing
    <2>3. QED
      BY <1>6, <2>1, <2>2, UnusedType DEF ConnsSound
  <1>12. Exchange
    <2>1. ASSUME NEW i \in Requests PROVE BaseSound(i, u[i], got[i], at)
      <3>1. got[i] = <<>> /\ u[i].busy = <<>>
        BY <1>4, <1>5
      <3>2. got[i] \o u[i].busy = <<>>
        BY <3>1
      <3>3. OneAnswer(i, got[i] \o u[i].busy)
        BY <3>2 DEF OneAnswer
      <3>4. ~Runs(at, i, {"finalize"}) /\ ~Runs(at, i, {"connect"})
        BY <1>4 DEF Runs
      <3>5. QED
        BY <1>5, <3>3, <3>4 DEF BaseSound
    <2>2. QED
      BY <2>1, <1>5 DEF Exchange
  <1>13. QED
    BY <1>7, <1>8, <1>9, <1>10, <1>11, <1>12 DEF IInv

(* Every step keeps the invariant.                                         *)
LEMMA Inductive == IInv /\ [Next]_vars => IInv'
  <1> SUFFICES ASSUME IInv, [Next]_vars PROVE IInv'
    OBVIOUS
  <1>1. CASE Worker
    <2>1. CASE ConnectBusy \/ ConnectCached \/ ConnectNew \/ ConnectFails
      BY <2>1, NoPeer, CachedConnected, NewConnected, ConnectFailed
    <2>2. CASE SendError \/ SendPart \/ SendWaits \/ SendDone \/ SendHandler
      BY <2>2, SendFailed, SentPart, SentWaiting, SentAll, SendHandled
    <2>3. CASE HeaderFails \/ HeaderAgain \/ ProcessHeader
      BY <2>3, HeaderFailed, HeaderAwaited, HeaderProcessed
    <2>4. CASE RespondFails \/ SendResponsePipe \/ SendResponseDirect \/ RespondInMemory
      BY <2>4, RespondFailed, PipeResponded, DirectResponded, MemoryResponded
    <2>5. CASE PipeTimeout \/ ProcessUpstream \/ DirectTimeout \/ DirectWrites \/ DirectReads
      BY <2>5, PipeTimedOut, UpstreamProcessed, DirectWritten, DirectRead
    <2>6. CASE BodyInMemory \/ NextUpstream \/ FinalizeRequest
      BY <2>6, TakenToMemory, NextTried, RequestFinalized
    <2>7. QED
      BY <1>1, <2>1, <2>2, <2>3, <2>4, <2>5, <2>6 DEF Worker
  <1>2. ASSUME NEW i \in Requests, InitRequest(i) \/ ClientOf(i) \/ ClientLeaves(i) PROVE IInv'
    BY <1>2, RequestStarted, ClientWrote, RequestRead, ClientLeft DEF ClientOf
  <1>3. ASSUME NEW k \in Conns,
               ReadEvent(k) \/ WriteEvent(k) \/ Timers(k) \/ Accepts(k) \/ Room(k)
                 \/ Answer(k) \/ AnswerPart(k) \/ ServerCloses(k)
        PROVE  IInv'
    <2>1. CASE ReadEvent(k) \/ WriteEvent(k) \/ Timers(k)
      BY <2>1, ReadSeen, WriteSeen, ReadTimedOut, WriteTimedOut DEF Timers
    <2>2. CASE Accepts(k) \/ Room(k) \/ Answer(k) \/ AnswerPart(k) \/ ServerCloses(k)
      BY <2>2, ConnectionAccepted, RoomMade, AnswerSent, PartAnswered, ServerClosed
    <2>3. QED
      BY <1>3, <2>1, <2>2
  <1>4. CASE Exiting
    BY <1>4, WorkerLeaves
  <1>5. CASE UNCHANGED vars
    <2>1. UNCHANGED <<u, conn, conns, cache, exiting, at, got>>
      BY <1>5 DEF vars
    <2>2. UNCHANGED Types /\ UNCHANGED Control /\ UNCHANGED ConnsExact
      BY <2>1 DEF Types, Control, ConnsExact
    <2>3. UNCHANGED Holding
      BY <2>1 DEF Holding, In, Distinct
    <2>4. UNCHANGED ConnsSound
      BY <2>1 DEF ConnsSound, In
    <2>5. UNCHANGED Exchange
      BY <2>1 DEF Exchange
    <2>6. QED
      BY <2>2, <2>3, <2>4, <2>5 DEF IInv
  <1>6. QED
    BY <1>1, <1>2, <1>3, <1>4, <1>5 DEF Next

-----------------------------------------------------------------------------
(* What the invariant says of the properties.                              *)
LEMMA WellTyped == IInv => TypeOK
  <1> SUFFICES ASSUME IInv PROVE TypeOK
    OBVIOUS
  <1>1. \A i \in Requests : u[i] \in UpstreamStates
    BY DEF IInv, Types
  <1>2. ASSUME NEW i \in Requests
        PROVE  /\ u[i].peer \in Peers \cup {None} /\ u[i].conn \in Conns \cup {None}
               /\ u[i].left \in 0..2 /\ u[i].tries \in 0..Cardinality(Peers)
               /\ u[i].st \in {"new", "running", "done"}
    BY <1>1 DEF UpstreamStates
  <1>3. \A k \in Conns : conn[k].st \in {"closed", "connecting", "open", "refused"}
    BY DEF IInv, Types, ConnStates
  <1>4. conns \in [Peers -> Nat]
    <2>1. conns \in [Peers -> Int] /\ \A p \in Peers : conns[p] = Cardinality({i \in Requests : u[i].peer = p})
      BY DEF IInv, Types, ConnsExact
    <2>2. ASSUME NEW p \in Peers PROVE conns[p] \in Nat
      <3>1. IsFiniteSet({i \in Requests : u[i].peer = p})
        BY UpstreamAssumption, FS_Subset
      <3>2. QED
        BY <2>1, <3>1, FS_CardinalityType
    <2>3. QED
      BY <2>1, <2>2
  <1>5. cache \in Seq(Conns) /\ Len(cache) <= CacheMax
    BY DEF IInv, Types
  <1>6. QED
    BY <1>2, <1>3, <1>4, <1>5 DEF TypeOK

LEMMA HeldOnce == IInv => OneHolder
  <1> SUFFICES ASSUME IInv PROVE OneHolder
    OBVIOUS
  <1>1. ASSUME NEW k \in Conns
        PROVE  Cardinality(Owner(k)) + Cardinality({j \in 1..Len(cache) : cache[j] = k})
                 = IF conn[k].st = "closed" THEN 0 ELSE 1
    <2> DEFINE slots == {j \in 1..Len(cache) : cache[j] = k}
    <2>1. CASE conn[k].st = "closed"
      <3>1. Owner(k) = {} /\ slots = {}
        BY <2>1 DEF IInv, Holding, Owner, In
      <3>2. Cardinality(Owner(k)) = 0 /\ Cardinality(slots) = 0
        BY <3>1, FS_EmptySet
      <3>3. QED
        BY <2>1, <3>2
    <2>2. CASE conn[k].st # "closed" /\ In(cache, k)
      <3>1. Owner(k) = {}
        BY <2>2 DEF IInv, Holding, Owner
      <3>2. PICK j \in 1..Len(cache) : cache[j] = k
        BY <2>2 DEF In
      <3>3. slots = {j}
        BY <3>2 DEF IInv, Holding, Distinct
      <3>4. Cardinality(slots) = 1
        BY Zenon, <3>3, FS_Singleton
      <3>5. Cardinality(Owner(k)) = 0
        BY <3>1, FS_EmptySet
      <3>6. QED
        BY <2>2, <3>4, <3>5
    <2>3. CASE conn[k].st # "closed" /\ ~In(cache, k)
      <3>1. ~InCache(k)
        BY <2>3 DEF In, InCache, Range
      <3>2. PICK i \in Requests : Owner(k) = {i}
        BY <2>3, <3>1, Owned
      <3>3. Cardinality(Owner(k)) = 1
        BY <3>2, FS_Singleton
      <3>4. slots = {}
        BY <2>3 DEF In
      <3>5. Cardinality(slots) = 0
        BY <3>4, FS_EmptySet
      <3>6. QED
        BY <2>3, <3>3, <3>5
    <2>4. QED
      BY <2>1, <2>2, <2>3
  <1>2. exiting => cache = <<>>
    BY DEF IInv, Holding
  <1>3. QED
    BY <1>1, <1>2 DEF OneHolder

LEMMA IdleBetween == IInv => IdleAtBoundary
  <1> SUFFICES ASSUME IInv, NEW j \in 1..Len(cache), NEW c, c = conn[cache[j]]
               PROVE  /\ c.need = 0 /\ c.inq = <<>> /\ c.n = 1 + c.rsp[1].body
                      /\ ~c.rtimer /\ ~c.wtimer /\ ~c.rtimedout /\ ~c.wtimedout
    BY Zenon DEF IdleAtBoundary
  <1>1. cache[j] \in Conns /\ In(cache, cache[j])
    BY DEF IInv, Types, In
  <1>2. ConnSound(c) /\ IdleSound(c)
    BY <1>1 DEF IInv, ConnsSound
  <1>3. QED
    BY <1>2 DEF ConnSound, IdleSound, Quiet

LEMMA AnswersOwn == IInv => OwnResponse
  <1> SUFFICES ASSUME IInv, NEW i \in Requests
               PROVE  /\ \A n \in 1..Len(got[i]) :
                           got[i][n].to = i /\ got[i][n].x = got[i][1].x /\ got[i][n].n = n - 1
                      /\ at = [f |-> "finalize", i |-> i, v |-> "0"] /\ u[i].kind.mode # "memory"
                         /\ ~u[i].down /\ ~u[i].again
                           => got[i] # <<>> /\ (got[i][1].rsp.framed => Len(got[i]) = 1 + got[i][1].rsp.body)
    BY DEF OwnResponse
  <1>p. PICK w, g : w = u[i] /\ g = got[i]
    OBVIOUS
  <1>1. BaseSound(i, w, g, at) /\ w \in UpstreamStates /\ g \in Seq(AnswerPieces)
    BY <1>p DEF IInv, Types, Exchange
  <1>2. w.busy \in Seq(AnswerPieces) /\ OneAnswer(i, g \o w.busy)
    BY <1>1 DEF UpstreamStates, BaseSound
  <1>3. /\ Len(g) \in Nat /\ Len(w.busy) \in Nat /\ Len(g \o w.busy) = Len(g) + Len(w.busy)
        /\ \A n \in 1..Len(g) : (g \o w.busy)[n] = g[n]
    BY <1>1, <1>2
  <1>4. ASSUME NEW n \in 1..Len(g) PROVE g[n].to = i /\ g[n].x = g[1].x /\ g[n].n = n - 1
    <2>1. n \in 1..Len(g \o w.busy) /\ 1 \in 1..Len(g)
      BY <1>3
    <2>2. /\ (g \o w.busy)[n].to = i /\ (g \o w.busy)[n].x = (g \o w.busy)[1].x
          /\ (g \o w.busy)[n].n = n - 1
      BY <1>2, <2>1 DEF OneAnswer
    <2>3. QED
      BY <1>3, <2>1, <2>2
  <1>5. at = [f |-> "finalize", i |-> i, v |-> "0"] => Complete(w, g)
    BY <1>1 DEF BaseSound, Runs
  <1>6. QED
    BY Zenon, <1>4, <1>5, <1>p DEF Complete

LEMMA ServedOnce == IInv => AtMostOnce
  <1> SUFFICES ASSUME IInv, NEW i \in Requests, OnceOnly(u[i])
               PROVE  Cardinality(u[i].served) <= 1
    BY DEF AtMostOnce, OnceOnly
  <1>1. u[i].served \subseteq {u[i].x}
    BY Zenon DEF IInv, Exchange, BaseSound
  <1>2. u[i].served = {} \/ u[i].served = {u[i].x}
    BY <1>1
  <1>3. Cardinality({}) = 0 /\ Cardinality({u[i].x}) = 1
    BY Zenon, FS_EmptySet, FS_Singleton
  <1>4. CASE u[i].served = {}
    BY <1>3, <1>4
  <1>5. CASE u[i].served = {u[i].x}
    BY <1>3, <1>5
  <1>6. QED
    BY <1>2, <1>4, <1>5

-----------------------------------------------------------------------------
(* The invariant holds in every state.                                     *)
LEMMA Always == Spec => []IInv
  BY Initially, Inductive, PTL DEF Spec

(* Peers are counted and connections have one holder, whatever errors,     *)
(* timeouts and retries there are: ngx_http_upstream_next(),               *)
(* ngx_http_upstream_finalize_request() and the keepalive module give back *)
(* exactly what ngx_http_upstream_connect() took, and an idle connection   *)
(* has nothing of the last request left.                                   *)
THEOREM Held == Spec => []HoldersExact
  <1>1. IInv => HoldersExact
    BY WellTyped, HeldOnce, IdleBetween DEF IInv, HoldersExact
  <1>2. QED
    BY <1>1, Always, PTL

(* A client gets the pieces of one answer to its own request, in order and *)
(* from the first, and all of them when the request ends well.             *)
THEOREM Own == Spec => []OwnResponse
  BY AnswersOwn, Always, PTL

(* The tests of ngx_http_upstream_next() send a request that must not be   *)
(* repeated to one server at most.                                         *)
THEOREM Once == Spec => []AtMostOnce
  BY ServedOnce, Always, PTL
=============================================================================
