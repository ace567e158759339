---------------------------- MODULE MasterProofs ----------------------------
(***************************************************************************)
(* The master knows every process it has started, whatever dies, fails or  *)
(* is asked of it, and leaves only after them: NobodyLost of Master, for   *)
(* any number of workers, slots, signals and faults.                       *)
(***************************************************************************)
EXTENDS Master, FiniteSetTheorems, WellFoundedInduction, TLAPS

Kinds == {"none", "worker", "manager", "loader", "binary"}
Entries ==
  [pid : Pids \cup {None}, exited : BOOLEAN, exiting : BOOLEAN, detached : BOOLEAN,
   respawn : BOOLEAN, just : BOOLEAN, chan : Pids \cup {None}, kind : Kinds]
Children ==
  [state : {"none", "run", "zombie", "fatal", "gone"}, kind : Kinds,
   told : SUBSET {"term", "kill", "quit"}]
Spawning == {"workers", "manager", "loader"}
Points ==
  Spawning \cup {"suspend", "wake", "reap", "decide", "told", "restart", "reopen", "binary",
                 "noaccept", "exited"}

Table ==
  /\ proc \in [Slots -> Entries] /\ last \in 0..MaxProcs /\ child \in [Pids -> Children]
Course ==
  /\ live \in BOOLEAN /\ alive \in BOOLEAN /\ i \in Nat \ {0} /\ pc \in Points
  /\ extra \in Nat /\ style \in {"respawn", "just_respawn"}
  /\ ret \in {"suspend", "told", "reopen"}

(* A process that nobody has collected yet: it has its pid. *)
There(p) == child[p].state \in {"run", "zombie", "fatal"}

(* Every process is in the table, and a slot is that of one process; a slot *)
(* is marked when its process is gone, and knows what it runs.              *)
Placed == \A p \in Pids : There(p) => \E s \in InTable : proc[s].pid = p
Alone == \A s, t \in InTable : proc[s].pid = proc[t].pid => s = t
Marked ==
  \A s \in InTable :
    /\ proc[s].exited => child[proc[s].pid].state = "gone"
    /\ proc[s].detached => proc[s].kind = "binary"
    /\ There(proc[s].pid) => child[proc[s].pid].kind = proc[s].kind

(* A slot with nobody the master waits for.  While the table is searched    *)
(* those below i are such slots, unless one was found; and then live is     *)
(* unset as long as all of them are, until the workers are started again.   *)
Over(s) == proc[s].detached \/ ~There(proc[s].pid)
Searched == pc = "reap" /\ ~alive => \A s \in InTable : s < i => Over(s)
Renewed == pc \in Spawning => live \/ extra > 0 \/ ret = "told"
Deserted ==
  ~live /\ extra = 0 /\ pc \notin Spawning \cup {"reap", "told"} =>
    \A s \in InTable : Over(s)
Left == pc = "exited" => ~live

Known == Table /\ Placed /\ Alone /\ Marked
IInv == Known /\ Course /\ Searched /\ Renewed /\ Deserted /\ Left

-----------------------------------------------------------------------------
(* The helpers: the least number of a set, a slot and a pid for a new       *)
(* process.  As there are more pids than slots, one is free.                *)
LEMMA MinIn ==
  ASSUME NEW S, S \subseteq Nat, S # {}
  PROVE  Min(S) \in S
<1> DEFINE R == {ss \in Nat \X Nat : ss[1] < ss[2]}
<1>1. IsWellFoundedOn(R, Nat)
  BY NatLessThanWellFounded DEF OpToRel
<1>2. \E x \in S : \A y \in S : ~(<<y, x>> \in R)
  <2> HIDE DEF R
  <2> QED
    BY <1>1, WFMin
<1>3. PICK x \in S : \A y \in S : ~(<<y, x>> \in R)
  BY <1>2
<1>4. ASSUME NEW y \in S PROVE x =< y
  <2>1. ~(<<y, x>> \in R) /\ x \in Nat /\ y \in Nat
    BY <1>3
  <2> QED
    BY <2>1
<1>5. \E z \in S : \A y \in S : z =< y
  BY <1>4
<1> QED
  BY <1>5 DEF Min

LEMMA SlotIs ==
  ASSUME Known
  PROVE  SlotFor(None) \in 1..(last + 1) /\ SlotFor(None) \notin InTable
<1> DEFINE S == {t \in 1..(last + 1) : t > last \/ proc[t].pid = None}
<1>1. last \in Nat
  BY MasterAssumption DEF Known, Table
<1>2. last + 1 \in S /\ S \subseteq Nat
  BY <1>1
<1>3. SlotFor(None) = Min(S)
  BY DEF SlotFor
<1> HIDE DEF S
<1>4. Min(S) \in S
  BY <1>2, MinIn
<1> QED
  BY <1>1, <1>3, <1>4 DEF S, InTable

LEMMA PidIs ==
  ASSUME Known
  PROVE  Min(FreePids) \in FreePids
<1>1. FreePids # {}
  <2> SUFFICES ASSUME FreePids = {} PROVE FALSE
    OBVIOUS
  <2>1. ASSUME NEW p \in Pids PROVE \E s \in InTable : proc[s].pid = p
    <3>1. child[p].state \in {"none", "run", "zombie", "fatal", "gone"}
      BY DEF Known, Table, Children
    <3>2. CASE There(p)
      BY <3>2 DEF Known, Placed
    <3>3. CASE ~There(p)
      BY <3>1, <3>3 DEF There, FreePids
    <3> QED
      BY <3>2, <3>3
  <2> DEFINE f == [p \in Pids |-> CHOOSE s \in InTable : proc[s].pid = p]
  <2>2. ASSUME NEW p \in Pids PROVE f[p] \in InTable /\ proc[f[p]].pid = p
    BY <2>1
  <2>3. f \in [Pids -> Slots]
    BY <2>2 DEF InTable
  <2>4. /\ IsFiniteSet(Pids) /\ IsFiniteSet(Slots)
        /\ Cardinality(Slots) < Cardinality(Pids)
    <3>1. MaxProcs \in Nat /\ NPids \in Nat /\ NPids > MaxProcs
      BY MasterAssumption
    <3>2. /\ IsFiniteSet(1..NPids) /\ Cardinality(1..NPids) = NPids
          /\ IsFiniteSet(1..MaxProcs) /\ Cardinality(1..MaxProcs) = MaxProcs
      <4>1. ASSUME NEW n \in Nat PROVE IsFiniteSet(1..n) /\ Cardinality(1..n) = n
        <5>1. 1 \in Int /\ n \in Int
          OBVIOUS
        <5>2. IsFiniteSet(1..n) /\ Cardinality(1..n) = IF 1 > n THEN 0 ELSE n - 1 + 1
          BY <5>1, FS_Interval
        <5>3. (IF 1 > n THEN 0 ELSE n - 1 + 1) = n
          OBVIOUS
        <5> QED
          BY <5>2, <5>3
      <4> QED
        BY <3>1, <4>1
    <3> QED
      BY <3>1, <3>2 DEF Pids, Slots
  <2> HIDE DEF f
  <2>5. \E p, q \in Pids : p # q /\ f[p] = f[q]
    BY <2>3, <2>4, FS_PigeonHole
  <2> QED
    BY <2>2, <2>5
<1>2. FreePids \subseteq Nat
  BY DEF FreePids, Pids
<1> QED
  BY <1>1, <1>2, MinIn

LEMMA Free ==
  ASSUME Known, NEW p \in FreePids
  PROVE  p \in Pids /\ p # None /\ ~There(p) /\ \A s \in InTable : proc[s].pid # p
<1>1. p \in Pids /\ p # None
  BY MasterAssumption DEF FreePids, Pids, None
<1> QED
  BY <1>1 DEF FreePids, There

-----------------------------------------------------------------------------
(* What happens to the table: a process is put into it, one that is gone is *)
(* taken out of it, the others change their state and marks only.           *)
LEMMA InTableIs == ASSUME NEW s \in InTable PROVE s \in Slots /\ s <= last /\ proc[s].pid # None
BY DEF InTable

LEMMA Forked ==
  ASSUME Known, NEW s \in Slots, s <= last + 1, s \in InTable => proc[s].exited,
         NEW p \in FreePids, NEW e \in Entries, e.pid = p, ~e.exited,
         e.detached => e.kind = "binary",
         proc' = [proc EXCEPT ![s] = e], last' = IF s > last THEN s ELSE last,
         child' = [child EXCEPT ![p] = [state |-> "run", kind |-> e.kind, told |-> {}]]
  PROVE  /\ Known'
         /\ \A t \in InTable' : t = s \/ (t \in InTable /\ (Over(t) => Over(t)'))
         /\ e.detached => Over(s)'
<1>1. /\ p \in Pids /\ p # None /\ ~There(p)
      /\ \A t \in InTable : proc[t].pid # p
  BY Free
<1>2. proc \in [Slots -> Entries] /\ last \in 0..MaxProcs /\ child \in [Pids -> Children]
  BY DEF Known, Table
<1>3. s \in 1..MaxProcs /\ MaxProcs \in Nat
  BY MasterAssumption DEF Slots
<1>4. e.kind \in Kinds
  BY DEF Entries
<1> DEFINE k == [state |-> "run", kind |-> e.kind, told |-> {}]
<1>5. k \in Children /\ k.state = "run" /\ k.kind = e.kind
  BY <1>4 DEF Children
<1>6. child' = [child EXCEPT ![p] = k]
  OBVIOUS
<1> HIDE DEF k
<1>7. Table'
  <2>1. proc' \in [Slots -> Entries] /\ child' \in [Pids -> Children]
    BY <1>1, <1>2, <1>5, <1>6
  <2>2. last' \in 0..MaxProcs
    BY <1>2, <1>3
  <2> QED
    BY <2>1, <2>2 DEF Table
<1>8. /\ proc'[s] = e /\ \A t \in Slots : t # s => proc'[t] = proc[t]
      /\ child'[p] = k /\ \A q \in Pids : q # p => child'[q] = child[q]
  BY <1>1, <1>2, <1>6
<1>9. ASSUME NEW t \in InTable', t # s
      PROVE  t \in InTable /\ proc'[t] = proc[t] /\ proc[t].pid # p
  <2>1. t \in Slots /\ t <= last' /\ proc'[t].pid # None
    BY DEF InTable
  <2>2. proc'[t] = proc[t]
    BY <1>8, <1>9, <2>1
  <2>3. t <= last
    <3>1. t \in Nat /\ last \in Nat /\ s \in Nat
      BY <1>2, <1>3, <2>1 DEF Slots
    <3> QED
      BY <1>9, <2>1, <3>1
  <2>4. t \in InTable
    BY <2>1, <2>2, <2>3 DEF InTable
  <2> QED
    BY <1>1, <2>2, <2>4
<1>10. s \in InTable' /\ proc'[s].pid = p
  <2>1. s <= last'
    BY <1>2, <1>3
  <2> QED
    BY <1>1, <1>8, <2>1 DEF InTable
<1>11. ASSUME NEW t \in InTable, t # s PROVE t \in InTable'
  <2>1. t \in Slots /\ t <= last /\ proc'[t] = proc[t] /\ proc[t].pid # None
    BY <1>8, <1>11 DEF InTable
  <2>2. t <= last'
    <3>1. t \in Nat /\ last \in Nat /\ s \in Nat
      BY <1>2, <1>3, <2>1 DEF Slots
    <3> QED
      BY <2>1, <3>1
  <2> QED
    BY <2>1, <2>2 DEF InTable
<1>12. Placed'
  <2> SUFFICES ASSUME NEW q \in Pids, There(q)' PROVE \E t \in InTable' : proc'[t].pid = q
    BY DEF Placed
  <2>1. CASE q = p
    BY <1>10, <2>1
  <2>2. CASE q # p
    <3>1. There(q)
      BY <1>8, <2>2 DEF There
    <3>2. PICK t \in InTable : proc[t].pid = q
      BY <3>1 DEF Known, Placed
    <3>3. t # s
      <4>1. ~proc[t].exited
        BY <3>1, <3>2 DEF Known, Marked, There
      <4> QED
        BY <4>1
    <3>4. t \in InTable' /\ proc'[t] = proc[t]
      BY <1>8, <1>11, <3>3, InTableIs
    <3> QED
      BY <3>2, <3>4
  <2> QED
    BY <2>1, <2>2
<1>13. Alone'
  <2> SUFFICES ASSUME NEW t \in InTable', NEW v \in InTable', proc'[t].pid = proc'[v].pid
               PROVE  t = v
    BY DEF Alone
  <2>1. CASE t = s \/ v = s
    BY <1>9, <1>10, <2>1
  <2>2. CASE t # s /\ v # s
    BY <1>9, <2>2 DEF Known, Alone
  <2> QED
    BY <2>1, <2>2
<1>14. Marked'
  <2> SUFFICES ASSUME NEW t \in InTable'
               PROVE  /\ proc'[t].exited => child'[proc'[t].pid].state = "gone"
                      /\ proc'[t].detached => proc'[t].kind = "binary"
                      /\ There(proc[t].pid)' => child'[proc'[t].pid].kind = proc'[t].kind
    BY DEF Marked
  <2>1. CASE t = s
    BY <1>5, <1>8, <1>10, <2>1
  <2>2. CASE t # s
    <3>1. t \in InTable /\ proc'[t] = proc[t] /\ proc[t].pid # p /\ proc[t].pid \in Pids
      <4>1. proc[t] \in Entries
        BY <1>2, <1>9, <2>2, InTableIs
      <4> QED
        BY <1>9, <2>2, <4>1, InTableIs DEF Entries
    <3>2. child'[proc[t].pid] = child[proc[t].pid]
      BY <1>8, <3>1
    <3>3. There(proc[t].pid)' => There(proc[t].pid)
      BY <3>1, <3>2 DEF There
    <3> QED
      BY <3>1, <3>2, <3>3 DEF Known, Marked
  <2> QED
    BY <2>1, <2>2
<1>15. ASSUME NEW t \in InTable', t # s, Over(t) PROVE Over(t)'
  <2>1. t \in InTable /\ proc'[t] = proc[t] /\ proc[t].pid # p /\ proc[t].pid \in Pids
    <3>1. proc[t] \in Entries
      BY <1>2, <1>9, <1>15, InTableIs
    <3> QED
      BY <1>9, <1>15, <3>1, InTableIs DEF Entries
  <2>2. child'[proc[t].pid] = child[proc[t].pid]
    BY <1>8, <2>1
  <2> QED
    BY <1>15, <2>1, <2>2 DEF Over, There
<1>16. e.detached => Over(s)'
  BY <1>8 DEF Over
<1> QED
  BY <1>7, <1>9, <1>12, <1>13, <1>14, <1>15, <1>16 DEF Known

LEMMA Removed ==
  ASSUME Known, NEW s \in InTable, proc[s].exited, proc' = [proc EXCEPT ![s] = NoProc],
         last' = IF s = last THEN last - 1 ELSE last, child' = child
  PROVE  Known' /\ \A t \in InTable' : t # s /\ t \in InTable /\ (Over(t) => Over(t)')
<1>1. /\ proc \in [Slots -> Entries] /\ last \in 0..MaxProcs /\ child \in [Pids -> Children]
      /\ s \in Slots /\ s <= last /\ MaxProcs \in Nat
  BY MasterAssumption, InTableIs DEF Known, Table
<1>2. NoProc \in Entries /\ NoProc.pid = None
  BY DEF NoProc, Entries, Kinds
<1>3. Table'
  <2>1. proc' \in [Slots -> Entries]
    BY <1>1, <1>2
  <2>2. last' \in 0..MaxProcs
    BY <1>1 DEF Slots
  <2> QED
    BY <1>1, <2>1, <2>2 DEF Table
<1>4. proc'[s] = NoProc /\ \A t \in Slots : t # s => proc'[t] = proc[t]
  BY <1>1
<1>5. ASSUME NEW t \in InTable' PROVE t # s /\ t \in InTable /\ proc'[t] = proc[t]
  <2>1. t \in Slots /\ t <= last' /\ proc'[t].pid # None
    BY DEF InTable
  <2>2. t # s /\ proc'[t] = proc[t]
    BY <1>2, <1>4, <2>1
  <2>3. t <= last
    <3>1. t \in Nat /\ last \in Nat
      BY <1>1, <2>1 DEF Slots
    <3> QED
      BY <2>1, <3>1
  <2> QED
    BY <2>1, <2>2, <2>3 DEF InTable
<1>6. ASSUME NEW t \in InTable, t # s PROVE t \in InTable' /\ proc'[t] = proc[t]
  <2>1. t \in Slots /\ t <= last /\ proc'[t] = proc[t] /\ proc[t].pid # None
    BY <1>4, <1>6 DEF InTable
  <2>2. t <= last'
    <3>1. t \in Nat /\ last \in Nat /\ s \in Nat
      BY <1>1, <2>1 DEF Slots
    <3> QED
      BY <1>6, <2>1, <3>1
  <2> QED
    BY <2>1, <2>2 DEF InTable
<1>7. Placed'
  <2> SUFFICES ASSUME NEW q \in Pids, There(q)' PROVE \E t \in InTable' : proc'[t].pid = q
    BY DEF Placed
  <2>1. There(q)
    BY DEF There
  <2>2. PICK t \in InTable : proc[t].pid = q
    BY <2>1 DEF Known, Placed
  <2>3. t # s
    BY <2>1, <2>2 DEF Known, Marked, There
  <2> QED
    BY <1>6, <2>2, <2>3
<1>8. Alone'
  BY <1>5 DEF Known, Alone
<1>9. Marked' /\ \A t \in InTable' : Over(t) => Over(t)'
  BY <1>5 DEF Known, Marked, There, Over
<1> QED
  BY <1>3, <1>5, <1>7, <1>8, <1>9 DEF Known

LEMMA Aged ==
  ASSUME Known, last' = last, proc' \in [Slots -> Entries], child' \in [Pids -> Children],
         \A s \in Slots : /\ proc'[s].pid = proc[s].pid
                          /\ proc'[s].detached <=> proc[s].detached
                          /\ proc'[s].kind = proc[s].kind,
         \A p \in Pids : /\ There(p)' => (There(p) /\ child'[p].kind = child[p].kind)
                         /\ child[p].state = "gone" => child'[p].state = "gone",
         \A s \in InTable : proc'[s].exited => child'[proc[s].pid].state = "gone"
  PROVE  Known' /\ InTable' = InTable /\ \A s \in InTable : Over(s) => Over(s)'
<1>1. InTable' = InTable
  BY DEF InTable
<1>2. Table'
  BY DEF Known, Table
<1>3. ASSUME NEW s \in InTable
      PROVE  /\ s \in Slots /\ proc'[s].pid = proc[s].pid /\ proc[s].pid \in Pids
             /\ proc'[s].detached <=> proc[s].detached
             /\ proc'[s].kind = proc[s].kind
  <2>1. s \in Slots /\ proc[s].pid # None
    BY InTableIs
  <2>2. proc[s] \in Entries
    BY <2>1 DEF Known, Table
  <2>3. proc[s].pid \in Pids
    BY <2>1, <2>2 DEF Entries
  <2> QED
    BY <2>1, <2>3
<1>4. Placed'
  BY <1>1, <1>3 DEF Known, Placed
<1>5. Alone'
  BY <1>1, <1>3 DEF Known, Alone
<1>6. ASSUME NEW s \in InTable
      PROVE  /\ proc'[s].exited => child'[proc'[s].pid].state = "gone"
             /\ proc'[s].detached => proc'[s].kind = "binary"
             /\ There(proc[s].pid)' => child'[proc'[s].pid].kind = proc'[s].kind
             /\ Over(s) => Over(s)'
  <2>1. There(proc[s].pid)' => There(proc[s].pid)
    BY <1>3 DEF There
  <2>2. /\ proc[s].detached => proc[s].kind = "binary"
        /\ There(proc[s].pid) => child[proc[s].pid].kind = proc[s].kind
    BY DEF Known, Marked
  <2>3. proc'[s].exited => child'[proc'[s].pid].state = "gone"
    BY <1>3
  <2>4. There(proc[s].pid)' => child'[proc'[s].pid].kind = child[proc[s].pid].kind
    BY <1>3 DEF There
  <2> QED
    BY <1>3, <2>1, <2>2, <2>3, <2>4 DEF Over
<1>7. Marked'
  BY <1>1, <1>6 DEF Marked
<1> QED
  BY <1>1, <1>2, <1>4, <1>5, <1>6, <1>7 DEF Known

(* The steps that leave the table as it is, and those that only mark it:    *)
(* a signal for the workers, sigsuspend(), a child that leaves.             *)
LEMMA Same ==
  ASSUME Known, proc' = proc, last' = last, child' = child
  PROVE  Known' /\ InTable' = InTable /\ \A s \in InTable : Over(s) => Over(s)'
<1>1. InTable' = InTable
  BY DEF InTable
<1>2. Table'
  BY DEF Known, Table
<1>3. Placed' /\ Alone'
  BY <1>1 DEF Known, Placed, Alone, There
<1>4. Marked'
  BY <1>1 DEF Known, Marked, There
<1>5. \A s \in InTable : Over(s) => Over(s)'
  BY DEF Over, There
<1> QED
  BY <1>1, <1>2, <1>3, <1>4, <1>5 DEF Known

LEMMA Signalled ==
  ASSUME Known, NEW what \in {"term", "kill", "quit", "reopen"}, SignalWorkers(what), last' = last
  PROVE  Known' /\ InTable' = InTable /\ \A s \in InTable : Over(s) => Over(s)'
<1>1. proc \in [Slots -> Entries] /\ child \in [Pids -> Children]
  BY DEF Known, Table
<1>2. ASSUME NEW s \in Slots
      PROVE  /\ proc'[s] \in Entries
             /\ proc'[s].pid = proc[s].pid
             /\ proc'[s].detached <=> proc[s].detached
             /\ proc'[s].kind = proc[s].kind
             /\ proc'[s].exited => proc[s].exited \/ s \in Unreachable(what)
  <2>1. proc[s] \in Entries
    BY <1>1
  <2>2. CASE s \in Unreachable(what)
    <3>1. proc'[s] = [proc[s] EXCEPT !.exited = TRUE, !.exiting = FALSE]
      BY <2>2 DEF SignalWorkers
    <3> QED
      BY <2>1, <2>2, <3>1 DEF Entries
  <2>3. CASE s \notin Unreachable(what) /\ s \in Addressed(what) /\ what # "reopen"
    <3>1. proc'[s] = [proc[s] EXCEPT !.exiting = TRUE]
      BY <2>3 DEF SignalWorkers
    <3> QED
      BY <2>1, <3>1 DEF Entries
  <2>4. CASE s \notin Unreachable(what) /\ ~(s \in Addressed(what) /\ what # "reopen")
    <3>1. proc'[s] = [proc[s] EXCEPT !.just = FALSE] \/ proc'[s] = proc[s]
      BY <2>4 DEF SignalWorkers
    <3>2. CASE proc'[s] = [proc[s] EXCEPT !.just = FALSE]
      BY <2>1, <3>2 DEF Entries
    <3>3. CASE proc'[s] = proc[s]
      BY <2>1, <3>3
    <3> QED
      BY <3>1, <3>2, <3>3
  <2> QED
    BY <2>2, <2>3, <2>4
<1>3. ASSUME NEW p \in Pids
      PROVE  /\ child'[p] \in Children
             /\ child'[p].state = child[p].state /\ child'[p].kind = child[p].kind
  <2>1. child[p] \in Children
    BY <1>1
  <2>2. \/ what # "reopen" /\ child'[p] = [child[p] EXCEPT !.told = @ \cup {what}]
        \/ child'[p] = child[p]
    BY DEF SignalWorkers
  <2>3. CASE what # "reopen" /\ child'[p] = [child[p] EXCEPT !.told = @ \cup {what}]
    <3>1. child[p].told \cup {what} \in SUBSET {"term", "kill", "quit"}
      BY <2>1, <2>3 DEF Children
    <3> QED
      BY <2>1, <2>3, <3>1 DEF Children
  <2>4. CASE child'[p] = child[p]
    BY <2>1, <2>4
  <2> QED
    BY <2>2, <2>3, <2>4
<1>4. proc' \in [Slots -> Entries]
  BY <1>2 DEF SignalWorkers
<1>5. child' \in [Pids -> Children]
  BY <1>3 DEF SignalWorkers
<1>6. ASSUME NEW s \in InTable, proc'[s].exited PROVE child'[proc[s].pid].state = "gone"
  <2>1. s \in Slots /\ proc[s].pid \in Pids
    <3>1. s \in Slots /\ proc[s].pid # None
      BY InTableIs
    <3>2. proc[s] \in Entries
      BY <1>1, <3>1
    <3> QED
      BY <3>1, <3>2 DEF Entries
  <2>2. child[proc[s].pid].state = "gone"
    <3>1. CASE proc[s].exited
      BY <3>1 DEF Known, Marked
    <3>2. CASE s \in Unreachable(what)
      BY <3>2 DEF Unreachable
    <3> QED
      BY <1>2, <1>6, <2>1, <3>1, <3>2
  <2> QED
    BY <1>3, <2>1, <2>2
<1>7. \A p \in Pids : /\ There(p)' => (There(p) /\ child'[p].kind = child[p].kind)
                      /\ child[p].state = "gone" => child'[p].state = "gone"
  BY <1>3 DEF There
<1> QED
  BY <1>2, <1>4, <1>5, <1>6, <1>7, Aged

LEMMA Collected ==
  ASSUME Known, Suspend
  PROVE  Known' /\ InTable' = InTable /\ \A s \in InTable : Over(s) => Over(s)'
<1>1. proc \in [Slots -> Entries] /\ child \in [Pids -> Children] /\ last' = last
  BY DEF Known, Table, Suspend
<1>2. CASE "CHLD" \notin pending
  BY <1>1, <1>2, Same DEF Suspend
<1>3. CASE "CHLD" \in pending
  <2>1. ASSUME NEW s \in Slots
        PROVE  /\ proc'[s] \in Entries
               /\ proc'[s].pid = proc[s].pid
               /\ proc'[s].detached <=> proc[s].detached
               /\ proc'[s].kind = proc[s].kind
               /\ proc'[s].exited => proc[s].exited \/ proc[s].pid \in Zombies
    <3>1. proc[s] \in Entries
      BY <1>1
    <3>2. CASE s \in InTable /\ proc[s].pid \in Zombies
      <4>1. proc'[s] = [proc[s] EXCEPT !.exited = TRUE,
                          !.respawn = @ /\ child[proc[s].pid].state # "fatal"]
        BY <1>3, <3>2 DEF Suspend
      <4>2. (proc[s].respawn /\ child[proc[s].pid].state # "fatal") \in BOOLEAN
        OBVIOUS
      <4> DEFINE b == proc[s].respawn /\ child[proc[s].pid].state # "fatal"
      <4>3. proc'[s] = [proc[s] EXCEPT !.exited = TRUE, !.respawn = b] /\ b \in BOOLEAN
        BY <4>1, <4>2
      <4> HIDE DEF b
      <4> QED
        BY <3>1, <3>2, <4>3 DEF Entries
    <3>3. CASE ~(s \in InTable /\ proc[s].pid \in Zombies)
      <4>1. proc'[s] = proc[s]
        BY <1>3, <3>3 DEF Suspend
      <4> QED
        BY <3>1, <4>1
    <3> QED
      BY <3>2, <3>3
  <2>2. ASSUME NEW p \in Pids
        PROVE  /\ child'[p] \in Children
               /\ p \in Zombies => child'[p].state = "gone"
               /\ p \notin Zombies => child'[p] = child[p]
    <3>1. child[p] \in Children
      BY <1>1
    <3>2. CASE p \in Zombies
      <4>1. child'[p] = [NoChild EXCEPT !.state = "gone"]
        BY <1>3, <3>2 DEF Suspend
      <4> QED
        BY <3>2, <4>1 DEF Children, Kinds, NoChild
    <3>3. CASE p \notin Zombies
      BY <1>3, <3>1, <3>3 DEF Suspend
    <3> QED
      BY <3>2, <3>3
  <2>3. proc' \in [Slots -> Entries]
    BY <1>3, <2>1 DEF Suspend
  <2>4. child' \in [Pids -> Children]
    BY <1>3, <2>2 DEF Suspend
  <2>5. \A p \in Pids : /\ There(p)' => (There(p) /\ child'[p].kind = child[p].kind)
                        /\ child[p].state = "gone" => child'[p].state = "gone"
    BY <2>2 DEF There
  <2>6. ASSUME NEW s \in InTable, proc'[s].exited PROVE child'[proc[s].pid].state = "gone"
    <3>1. s \in Slots /\ proc[s].pid \in Pids
      <4>1. s \in Slots /\ proc[s].pid # None
        BY InTableIs
      <4>2. proc[s] \in Entries
        BY <1>1, <4>1
      <4> QED
        BY <4>1, <4>2 DEF Entries
    <3>2. CASE proc[s].exited
      BY <2>5, <3>1, <3>2 DEF Known, Marked
    <3>3. CASE proc[s].pid \in Zombies
      BY <2>2, <3>1, <3>3
    <3> QED
      BY <2>1, <2>6, <3>1, <3>2, <3>3
  <2> QED
    BY <1>1, <2>1, <2>3, <2>4, <2>5, <2>6, Aged
<1> QED
  BY <1>2, <1>3

LEMMA LeftBehind ==
  ASSUME Known, NEW p \in Pids, Running(p), NEW st \in {"zombie", "fatal"}, Leave(p, st)
  PROVE  Known' /\ InTable' = InTable /\ \A s \in InTable : Over(s) => Over(s)'
<1>1. proc \in [Slots -> Entries] /\ child \in [Pids -> Children] /\ last' = last /\ proc' = proc
  BY DEF Known, Table, Leave, table
<1>2. child' = [child EXCEPT ![p] = [@ EXCEPT !.state = st, !.told = {}]]
  BY DEF Leave
<1>3. child[p] \in Children /\ child[p].state = "run"
  BY <1>1 DEF Running
<1>4. /\ child'[p] \in Children /\ child'[p].kind = child[p].kind /\ child'[p].state = st
      /\ \A q \in Pids : q # p => child'[q] = child[q]
  BY <1>1, <1>2, <1>3 DEF Children
<1>5. child' \in [Pids -> Children]
  BY <1>1, <1>2, <1>4
<1> HIDE DEF Leave
<1>6. \A q \in Pids : /\ There(q)' => (There(q) /\ child'[q].kind = child[q].kind)
                      /\ child[q].state = "gone" => child'[q].state = "gone"
  BY <1>3, <1>4 DEF There
<1>7. ASSUME NEW s \in InTable, proc'[s].exited PROVE child'[proc[s].pid].state = "gone"
  <2>1. s \in Slots /\ proc[s].pid \in Pids
    <3>1. s \in Slots /\ proc[s].pid # None
      BY InTableIs
    <3>2. proc[s] \in Entries
      BY <1>1, <3>1
    <3> QED
      BY <3>1, <3>2 DEF Entries
  <2> QED
    BY <1>1, <1>6, <1>7, <2>1 DEF Known, Marked
<1> QED
  BY <1>1, <1>5, <1>6, <1>7, Aged

-----------------------------------------------------------------------------
(* A new process: in a slot of its own, or nothing changes.                 *)
LEMMA Plain ==
  ASSUME NEW how \in {"respawn", "just_respawn", "norespawn", "just_spawn"}
  PROVE  /\ Styles[how].detached = FALSE
         /\ Styles[how].respawn \in BOOLEAN
         /\ Styles[how].just \in BOOLEAN
<1>1. CASE how = "respawn"
  <2>1. Styles.respawn.detached = FALSE /\ Styles.respawn.respawn = TRUE
        /\ Styles.respawn.just = FALSE
    BY DEF Styles
  <2> QED
    BY <1>1, <2>1
<1>2. CASE how = "just_respawn"
  <2>1. Styles.just_respawn.detached = FALSE /\ Styles.just_respawn.respawn = TRUE
        /\ Styles.just_respawn.just = TRUE
    BY DEF Styles
  <2> QED
    BY <1>2, <2>1
<1>3. CASE how = "norespawn"
  <2>1. Styles.norespawn.detached = FALSE /\ Styles.norespawn.respawn = FALSE
        /\ Styles.norespawn.just = FALSE
    BY DEF Styles
  <2> QED
    BY <1>3, <2>1
<1>4. CASE how = "just_spawn"
  <2>1. Styles.just_spawn.detached = FALSE /\ Styles.just_spawn.respawn = FALSE
        /\ Styles.just_spawn.just = TRUE
    BY DEF Styles
  <2> QED
    BY <1>4, <2>1
<1> QED
  BY <1>1, <1>2, <1>3, <1>4

LEMMA Started ==
  ASSUME Known, NEW kind \in {"worker", "manager", "loader"},
         NEW how \in {"respawn", "just_respawn", "norespawn", "just_spawn"}, Start(kind, how)
  PROVE  Known'
<1> DEFINE s == SlotFor(None)
           p == Min(FreePids)
<1>1. CASE SpawnRefused
  BY <1>1, Same DEF SpawnRefused, table
<1>2. CASE SpawnFailed(s, "fork")
  BY <1>2, Same DEF SpawnFailed
<1>3. CASE s <= MaxProcs /\ Spawned(s, p, kind, how, view)
  <2>1. Fork(s, p, kind, how)
    BY <1>3 DEF Spawned
  <2>2. /\ s \in Slots /\ s <= last + 1 /\ s \notin InTable /\ p \in FreePids
    <3>1. s \in 1..(last + 1) /\ s \notin InTable /\ p \in FreePids
      BY SlotIs, PidIs
    <3>2. last \in Nat /\ MaxProcs \in Nat
      BY MasterAssumption DEF Known, Table
    <3> HIDE DEF s, p
    <3> QED
      BY <1>3, <3>1, <3>2 DEF Slots
  <2> DEFINE e == [pid |-> p, exited |-> FALSE, exiting |-> FALSE,
                   detached |-> Styles[how].detached,
                   respawn |-> Styles[how].respawn,
                   just |-> Styles[how].just,
                   chan |-> IF how = "detached" THEN None ELSE p,
                   kind |-> kind]
  <2>3. /\ proc' = [proc EXCEPT ![s] = e]
        /\ last' = IF s > last THEN s ELSE last
        /\ child' = [child EXCEPT ![p] = [state |-> "run", kind |-> kind, told |-> {}]]
    <3> HIDE DEF s, p
    <3> QED
      BY <2>1 DEF Fork
  <2>4. p \in Pids
    BY <2>2 DEF FreePids
  <2> HIDE DEF s, p
  <2>5. e \in Entries /\ e.pid = p /\ ~e.exited /\ ~e.detached /\ e.kind = kind
    <3>1. /\ Styles[how].detached = FALSE /\ Styles[how].respawn \in BOOLEAN
          /\ Styles[how].just \in BOOLEAN
      BY Plain
    <3> QED
      BY <2>4, <3>1 DEF Entries, Kinds
  <2> HIDE DEF e
  <2>6. child' = [child EXCEPT ![p] = [state |-> "run", kind |-> e.kind, told |-> {}]]
    BY <2>3, <2>5
  <2>7. e.detached => e.kind = "binary"
    BY <2>5
  <2>8. s \in InTable => proc[s].exited
    BY <2>2
  <2> QED
    BY <2>2, <2>3, <2>5, <2>6, <2>7, <2>8, Forked
<1> QED
  BY <1>1, <1>2, <1>3 DEF Start

-----------------------------------------------------------------------------
(* The steps of the loop outside the search and the spawning, and the steps *)
(* beside the loop.                                                         *)
LEMMA Quietly ==
  ASSUME IInv, Known', InTable' = InTable, \A s \in InTable : Over(s) => Over(s)',
         UNCHANGED <<live, extra, i, alive, style, ret>>,
         pc \notin Spawning \cup {"reap", "told"},
         pc' \in Points, pc' \notin Spawning \cup {"reap"}, pc' = "exited" => ~live
  PROVE  IInv'
<1>1. Course'
  BY DEF IInv, Course
<1>2. Searched' /\ Renewed' /\ Left'
  BY DEF Searched, Renewed, Left
<1>3. Deserted'
  BY DEF IInv, Deserted
<1> QED
  BY <1>1, <1>2, <1>3 DEF IInv

LEMMA Beside ==
  ASSUME IInv, Known', InTable' = InTable, \A s \in InTable : Over(s) => Over(s)',
         UNCHANGED <<live, extra, i, alive, style, ret, pc>>
  PROVE  IInv'
<1>1. Course' /\ Renewed' /\ Left'
  BY DEF IInv, Course, Renewed, Left
<1>2. Searched'
  BY DEF IInv, Searched
<1>3. Deserted'
  BY DEF IInv, Deserted
<1> QED
  BY <1>1, <1>2, <1>3 DEF IInv

LEMMA SuspendKeeps == IInv /\ Suspend => IInv'
<1> SUFFICES ASSUME IInv, Suspend PROVE IInv'
  OBVIOUS
<1>1. Known' /\ InTable' = InTable /\ \A s \in InTable : Over(s) => Over(s)'
  BY Collected DEF IInv
<1>2. /\ UNCHANGED <<live, extra, i, alive, style, ret>> /\ pc = "suspend" /\ pc' = "wake"
  BY DEF Suspend, settings, loop
<1> QED
  BY <1>1, <1>2, Quietly DEF Points, Spawning

LEMMA WakeKeeps == IInv /\ Wake => IInv'
<1> SUFFICES ASSUME IInv, Wake PROVE IInv'
  OBVIOUS
<1>1. Known' /\ InTable' = InTable /\ \A s \in InTable : Over(s) => Over(s)'
  BY Same DEF IInv, Wake, table, kids
<1>2. UNCHANGED <<live, extra, style, ret>> /\ pc = "wake"
  BY DEF Wake, settings
<1>3. CASE "reap" \in flags
  <2>1. pc' = "reap" /\ i' = 1 /\ alive' = FALSE
    BY <1>3 DEF Wake
  <2>2. Course' /\ Renewed' /\ Deserted' /\ Left'
    <3>1. i' \in Nat \ {0}
      BY <2>1
    <3>2. Course'
      BY <1>2, <2>1, <3>1 DEF IInv, Course, Points
    <3> QED
      BY <2>1, <3>2 DEF Renewed, Deserted, Left, Spawning
  <2>3. Searched'
    <3> SUFFICES ASSUME NEW s \in InTable', s < i' PROVE FALSE
      BY DEF Searched
    <3>1. s \in 1..MaxProcs
      BY <1>1, InTableIs DEF Slots
    <3> QED
      BY <2>1, <3>1, MasterAssumption
  <2> QED
    BY <1>1, <2>2, <2>3 DEF IInv
<1>4. CASE "reap" \notin flags
  <2>1. pc' = "decide" /\ i' = i /\ alive' = alive
    BY <1>4 DEF Wake
  <2> QED
    BY <1>1, <1>2, <2>1, Quietly DEF Points, Spawning
<1> QED
  BY <1>3, <1>4

(* The slot at i of the search. *)
LEMMA Here ==
  ASSUME IInv, pc = "reap", i <= last
  PROVE  i \in Slots /\ (proc[i].pid # None => i \in InTable)
<1>1. i \in Nat \ {0} /\ last \in 0..MaxProcs /\ MaxProcs \in Nat
  BY MasterAssumption DEF IInv, Course, Known, Table
<1>2. i \in Slots
  BY <1>1 DEF Slots
<1> QED
  BY <1>2 DEF InTable

LEMMA ReapPassKeeps == IInv /\ ReapPass => IInv'
<1> SUFFICES ASSUME IInv, ReapPass PROVE IInv'
  OBVIOUS
<1>1. Known' /\ InTable' = InTable /\ \A s \in InTable : Over(s) => Over(s)'
  BY Same DEF IInv, ReapPass, table, kids
<1>2. /\ pc = "reap" /\ pc' = "reap" /\ i' = i + 1 /\ UNCHANGED <<live, extra, style, ret>>
      /\ i \in Nat \ {0}
  BY DEF ReapPass, settings, IInv, Course
<1>3. alive' = (alive \/ (proc[i].pid # None /\ (proc[i].exiting \/ ~proc[i].detached)))
  BY DEF ReapPass
<1>4. Course' /\ Renewed' /\ Deserted' /\ Left'
  <2>1. alive' \in BOOLEAN
    BY <1>3
  <2>2. i' \in Nat \ {0}
    BY <1>2
  <2> QED
    BY <1>2, <2>1, <2>2 DEF IInv, Course, Renewed, Deserted, Left, Points, Spawning
<1>5. Searched'
  <2> SUFFICES ASSUME ~alive', NEW s \in InTable', s < i' PROVE Over(s)'
    BY DEF Searched
  <2>1. s \in InTable /\ s \in Nat
    BY <1>1, InTableIs DEF Slots
  <2>2. CASE s < i
    <3>1. ~alive
      BY <1>3
    <3> QED
      BY <1>1, <1>2, <2>1, <2>2, <3>1 DEF IInv, Searched
  <2>3. CASE s = i
    <3>1. proc[s].pid # None
      BY <2>1, InTableIs
    <3>2. proc[s].detached
      BY <1>3, <2>3, <3>1
    <3> QED
      BY <1>1, <2>1, <3>2 DEF Over
  <2> QED
    BY <1>2, <2>1, <2>2, <2>3
<1> QED
  BY <1>1, <1>4, <1>5 DEF IInv

LEMMA ReapGoneKeeps == IInv /\ ReapGone => IInv'
<1> SUFFICES ASSUME IInv, ReapGone PROVE IInv'
  OBVIOUS
<1>1. /\ pc = "reap" /\ pc' = "reap" /\ i' = i + 1 /\ UNCHANGED <<live, extra, style, ret, alive>>
      /\ i \in Nat \ {0} /\ i <= last /\ proc[i].pid # None /\ proc[i].exited
  BY DEF ReapGone, IInv, Course
<1>2. i \in InTable
  BY <1>1, Here
<1>3. /\ proc' = [proc EXCEPT ![i] = NoProc] /\ last' = IF i = last THEN last - 1 ELSE last
      /\ child' = child
  BY DEF ReapGone
<1>4. Known' /\ \A t \in InTable' : t # i /\ t \in InTable /\ (Over(t) => Over(t)')
  BY <1>1, <1>2, <1>3, Removed DEF IInv
<1>5. Course' /\ Renewed' /\ Deserted' /\ Left'
  <2>1. i' \in Nat \ {0}
    BY <1>1
  <2> QED
    BY <1>1, <2>1 DEF IInv, Course, Renewed, Deserted, Left, Points, Spawning
<1>6. Searched'
  <2> SUFFICES ASSUME ~alive', NEW s \in InTable', s < i' PROVE Over(s)'
    BY DEF Searched
  <2>1. s \in InTable /\ s # i /\ s \in Nat
    BY <1>4, InTableIs DEF Slots
  <2>2. s < i
    BY <1>1, <2>1
  <2>3. Over(s)
    BY <1>1, <2>1, <2>2 DEF IInv, Searched
  <2> QED
    BY <1>4, <2>3
<1> QED
  BY <1>4, <1>5, <1>6 DEF IInv

LEMMA ReapRespawnKeeps == IInv /\ ReapRespawn => IInv'
<1> SUFFICES ASSUME IInv, ReapRespawn PROVE IInv'
  OBVIOUS
<1> DEFINE p == Min(FreePids)
<1>1. /\ pc = "reap" /\ pc' = "reap" /\ i' = i + 1 /\ UNCHANGED <<live, extra, style, ret>>
      /\ i \in Nat \ {0} /\ i <= last /\ proc[i].pid # None /\ proc[i].exited
  BY DEF ReapRespawn, settings, IInv, Course
<1>2. i \in InTable /\ i \in Slots
  BY <1>1, Here
<1>3. p \in FreePids /\ p \in Pids
  BY PidIs DEF IInv, FreePids
<1>4. \/ Fork(i, p, proc[i].kind, "again") /\ alive' = TRUE
      \/ SpawnFailed(i, "fork") /\ alive' = alive
  BY DEF ReapRespawn, Spawned
<1> HIDE DEF p
<1>5. Course' /\ Renewed' /\ Deserted' /\ Left'
  <2>1. i' \in Nat \ {0}
    BY <1>1
  <2>2. alive' \in BOOLEAN
    BY <1>4 DEF IInv, Course
  <2> QED
    BY <1>1, <2>1, <2>2 DEF IInv, Course, Renewed, Deserted, Left, Points, Spawning
<1>6. CASE Fork(i, p, proc[i].kind, "again") /\ alive' = TRUE
  <2> DEFINE e == [proc[i] EXCEPT !.pid = p, !.exited = FALSE, !.chan = p]
  <2>1. proc[i] \in Entries
    BY <1>2 DEF IInv, Known, Table
  <2>2. /\ e \in Entries /\ e.pid = p /\ ~e.exited /\ e.kind = proc[i].kind
        /\ e.detached <=> proc[i].detached
    BY <1>3, <2>1 DEF Entries
  <2>3. /\ proc' = [proc EXCEPT ![i] = e]
        /\ last' = IF i > last THEN i ELSE last
        /\ child' = [child EXCEPT ![p] = [state |-> "run", kind |-> proc[i].kind, told |-> {}]]
    BY <1>6 DEF Fork
  <2> HIDE DEF e
  <2>4. child' = [child EXCEPT ![p] = [state |-> "run", kind |-> e.kind, told |-> {}]]
    BY <2>2, <2>3
  <2>5. e.detached => e.kind = "binary"
    BY <1>2, <2>2 DEF IInv, Known, Marked
  <2>6. i <= last + 1
    BY <1>1, MasterAssumption DEF IInv, Known, Table
  <2>7. Known'
    BY <1>1, <1>2, <1>3, <2>2, <2>3, <2>4, <2>5, <2>6, Forked DEF IInv
  <2>8. Searched'
    BY <1>6 DEF Searched
  <2> QED
    BY <1>5, <2>7, <2>8 DEF IInv
<1>7. CASE SpawnFailed(i, "fork") /\ alive' = alive
  <2>1. proc' = proc /\ last' = last /\ child' = child
    BY <1>7 DEF SpawnFailed
  <2>2. Known' /\ InTable' = InTable /\ \A s \in InTable : Over(s) => Over(s)'
    BY <2>1, Same DEF IInv
  <2>3. Searched'
    <3> SUFFICES ASSUME ~alive', NEW s \in InTable', s < i' PROVE Over(s)'
      BY DEF Searched
    <3>1. s \in InTable /\ s \in Nat
      BY <2>2, InTableIs DEF Slots
    <3>2. CASE s < i
      BY <1>1, <1>7, <2>2, <3>1, <3>2 DEF IInv, Searched
    <3>3. CASE s = i
      <4>1. Over(s)
        BY <1>1, <1>2, <3>3 DEF IInv, Known, Marked, Over, There
      <4> QED
        BY <2>2, <3>1, <4>1
    <3> QED
      BY <1>1, <3>1, <3>2, <3>3
  <2> QED
    BY <1>5, <2>2, <2>3 DEF IInv
<1> QED
  BY <1>4, <1>6, <1>7

LEMMA ReapDoneKeeps == IInv /\ ReapDone => IInv'
<1> SUFFICES ASSUME IInv, ReapDone PROVE IInv'
  OBVIOUS
<1>1. Known' /\ InTable' = InTable /\ \A s \in InTable : Over(s) => Over(s)'
  BY Same DEF IInv, ReapDone, table, kids
<1>2. /\ pc = "reap" /\ pc' = "decide" /\ i > last /\ live' = alive /\ i' = 1 /\ alive' = FALSE
      /\ UNCHANGED <<extra, style, ret>>
  BY DEF ReapDone
<1>3. Course' /\ Searched' /\ Renewed' /\ Left'
  <2>1. i' \in Nat \ {0}
    BY <1>2
  <2>2. alive' \in BOOLEAN /\ live' \in BOOLEAN
    BY <1>2 DEF IInv, Course
  <2>3. Course'
    BY <1>2, <2>1, <2>2 DEF IInv, Course, Points
  <2> QED
    BY <1>2, <2>3 DEF Searched, Renewed, Left, Spawning
<1>4. Deserted'
  <2> SUFFICES ASSUME ~live', NEW s \in InTable' PROVE Over(s)'
    BY DEF Deserted
  <2>1. s \in InTable /\ s < i
    <3>1. s \in InTable /\ s \in Slots /\ s <= last
      BY <1>1, InTableIs
    <3>2. s \in Nat /\ last \in Nat /\ i \in Nat
      BY <3>1, MasterAssumption DEF Slots, IInv, Known, Table, Course
    <3> QED
      BY <1>2, <3>1, <3>2
  <2> QED
    BY <1>1, <1>2, <2>1 DEF IInv, Searched
<1> QED
  BY <1>1, <1>3, <1>4 DEF IInv

(* What the flags ask for: the steps in the order of the loop.              *)
LEMMA ExitKeeps == IInv /\ MasterExit => IInv'
<1> SUFFICES ASSUME IInv, MasterExit PROVE IInv'
  OBVIOUS
<1>1. Known' /\ InTable' = InTable /\ \A s \in InTable : Over(s) => Over(s)'
  BY Same DEF IInv, MasterExit, table, kids
<1>2. /\ UNCHANGED <<live, extra, i, alive, style, ret>>
      /\ pc = "decide" /\ pc' = "exited" /\ ~live
  BY DEF MasterExit, settings, loop
<1> QED
  BY <1>1, <1>2, Quietly DEF Points, Spawning

LEMMA TerminateKeeps == IInv /\ Terminate => IInv'
<1> SUFFICES ASSUME IInv, Terminate PROVE IInv'
  OBVIOUS
<1>1. /\ UNCHANGED <<live, extra, i, alive, style, ret>> /\ last' = last
      /\ pc = "decide" /\ pc' = "suspend"
  BY DEF Terminate, Going, loop
<1>2. (proc' = proc /\ child' = child) \/ SignalWorkers("term") \/ SignalWorkers("kill")
  BY DEF Terminate
<1>3. Known' /\ InTable' = InTable /\ \A s \in InTable : Over(s) => Over(s)'
  <2>1. CASE proc' = proc /\ child' = child
    BY <1>1, <2>1, Same DEF IInv
  <2>2. CASE SignalWorkers("term")
    BY <1>1, <2>2, Signalled DEF IInv
  <2>3. CASE SignalWorkers("kill")
    BY <1>1, <2>3, Signalled DEF IInv
  <2> QED
    BY <1>2, <2>1, <2>2, <2>3
<1> QED
  BY <1>1, <1>3, Quietly DEF Points, Spawning

LEMMA QuitKeeps == IInv /\ Quit => IInv'
<1> SUFFICES ASSUME IInv, Quit PROVE IInv'
  OBVIOUS
<1>1. /\ UNCHANGED <<live, extra, i, alive, style, ret>> /\ last' = last
      /\ pc = "decide" /\ pc' = "suspend" /\ SignalWorkers("quit")
  BY DEF Quit, Going, loop
<1>2. Known' /\ InTable' = InTable /\ \A s \in InTable : Over(s) => Over(s)'
  BY <1>1, Signalled DEF IInv
<1> QED
  BY <1>1, <1>2, Quietly DEF Points, Spawning

LEMMA ReconfigureFailsKeeps == IInv /\ ReconfigureFails => IInv'
<1> SUFFICES ASSUME IInv, ReconfigureFails PROVE IInv'
  OBVIOUS
<1>1. Known' /\ InTable' = InTable /\ \A s \in InTable : Over(s) => Over(s)'
  BY Same DEF IInv, ReconfigureFails, table, kids
<1>2. /\ UNCHANGED <<live, extra, i, alive, style, ret>> /\ pc = "decide" /\ pc' = "suspend"
  BY DEF ReconfigureFails, Staying, Going, settings, loop
<1> QED
  BY <1>1, <1>2, Quietly DEF Points, Spawning

LEMMA NoReconfigureKeeps == IInv /\ NoReconfigure => IInv'
<1> SUFFICES ASSUME IInv, NoReconfigure PROVE IInv'
  OBVIOUS
<1>1. Known' /\ InTable' = InTable /\ \A s \in InTable : Over(s) => Over(s)'
  BY Same DEF IInv, NoReconfigure, table, kids
<1>2. /\ UNCHANGED <<live, extra, i, alive, style, ret>> /\ pc = "decide" /\ pc' = "restart"
  BY DEF NoReconfigure, Staying, Going, settings, loop
<1> QED
  BY <1>1, <1>2, Quietly DEF Points, Spawning

LEMMA ReconfigureKeeps == IInv /\ (ReconfigureOldBinary \/ Reconfigure) => IInv'
<1> SUFFICES ASSUME IInv, ReconfigureOldBinary \/ Reconfigure PROVE IInv'
  OBVIOUS
<1>1. Known'
  BY Same DEF IInv, ReconfigureOldBinary, Reconfigure, table, kids
<1>2. /\ UNCHANGED <<live, i, alive>> /\ pc' = "workers" /\ extra \in Nat
      /\ \/ extra' = extra + 1 /\ style' = "respawn" /\ ret' = "suspend"
         \/ extra' = extra /\ style' = "just_respawn" /\ ret' = "told"
  BY DEF ReconfigureOldBinary, Reconfigure, settings, IInv, Course
<1>3. extra' \in Nat /\ (extra' > 0 \/ ret' = "told")
  BY <1>2
<1>4. Course'
  BY <1>2, <1>3 DEF IInv, Course, Points, Spawning
<1>5. Searched' /\ Renewed' /\ Deserted' /\ Left'
  BY <1>2, <1>3 DEF Searched, Renewed, Deserted, Left, Spawning
<1> QED
  BY <1>1, <1>4, <1>5 DEF IInv

(* The spawning loops; where they lead, the old workers are told to leave   *)
(* unless the master knows that it is alive.                                *)
LEMMA Spawns ==
  ASSUME IInv, Known', UNCHANGED <<live, extra, i, alive, style, ret>>,
         pc \in Spawning, pc' \in Spawning \cup {ret}
  PROVE  IInv'
<1>1. ret \in {"suspend", "told", "reopen"}
  BY DEF IInv, Course
<1>2. Course'
  BY <1>1 DEF IInv, Course, Points, Spawning
<1>3. Searched' /\ Left'
  BY <1>1 DEF Searched, Left, Spawning
<1>4. Renewed'
  BY DEF IInv, Renewed
<1>5. Deserted'
  <2>1. live \/ extra > 0 \/ ret = "told"
    BY DEF IInv, Renewed
  <2>2. extra > 0 => extra # 0
    OBVIOUS
  <2> QED
    BY <2>1, <2>2 DEF Deserted
<1> QED
  BY <1>2, <1>3, <1>4, <1>5 DEF IInv

LEMMA SpawningKeeps ==
  IInv /\ (StartWorker \/ WorkersStarted \/ StartManager \/ StartLoader) => IInv'
<1> SUFFICES ASSUME IInv, StartWorker \/ WorkersStarted \/ StartManager \/ StartLoader
             PROVE  IInv'
  OBVIOUS
<1>1. /\ style \in {"respawn", "just_respawn"} /\ Known
  BY DEF IInv, Course
<1>2. CASE StartWorker
  <2>1. Known'
    BY <1>1, <1>2, Started DEF StartWorker
  <2>2. /\ UNCHANGED <<live, extra, i, alive, style, ret>>
        /\ pc \in Spawning /\ pc' \in Spawning \cup {ret}
    BY <1>2 DEF StartWorker, settings, Spawning
  <2> QED
    BY <2>1, <2>2, Spawns
<1>3. CASE WorkersStarted
  <2>1. Known'
    BY <1>1, <1>3, Same DEF WorkersStarted, table, kids
  <2>2. /\ UNCHANGED <<live, extra, i, alive, style, ret>>
        /\ pc \in Spawning /\ pc' \in Spawning \cup {ret}
    BY <1>3 DEF WorkersStarted, settings, loop, Spawning
  <2> QED
    BY <2>1, <2>2, Spawns
<1>4. CASE StartManager
  <2>1. Known'
    BY <1>1, <1>4, Started DEF StartManager
  <2>2. /\ UNCHANGED <<live, extra, i, alive, style, ret>>
        /\ pc \in Spawning /\ pc' \in Spawning \cup {ret}
    BY <1>4 DEF StartManager, settings, loop, Spawning
  <2> QED
    BY <2>1, <2>2, Spawns
<1>5. CASE StartLoader
  <2>1. Known'
    BY <1>1, <1>5, Started DEF StartLoader
  <2>2. /\ UNCHANGED <<live, extra, i, alive, style, ret>>
        /\ pc \in Spawning /\ pc' \in Spawning \cup {ret}
    BY <1>5 DEF StartLoader, settings, loop, Spawning
  <2> QED
    BY <2>1, <2>2, Spawns
<1> QED
  BY <1>2, <1>3, <1>4, <1>5

LEMMA TellOldKeeps == IInv /\ TellOld => IInv'
<1> SUFFICES ASSUME IInv, TellOld PROVE IInv'
  OBVIOUS
<1>1. /\ UNCHANGED <<extra, i, alive, style, ret>> /\ last' = last
      /\ live' = TRUE /\ pc' = "restart" /\ SignalWorkers("quit")
  BY DEF TellOld, loop
<1>2. Known'
  BY <1>1, Signalled DEF IInv
<1>3. Course'
  BY <1>1 DEF IInv, Course, Points
<1>4. Searched' /\ Renewed' /\ Deserted' /\ Left'
  BY <1>1 DEF Searched, Renewed, Deserted, Left, Spawning
<1> QED
  BY <1>2, <1>3, <1>4 DEF IInv

LEMMA RestartKeeps == IInv /\ Restart => IInv'
<1> SUFFICES ASSUME IInv, Restart PROVE IInv'
  OBVIOUS
<1>1. Known' /\ InTable' = InTable /\ \A s \in InTable : Over(s) => Over(s)'
  BY Same DEF IInv, Restart, table, kids
<1>2. i' = i /\ alive' = alive /\ pc = "restart" /\ extra \in Nat
  BY DEF Restart, IInv, Course
<1>3. CASE "restart" \in flags
  <2>1. /\ live' = TRUE /\ style' = "respawn" /\ ret' = "reopen" /\ pc' = "workers"
        /\ extra' = extra + 1
    BY <1>3 DEF Restart
  <2>2. extra' \in Nat
    BY <1>2, <2>1
  <2>3. Course'
    BY <1>2, <2>1, <2>2 DEF IInv, Course, Points, Spawning
  <2>4. Searched' /\ Renewed' /\ Deserted' /\ Left'
    BY <2>1 DEF Searched, Renewed, Deserted, Left, Spawning
  <2> QED
    BY <1>1, <2>3, <2>4 DEF IInv
<1>4. CASE "restart" \notin flags
  <2>1. UNCHANGED <<live, extra, style, ret>> /\ pc' = "reopen"
    BY <1>4 DEF Restart
  <2> QED
    BY <1>1, <1>2, <2>1, Quietly DEF Points, Spawning
<1> QED
  BY <1>3, <1>4

LEMMA ReopenKeeps == IInv /\ Reopen => IInv'
<1> SUFFICES ASSUME IInv, Reopen PROVE IInv'
  OBVIOUS
<1>1. /\ UNCHANGED <<live, extra, i, alive, style, ret>> /\ last' = last
      /\ pc = "reopen" /\ pc' = "binary"
  BY DEF Reopen, settings, loop
<1>2. (proc' = proc /\ child' = child) \/ SignalWorkers("reopen")
  BY DEF Reopen
<1>3. Known' /\ InTable' = InTable /\ \A s \in InTable : Over(s) => Over(s)'
  <2>1. CASE proc' = proc /\ child' = child
    BY <1>1, <2>1, Same DEF IInv
  <2>2. CASE SignalWorkers("reopen")
    BY <1>1, <2>2, Signalled DEF IInv
  <2> QED
    BY <1>2, <2>1, <2>2
<1> QED
  BY <1>1, <1>3, Quietly DEF Points, Spawning

LEMMA NoAcceptKeeps == IInv /\ NoAccept => IInv'
<1> SUFFICES ASSUME IInv, NoAccept PROVE IInv'
  OBVIOUS
<1>1. /\ UNCHANGED <<live, extra, i, alive, style, ret>> /\ last' = last
      /\ pc = "noaccept" /\ pc' = "suspend"
  BY DEF NoAccept, loop
<1>2. (proc' = proc /\ child' = child) \/ SignalWorkers("quit")
  BY DEF NoAccept
<1>3. Known' /\ InTable' = InTable /\ \A s \in InTable : Over(s) => Over(s)'
  <2>1. CASE proc' = proc /\ child' = child
    BY <1>1, <2>1, Same DEF IInv
  <2>2. CASE SignalWorkers("quit")
    BY <1>1, <2>2, Signalled DEF IInv
  <2> QED
    BY <1>2, <2>1, <2>2
<1> QED
  BY <1>1, <1>3, Quietly DEF Points, Spawning

(* The new binary is in the table, but nobody waits for it. *)
LEMMA ChangeBinaryKeeps == IInv /\ ChangeBinary => IInv'
<1> SUFFICES ASSUME IInv, ChangeBinary PROVE IInv'
  OBVIOUS
<1>s. PICK s : s = SlotFor(None)
  OBVIOUS
<1>p. PICK p : p = Min(FreePids)
  OBVIOUS
<1>1. /\ UNCHANGED <<live, extra, i, alive, style, ret>>
      /\ pc = "binary" /\ pc' = "noaccept"
  BY DEF ChangeBinary, loop
<1>2. \/ proc' = proc /\ last' = last /\ child' = child
      \/ s <= MaxProcs /\ Fork(s, p, "binary", "detached")
  BY <1>s, <1>p DEF ChangeBinary, SpawnFailed, table, kids
<1>3. CASE proc' = proc /\ last' = last /\ child' = child
  <2>1. Known' /\ InTable' = InTable /\ \A t \in InTable : Over(t) => Over(t)'
    BY <1>3, Same DEF IInv
  <2> QED
    BY <1>1, <2>1, Quietly DEF Points, Spawning
<1>4. CASE s <= MaxProcs /\ Fork(s, p, "binary", "detached")
  <2>1. /\ s \in Slots /\ s <= last + 1 /\ s \notin InTable /\ p \in FreePids /\ p \in Pids
    <3>1. s \in 1..(last + 1) /\ s \notin InTable /\ p \in FreePids
      BY <1>s, <1>p, SlotIs, PidIs DEF IInv
    <3>2. last \in Nat /\ MaxProcs \in Nat
      BY MasterAssumption DEF IInv, Known, Table
    <3> QED
      BY <1>4, <3>1, <3>2 DEF Slots, FreePids
  <2> DEFINE e == [pid |-> p, exited |-> FALSE, exiting |-> FALSE,
                   detached |-> Styles["detached"].detached,
                   respawn |-> Styles["detached"].respawn,
                   just |-> Styles["detached"].just,
                   chan |-> IF "detached" = "detached" THEN None ELSE p,
                   kind |-> "binary"]
  <2>2. /\ proc' = [proc EXCEPT ![s] = e]
        /\ last' = IF s > last THEN s ELSE last
        /\ child' = [child EXCEPT ![p] = [state |-> "run", kind |-> "binary", told |-> {}]]
    BY <1>4 DEF Fork
  <2>3. e \in Entries /\ e.pid = p /\ ~e.exited /\ e.detached /\ e.kind = "binary"
    <3>1. /\ Styles.detached.detached = TRUE /\ Styles.detached.respawn = FALSE
          /\ Styles.detached.just = FALSE
      BY DEF Styles
    <3> QED
      BY <2>1, <3>1 DEF Entries, Kinds
  <2> HIDE DEF e
  <2>4. child' = [child EXCEPT ![p] = [state |-> "run", kind |-> e.kind, told |-> {}]]
    BY <2>2, <2>3
  <2>5. s \in InTable => proc[s].exited
    BY <2>1
  <2>6. /\ Known'
        /\ \A t \in InTable' : t = s \/ (t \in InTable /\ (Over(t) => Over(t)'))
        /\ Over(s)'
    <3>1. e.detached => e.kind = "binary"
      BY <2>3
    <3>2. Known
      BY DEF IInv
    <3>3. /\ Known'
          /\ \A t \in InTable' : t = s \/ (t \in InTable /\ (Over(t) => Over(t)'))
          /\ e.detached => Over(s)'
      BY <2>1, <2>2, <2>3, <2>4, <2>5, <3>1, <3>2, Forked
    <3> QED
      BY <2>3, <3>3
  <2>7. Course'
    BY <1>1 DEF IInv, Course, Points
  <2>8. Searched' /\ Renewed' /\ Left'
    BY <1>1 DEF Searched, Renewed, Left, Spawning
  <2>9. Deserted'
    <3> SUFFICES ASSUME ~live', extra' = 0, NEW t \in InTable' PROVE Over(t)'
      BY DEF Deserted
    <3>1. \A r \in InTable : Over(r)
      BY <1>1 DEF IInv, Deserted, Spawning
    <3>2. CASE t = s
      BY <2>6, <3>2
    <3>3. CASE t \in InTable /\ (Over(t) => Over(t)')
      BY <3>1, <3>3
    <3> QED
      BY <2>6, <3>2, <3>3
  <2> QED
    BY <2>6, <2>7, <2>8, <2>9 DEF IInv
<1> QED
  BY <1>2, <1>3, <1>4

LEMMA ChildKeeps ==
  ASSUME IInv, NEW p \in Pids, ChildExit(p) \/ ChildKilled(p) \/ ChildFails(p)
  PROVE  IInv'
<1>1. Running(p) /\ \E st \in {"zombie", "fatal"} : Leave(p, st)
  BY DEF ChildExit, ChildKilled, ChildFails
<1>2. PICK st \in {"zombie", "fatal"} : Leave(p, st)
  BY <1>1
<1>3. Known' /\ InTable' = InTable /\ \A s \in InTable : Over(s) => Over(s)'
  BY <1>1, <1>2, LeftBehind DEF IInv
<1>4. UNCHANGED <<live, extra, i, alive, style, ret, pc>>
  BY <1>2 DEF Leave, settings, loop
<1> QED
  BY <1>3, <1>4, Beside

LEMMA ElseKeeps ==
  ASSUME IInv, UNCHANGED <<table, settings, loop, pc, kids, extra>>
  PROVE  IInv'
<1>1. Known' /\ InTable' = InTable /\ \A s \in InTable : Over(s) => Over(s)'
  BY Same DEF IInv, table, kids
<1>2. UNCHANGED <<live, extra, i, alive, style, ret, pc>>
  BY DEF settings, loop
<1> QED
  BY <1>1, <1>2, Beside

-----------------------------------------------------------------------------
LEMMA InitIInv == Init => IInv
<1> SUFFICES ASSUME Init PROVE IInv
  OBVIOUS
<1>1. InTable = {}
  BY DEF Init, InTable, Slots
<1>2. Table
  <2>1. NoProc \in Entries
    BY DEF NoProc, Entries, Kinds
  <2>2. NoChild \in Children
    <3>1. {} \in SUBSET {"term", "kill", "quit"}
      OBVIOUS
    <3> QED
      BY <3>1 DEF NoChild, Children, Kinds
  <2>3. last \in 0..MaxProcs
    <3>1. last = 0 /\ MaxProcs \in Nat
      BY MasterAssumption DEF Init
    <3> QED
      BY <3>1
  <2> QED
    BY <2>1, <2>2, <2>3 DEF Init, Table
<1>3. Placed
  BY DEF Init, Placed, There, NoChild
<1>4. Alone /\ Marked
  BY <1>1 DEF Alone, Marked
<1>5. Course
  <2>1. i \in Nat \ {0} /\ extra \in Nat
    BY DEF Init
  <2> QED
    BY <2>1 DEF Init, Course, Points, Spawning
<1>6. Searched /\ Renewed /\ Deserted /\ Left
  BY DEF Init, Searched, Renewed, Deserted, Left, Spawning
<1> QED
  BY <1>2, <1>3, <1>4, <1>5, <1>6 DEF IInv, Known

LEMMA NextIInv == IInv /\ [Next]_vars => IInv'
<1> SUFFICES ASSUME IInv, [Next]_vars PROVE IInv'
  OBVIOUS
<1>1. CASE MasterStep
  BY <1>1, SuspendKeeps, WakeKeeps, ReapPassKeeps, ReapGoneKeeps, ReapRespawnKeeps,
     ReapDoneKeeps, ExitKeeps, TerminateKeeps, QuitKeeps, ReconfigureFailsKeeps,
     NoReconfigureKeeps, ReconfigureKeeps, SpawningKeeps, TellOldKeeps, RestartKeeps,
     ReopenKeeps, ChangeBinaryKeeps, NoAcceptKeeps DEF MasterStep
<1>2. CASE \E p \in Pids : ChildExit(p) \/ ChildKilled(p) \/ ChildFails(p)
  BY <1>2, ChildKeeps
<1>3. CASE \E g \in Signals : Kill(g)
  BY <1>3, ElseKeeps DEF Kill
<1>4. CASE Alarm
  BY <1>4, ElseKeeps DEF Alarm
<1>5. CASE UNCHANGED vars
  BY <1>5, ElseKeeps DEF vars
<1> QED
  BY <1>1, <1>2, <1>3, <1>4, <1>5 DEF Next

LEMMA IInvNobodyLost == IInv => NobodyLost
<1> SUFFICES ASSUME IInv PROVE NobodyLost
  OBVIOUS
<1>1. ASSUME NEW p \in Pids, Running(p)
      PROVE  Cardinality({s \in InTable : proc[s].pid = p}) = 1
  <2>1. There(p)
    BY <1>1 DEF Running, There
  <2>2. PICK s \in InTable : proc[s].pid = p
    BY <2>1 DEF IInv, Known, Placed
  <2>3. {t \in InTable : proc[t].pid = p} = {s}
    BY <2>2 DEF IInv, Known, Alone
  <2>4. Cardinality({s}) = 1
    BY FS_Singleton
  <2> QED
    BY <2>3, <2>4
<1>2. ASSUME pc = "exited", extra = 0, NEW p \in Orphans PROVE FALSE
  <2>1. p \in Pids /\ Running(p) /\ child[p].kind # "binary" /\ There(p)
    BY DEF Orphans, Running, There
  <2>2. PICK s \in InTable : proc[s].pid = p
    BY <2>1 DEF IInv, Known, Placed
  <2>3. Over(s)
    BY <1>2, <2>2 DEF IInv, Left, Deserted, Spawning
  <2>4. proc[s].detached
    BY <2>1, <2>2, <2>3 DEF Over
  <2> QED
    BY <2>1, <2>2, <2>4 DEF IInv, Known, Marked
<1> QED
  BY <1>1, <1>2 DEF NobodyLost, Tracked, LeavesNobody

(* NobodyLost: a process that ngx_spawn_process() has made is in one slot   *)
(* of ngx_processes[] for as long as it runs, so that                       *)
(* ngx_signal_worker_processes() reaches it, whatever ngx_reap_children()   *)
(* removes or respawns, also when the table is full or fork() fails; and    *)
(* ngx_master_process_exit() is called after the last of them, unless the   *)
(* master has started its workers again beside a new binary.                *)
THEOREM NobodyIsLost == Spec => []NobodyLost
<1>1. IInv /\ [Next]_vars => IInv'
  BY NextIInv
<1> QED
  BY InitIInv, NextIInv, IInvNobodyLost, PTL DEF Spec
=============================================================================
