------------------------- MODULE AcceptMutexProofs -------------------------
(***************************************************************************)
(* Proofs about AcceptMutex for any workers, listening sockets, connection *)
(* limits and faults: outside its accept phase no worker owns the mutex,   *)
(* and, unless an epoll_ctl() that takes a socket out fails, a worker that *)
(* sleeps with the mutex waits for every listening socket.                 *)
(***************************************************************************)
EXTENDS AcceptMutex, TLAPS

Alive(w) == pc[w] \notin {"dead", "reaped"}

(* A socket cannot have more waiting connections than ever arrived, and a  *)
(* worker waits for its own and the shared sockets only.                   *)
Bounded ==
  /\ \A s \in Sockets : backlog[s] <= arrivals
  /\ \A w \in Workers : active[w] \subseteq Visible(w)

(* Who owns the mutex is in its accept phase, or dead and not yet reaped,  *)
(* and its ngx_accept_mutex_held is set; ngx_use_accept_mutex and the      *)
(* listening sockets go together.                                          *)
Owned ==
  \A w \in Workers :
    /\ lock = w => held[w] /\ pc[w] \in {"poll", "events", "dead"}
    /\ held[w] => mutex[w]
    /\ mutex[w] => ~closed[w]

(* As long as ngx_accept_mutex_held is set, every listening socket is in   *)
(* epoll, in the rounds in between in which the mutex was not tried too.   *)
HeldListens ==
  \A w \in Workers : held[w] /\ Alive(w) => active[w] = Visible(w)

IInv == TypeOK /\ Bounded /\ Owned

LEMMA SpareType == Spare \in Nat
  BY AcceptAssumption DEF Spare

(* The two visits of the listening sockets stay within what is visible.    *)
LEMMA EnableVisible ==
  ASSUME NEW w \in Workers, NEW ok, NEW on, active[w] \subseteq Visible(w), EnableEvents(w, ok, on)
  PROVE  on \subseteq Visible(w)
  BY DEF EnableEvents, Listed, Visible

LEMMA DisableVisible ==
  ASSUME NEW w \in Workers, NEW all, NEW ok, NEW on, active[w] \subseteq Visible(w),
         DisableEvents(w, all, ok, on)
  PROVE  on \subseteq Visible(w)
  BY DEF DisableEvents

(* A fault is counted within its bound.                                    *)
LEMMA Charged ==
  ASSUME TypeOK, NEW fault \in BOOLEAN, Charge(fault)
  PROVE  faults' \in 0..MaxFaults
  BY AcceptAssumption DEF TypeOK, Charge

(* Taking a connection drains only what is open and keeps within the       *)
(* connections the worker has.                                             *)
LEMMA TakeTyped ==
  ASSUME TypeOK, NEW w \in Workers, cur[w] # None, Take(w)
  PROVE  /\ open' \in [Workers -> 0..Spare] /\ disabled' \in [Workers -> Int]
         /\ cur' \in [Workers -> Sockets \cup {None}]
         /\ backlog' \in [Sockets -> 0..MaxArrivals]
         /\ \A s \in Sockets : backlog'[s] <= backlog[s]
  <1>1. PICK drained \in 0..open[w], kept \in BOOLEAN :
          /\ Free(w) > 0 => drained = 0
          /\ Free(w) + drained = 0 => ~kept
          /\ open' = Set(open, w, open[w] - drained + (IF kept THEN 1 ELSE 0))
          /\ cur' = Set(cur, w, IF kept /\ MultiAccept THEN cur[w] ELSE None)
    BY DEF Take
  <1>2. cur[w] \in Sockets /\ backlog[cur[w]] \in 0..MaxArrivals /\ backlog[cur[w]] > 0
    BY DEF Take, TypeOK
  <1>3. MaxArrivals \in Nat /\ ConnN \in Nat
    BY AcceptAssumption
  <1>4. backlog' = [backlog EXCEPT ![cur[w]] = @ - 1]
    BY DEF Take
  <1>5. backlog' \in [Sockets -> 0..MaxArrivals] /\ \A s \in Sockets : backlog'[s] <= backlog[s]
    BY <1>2, <1>3, <1>4 DEF TypeOK
  <1>6. open[w] \in 0..Spare /\ Free(w) = Spare - open[w]
    BY DEF TypeOK, Free
  <1>7. open[w] - drained + (IF kept THEN 1 ELSE 0) \in 0..Spare
    BY <1>1, <1>6, SpareType
  <1>8. open' \in [Workers -> 0..Spare]
    BY <1>1, <1>7 DEF TypeOK, Set
  <1>9. cur' \in [Workers -> Sockets \cup {None}]
    BY <1>1 DEF TypeOK, Set
  <1>10. disabled' \in [Workers -> Int]
    BY <1>3, <1>6, SpareType DEF Take, TypeOK, Set
  <1>11. QED
    BY <1>5, <1>8, <1>9, <1>10

(* The actions keep the types, the bounds and the ownership of the mutex.  *)
LEMMA IInvPreserved == IInv /\ [Next]_vars => IInv'
  <1> SUFFICES ASSUME IInv, [Next]_vars PROVE IInv'
    OBVIOUS
  <1> USE AcceptAssumption, SpareType DEF IInv, TypeOK, Bounded, Owned, Set
  <1>1. ASSUME NEW w \in Workers, SkipMutex(w) PROVE IInv'
    BY <1>1 DEF SkipMutex, Visible
  <1>2. ASSUME NEW w \in Workers, TryLock(w) PROVE IInv'
    <2>1. PICK ok \in BOOLEAN, on \in SUBSET Sockets :
            /\ IF held[w] THEN ok /\ on = active[w] ELSE EnableEvents(w, ok, on)
            /\ Charge(~ok)
            /\ active' = Set(active, w, on)
            /\ lock' = IF ok THEN w ELSE None
            /\ held' = Set(held, w, held[w] \/ ok)
            /\ pc' = Set(pc, w, IF ok THEN "poll" ELSE "loop")
            /\ post' = Set(post, w, ok)
            /\ delay' = Set(delay, w, FALSE)
      BY <1>2 DEF TryLock
    <2>2. on \subseteq Visible(w)
      BY <2>1, EnableVisible
    <2>3. faults' \in 0..MaxFaults
      BY <2>1, Charged
    <2>4. UNCHANGED <<directive, backlog, mutex, closed, disabled, todo, cur, armed,
                      expired, open, arrivals>> /\ mutex[w] /\ lock = None
      BY <1>2 DEF TryLock
    <2>5. TypeOK'
      BY <2>1, <2>3, <2>4
    <2>6. Bounded'
      BY <2>1, <2>2, <2>4 DEF Visible
    <2>7. Owned'
      BY <2>1, <2>4
    <2>8. QED
      BY <2>5, <2>6, <2>7
  <1>3. ASSUME NEW w \in Workers, LoseLock(w) PROVE IInv'
    <2>1. PICK ok \in BOOLEAN, on \in SUBSET Sockets :
            /\ IF held[w] THEN DisableEvents(w, FALSE, ok, on) ELSE ok /\ on = active[w]
            /\ Charge(~ok)
            /\ active' = Set(active, w, on)
            /\ held' = Set(held, w, held[w] /\ ~ok)
            /\ pc' = Set(pc, w, IF ok THEN "poll" ELSE "loop")
            /\ post' = Set(post, w, FALSE)
            /\ delay' = Set(delay, w, ok)
      BY <1>3 DEF LoseLock
    <2>2. on \subseteq Visible(w)
      <3>1. active[w] \subseteq Visible(w)
        OBVIOUS
      <3>2. CASE held[w]
        BY <2>1, <3>1, <3>2, DisableVisible
      <3>3. CASE ~held[w]
        BY <2>1, <3>1, <3>3
      <3>4. QED
        BY <3>2, <3>3
    <2>3. faults' \in 0..MaxFaults
      BY <2>1, Charged
    <2>4. QED
      BY <1>3, <2>1, <2>2, <2>3 DEF LoseLock, Visible
  <1>4. ASSUME NEW w \in Workers, Wake(w) \/ Interrupt(w) PROVE IInv'
    BY SMTT(60), <1>4 DEF Wake, Interrupt, Ready, Visible
  <1>5. ASSUME NEW w \in Workers, NEW s \in Sockets, Dispatch(w, s) PROVE IInv'
    <2>1. CASE s \notin active[w] /\ UNCHANGED <<cur, active, expired, faults>>
      BY <1>5, <2>1 DEF Dispatch, Visible
    <2>2. ASSUME NEW ok \in BOOLEAN, NEW on \in SUBSET Sockets,
                 IF s \in expired[w] THEN EnableEvents(w, ok, on) ELSE ok /\ on = active[w],
                 Charge(~ok), active' = Set(active, w, on),
                 expired' = Set(expired, w, IF ok THEN expired[w] \ {s} ELSE expired[w]),
                 cur' = Set(cur, w, IF ok THEN s ELSE None)
          PROVE  IInv'
      <3>1. on \subseteq Visible(w)
        BY <2>2, EnableVisible
      <3>2. faults' \in 0..MaxFaults
        BY <2>2, Charged
      <3>3. QED
        BY <1>5, <2>2, <3>1, <3>2 DEF Dispatch, Visible
    <2>3. QED
      BY Zenon, <1>5, <2>1, <2>2 DEF Dispatch
  <1>6. ASSUME NEW w \in Workers, AcceptAgain(w) PROVE IInv'
    BY <1>6 DEF AcceptAgain, Visible
  <1>7. ASSUME NEW w \in Workers, AcceptAborted(w) PROVE IInv'
    BY <1>7 DEF AcceptAborted, Visible
  <1>8. ASSUME NEW w \in Workers, Accept(w) \/ RecvMsg(w) PROVE IInv'
    <2>1. Take(w) /\ cur[w] # None
      BY <1>8 DEF Accept, RecvMsg
    <2>2. /\ open' \in [Workers -> 0..Spare] /\ disabled' \in [Workers -> Int]
          /\ cur' \in [Workers -> Sockets \cup {None}]
          /\ backlog' \in [Sockets -> 0..MaxArrivals]
          /\ \A s \in Sockets : backlog'[s] <= backlog[s]
      BY <2>1, TakeTyped
    <2>3. UNCHANGED <<directive, lock, pc, mutex, closed, held, active, post, delay,
                      todo, armed, expired, faults, arrivals>>
      BY <2>1 DEF Take
    <2>4. \A s \in Sockets : backlog'[s] <= arrivals'
      BY <2>2, <2>3
    <2>5. QED
      BY <2>2, <2>3, <2>4 DEF Visible
  <1>9. ASSUME NEW w \in Workers, AcceptNoFile(w) PROVE IInv'
    <2>1. PICK ok \in BOOLEAN, on \in SUBSET Sockets :
            /\ DisableEvents(w, TRUE, ok, on)
            /\ active' = Set(active, w, on)
            /\ IF ok /\ mutex[w]
                 THEN /\ lock' = IF held[w] /\ lock = w THEN None ELSE lock
                      /\ held' = Set(held, w, FALSE)
                      /\ disabled' = Set(disabled, w, 1)
                      /\ UNCHANGED armed
                 ELSE /\ armed' = Set(armed, w, IF ok THEN armed[w] \cup {cur[w]} ELSE armed[w])
                      /\ UNCHANGED <<lock, held, disabled>>
      BY <1>9 DEF AcceptNoFile
    <2>2. on \subseteq Visible(w)
      BY <2>1, DisableVisible
    <2>3. faults' \in 0..MaxFaults
      BY <1>9, Charged DEF AcceptNoFile
    <2>4. /\ UNCHANGED <<directive, backlog, pc, mutex, closed, post, delay, todo,
                         expired, open, arrivals>>
          /\ cur[w] \in Sockets /\ cur' = Set(cur, w, None)
      BY <1>9 DEF AcceptNoFile
    <2>5. TypeOK'
      <3>1. armed' \in [Workers -> SUBSET Sockets]
        BY <2>1, <2>4
      <3>2. /\ lock' \in Workers \cup {None} /\ held' \in [Workers -> BOOLEAN]
            /\ disabled' \in [Workers -> Int]
        <4>1. CASE ok /\ mutex[w]
          <5>1. lock' = (IF held[w] /\ lock = w THEN None ELSE lock) /\ held' = Set(held, w, FALSE)
                /\ disabled' = Set(disabled, w, 1)
            BY <2>1, <4>1
          <5>2. lock' \in Workers \cup {None}
            BY <5>1
          <5>3. held' \in [Workers -> BOOLEAN]
            BY <5>1
          <5>4. disabled' \in [Workers -> Int]
            BY <5>1
          <5>5. QED
            BY <5>2, <5>3, <5>4
        <4>2. CASE ~(ok /\ mutex[w])
          BY <2>1, <4>2
        <4>3. QED
          BY <4>1, <4>2
      <3>3. active' \in [Workers -> SUBSET Sockets] /\ cur' \in [Workers -> Sockets \cup {None}]
        BY <2>1, <2>4
      <3>4. QED
        BY <2>3, <2>4, <3>1, <3>2, <3>3
    <2>6. Bounded'
      BY <2>1, <2>2, <2>4 DEF Visible
    <2>7. Owned'
      BY <2>1, <2>4
    <2>8. QED
      BY <2>5, <2>6, <2>7
  <1>10. ASSUME NEW w \in Workers, Release(w) PROVE IInv'
    BY <1>10 DEF Release, Visible
  <1>11. ASSUME NEW w \in Workers, NEW s \in Sockets, Expire(w, s) PROVE IInv'
    <2>1. PICK ok \in BOOLEAN, on \in SUBSET Sockets :
            /\ EnableEvents(w, ok, on)
            /\ Charge(~ok)
            /\ active' = Set(active, w, on)
            /\ expired' = Set(expired, w, IF ok THEN expired[w] \ {s} ELSE expired[w] \cup {s})
            /\ cur' = Set(cur, w, IF ok THEN s ELSE None)
      BY <1>11 DEF Expire
    <2>2. on \subseteq Visible(w)
      BY <2>1, EnableVisible
    <2>3. faults' \in 0..MaxFaults
      BY <2>1, Charged
    <2>4. QED
      BY <1>11, <2>1, <2>2, <2>3 DEF Expire, Visible
  <1>12. ASSUME NEW w \in Workers, EndRound(w) PROVE IInv'
    BY <1>12 DEF EndRound, Visible
  <1>13. ASSUME NEW w \in Workers, CloseListening(w) PROVE IInv'
    BY <1>13 DEF CloseListening, Visible
  <1>14. ASSUME NEW w \in Workers, Crash(w) PROVE IInv'
    <2>1. faults' \in 0..MaxFaults
      BY <1>14, Charged DEF Crash
    <2>2. QED
      BY <1>14, <2>1 DEF Crash, Visible
  <1>15. ASSUME NEW w \in Workers, Reap(w) \/ Restart(w) PROVE IInv'
    <2>1. CASE Reap(w)
      BY <2>1 DEF Reap, Visible
    <2>2. CASE Restart(w)
      <3>1. PICK on \in SUBSET Sockets : on \subseteq Visible(w) /\ active' = Set(active, w, on)
        BY <2>2 DEF Restart, Visible
      <3>2. Bounded'
        BY <2>2, <3>1 DEF Restart, Visible
      <3>3. QED
        BY <2>2, <3>1, <3>2 DEF Restart
    <2>3. QED
      BY <1>15, <2>1, <2>2
  <1>16. ASSUME NEW s \in Sockets, Arrive(s) PROVE IInv'
    BY <1>16 DEF Arrive, local, Visible
  <1>17. CASE UNCHANGED vars
    BY <1>17 DEF vars, local, Visible
  <1>18. QED
    BY Zenon, <1>1, <1>2, <1>3, <1>4, <1>5, <1>6, <1>7, <1>8, <1>9, <1>10, <1>11, <1>12, <1>13,
       <1>14, <1>15, <1>16, <1>17 DEF Next, Round

LEMMA IInvInvariant == Spec => []IInv
  <1>1. Init => IInv
    <2> SUFFICES ASSUME Init PROVE IInv
      OBVIOUS
    <2> USE AcceptAssumption, SpareType DEF Init
    <2>1. directive \in BOOLEAN
      OBVIOUS
    <2>2. \A w \in Workers : Visible(w) \in SUBSET Sockets
      BY DEF Visible
    <2>3. active \in [Workers -> SUBSET Sockets] /\ \A w \in Workers : active[w] \subseteq Visible(w)
      <3>1. CASE directive
        BY <2>2, <3>1
      <3>2. CASE ~directive
        BY <2>2, <3>2
      <3>3. QED
        BY <3>1, <3>2
    <2>4. TypeOK
      BY <2>1, <2>3 DEF TypeOK
    <2>5. Bounded /\ Owned
      BY <2>3 DEF Bounded, Owned
    <2>6. QED
      BY <2>4, <2>5 DEF IInv
  <1>2. QED
    BY <1>1, IInvPreserved, PTL DEF Spec

(* Every early return, the EMFILE path and a lost ngx_accept_mutex_held    *)
(* included, no worker keeps the mutex outside its accept phase, however   *)
(* many workers and sockets there are and whatever fails.                  *)
THEOREM MutexReleased == Spec => []RoundReleases
  <1>1. IInv => RoundReleases
    BY DEF IInv, Owned, RoundReleases
  <1>2. QED
    BY <1>1, IInvInvariant, PTL

-----------------------------------------------------------------------------
(* Only LoseLock() and AcceptNoFile() take sockets out while the mutex is  *)
(* in use, and both clear ngx_accept_mutex_held, unless epoll_ctl() fails. *)
LEMMA HeldListensPreserved ==
  ASSUME "del" \notin FailingCalls, IInv, HeldListens, [Next]_vars
  PROVE  HeldListens'
  <1> USE AcceptAssumption DEF IInv, TypeOK, Bounded, Owned, HeldListens, Alive, Set
  <1>1. ASSUME NEW w \in Workers, SkipMutex(w) \/ Wake(w) \/ Interrupt(w) PROVE HeldListens'
    BY SMTT(60), <1>1 DEF SkipMutex, Wake, Interrupt, Visible
  <1>2. ASSUME NEW w \in Workers, TryLock(w) PROVE HeldListens'
    <2>1. CASE held[w]
      BY <1>2, <2>1 DEF TryLock, Visible
    <2>2. CASE ~held[w]
      BY <1>2, <2>2 DEF TryLock, EnableEvents, Listed, Visible
    <2>3. QED
      BY <2>1, <2>2
  <1>3. ASSUME NEW w \in Workers, LoseLock(w) PROVE HeldListens'
    BY <1>3 DEF LoseLock, DisableEvents, Visible
  <1>4. ASSUME NEW w \in Workers, NEW s \in Sockets, Dispatch(w, s) \/ Expire(w, s) PROVE HeldListens'
    BY SMTT(60), <1>4 DEF Dispatch, Expire, EnableEvents, Listed, Visible
  <1>5. ASSUME NEW w \in Workers, AcceptAgain(w) \/ AcceptAborted(w) PROVE HeldListens'
    BY <1>5 DEF AcceptAgain, AcceptAborted, Visible
  <1>6. ASSUME NEW w \in Workers, Accept(w) \/ RecvMsg(w) PROVE HeldListens'
    BY <1>6 DEF Accept, RecvMsg, Take, Visible
  <1>7. ASSUME NEW w \in Workers, AcceptNoFile(w) PROVE HeldListens'
    BY <1>7 DEF AcceptNoFile, DisableEvents, Visible
  <1>8. ASSUME NEW w \in Workers, Release(w) \/ EndRound(w) PROVE HeldListens'
    BY <1>8 DEF Release, EndRound, Visible
  <1>9. ASSUME NEW w \in Workers, CloseListening(w) PROVE HeldListens'
    BY <1>9 DEF CloseListening, Visible
  <1>10. ASSUME NEW w \in Workers, Crash(w) \/ Reap(w) \/ Restart(w) PROVE HeldListens'
    <2>1. CASE Crash(w)
      BY <2>1 DEF Crash, Visible
    <2>2. CASE Reap(w)
      BY <2>2 DEF Reap, Visible
    <2>3. CASE Restart(w)
      BY <2>3 DEF Restart, Visible
    <2>4. QED
      BY <1>10, <2>1, <2>2, <2>3
  <1>11. ASSUME NEW s \in Sockets, Arrive(s) PROVE HeldListens'
    BY <1>11 DEF Arrive, local, Visible
  <1>12. CASE UNCHANGED vars
    BY <1>12 DEF vars, local, Visible
  <1>13. QED
    BY <1>1, <1>2, <1>3, <1>4, <1>5, <1>6, <1>7, <1>8, <1>9, <1>10, <1>11, <1>12
       DEF Next, Round

(* A worker that sleeps with the mutex waits for every listening socket:   *)
(* nobody is shut out for nothing, for any workers and sockets, whatever   *)
(* dies or lacks descriptors, as long as no epoll_ctl() fails that takes a *)
(* socket out (ngx_disable_accept_events() leaves ngx_accept_mutex_held    *)
(* set when one does).                                                     *)
THEOREM MutexServes ==
  ASSUME "del" \notin FailingCalls
  PROVE  Spec => []HolderServes
  <1>1. Init => HeldListens
    BY DEF Init, HeldListens
  <1>2. IInv /\ HeldListens /\ [Next]_vars => HeldListens'
    BY HeldListensPreserved
  <1>3. IInv /\ HeldListens => HolderServes
    BY DEF IInv, Owned, HeldListens, Alive, HolderServes, RoundReleases, HolderListens
  <1>4. QED
    BY <1>1, <1>2, <1>3, IInvInvariant, PTL DEF Spec
=============================================================================
