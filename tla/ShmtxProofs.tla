---------------------------- MODULE ShmtxProofs ----------------------------
(***************************************************************************)
(* Proofs about Shmtx for any finite number of workers and any bounds:     *)
(* mutual exclusion under every crash, and the absence of lost wake-ups as *)
(* long as no process dies (and no sem_post() fails) on its way from       *)
(* freeing the lock, or from being woken, to the next look at the lock.    *)
(***************************************************************************)
EXTENDS Shmtx, FiniteSetTheorems, TLAPS

(* The lock word names every process that is inside; a worker inside the   *)
(* semaphore part of ngx_shmtx_lock() means that there is a semaphore; the *)
(* master never calls ngx_shmtx_lock().                                    *)
Ownership == \A p \in Workers : Holds(p) => lock = p

SemaphoreUsed ==
  \A p \in Workers : pc[p] \in {"inc", "recheck", "undo", "sem_wait"} => Semaphore

IInv == TypeOK /\ Ownership /\ SemaphoreUsed

(* Every action of Shmtx keeps the variables in their types. *)
LEMMA TypePreserved == TypeOK /\ [Next]_vars => TypeOK'
  <1> SUFFICES ASSUME TypeOK, [Next]_vars PROVE TypeOK'
    OBVIOUS
  <1> USE ShmtxAssumption DEF TypeOK, Goto, Procs, Points
  <1>1. ASSUME NEW p \in Workers, TryLock(p) PROVE TypeOK'
    BY <1>1 DEF TryLock
  <1>2. ASSUME NEW p \in Workers, Lock(p) PROVE TypeOK'
    BY <1>2 DEF Lock
  <1>3. ASSUME NEW p \in Workers, LockStep(p) PROVE TypeOK'
    BY <1>3 DEF LockStep, Acquire, SpinOut, AnnounceWait, Recheck, UndoWait,
                SemWait
  <1>4. ASSUME NEW p \in Workers, SemWaitFail(p) PROVE TypeOK'
    BY <1>4 DEF SemWaitFail
  <1>5. ASSUME NEW p \in Workers, Unlock(p) PROVE TypeOK'
    BY <1>5 DEF Unlock
  <1>6. ASSUME NEW p \in Workers, Crash(p) PROVE TypeOK'
    BY <1>6 DEF Crash
  <1>7. ASSUME NEW p \in Workers, ForceUnlock(p) PROVE TypeOK'
    BY <1>7 DEF ForceUnlock
  <1>8. ASSUME NEW p \in Workers, Respawn(p) PROVE TypeOK'
    BY <1>8 DEF Respawn
  <1>9. ASSUME NEW q \in Procs, WakeStep(q) PROVE TypeOK'
    BY <1>9 DEF WakeStep, WakeRead, WakeCas, Post
  <1>10. ASSUME NEW q \in Procs, PostFail(q) PROVE TypeOK'
    BY <1>10 DEF PostFail
  <1>11. CASE UNCHANGED vars
    BY <1>11 DEF vars
  <1>12. QED
    BY <1>1, <1>2, <1>3, <1>4, <1>5, <1>6, <1>7, <1>8, <1>9, <1>10, <1>11
       DEF Next

(* Ownership of the lock word and use of the semaphore are preserved. *)
LEMMA OwnershipPreserved == IInv /\ [Next]_vars => Ownership' /\ SemaphoreUsed'
  <1> SUFFICES ASSUME IInv, [Next]_vars PROVE Ownership' /\ SemaphoreUsed'
    OBVIOUS
  <1> USE ShmtxAssumption DEF IInv, TypeOK, Ownership, SemaphoreUsed, Holds,
                              Goto, Procs
  <1>1. ASSUME NEW p \in Workers, TryLock(p)
        PROVE  Ownership' /\ SemaphoreUsed'
    BY <1>1 DEF TryLock
  <1>2. ASSUME NEW p \in Workers, Lock(p) PROVE Ownership' /\ SemaphoreUsed'
    BY <1>2 DEF Lock
  <1>3. ASSUME NEW p \in Workers, LockStep(p)
        PROVE  Ownership' /\ SemaphoreUsed'
    BY <1>3 DEF LockStep, Acquire, SpinOut, AnnounceWait, Recheck, UndoWait,
                SemWait
  <1>4. ASSUME NEW p \in Workers, SemWaitFail(p)
        PROVE  Ownership' /\ SemaphoreUsed'
    BY <1>4 DEF SemWaitFail
  <1>5. ASSUME NEW p \in Workers, Unlock(p)
        PROVE  Ownership' /\ SemaphoreUsed'
    BY <1>5 DEF Unlock
  <1>6. ASSUME NEW p \in Workers, Crash(p)
        PROVE  Ownership' /\ SemaphoreUsed'
    BY <1>6 DEF Crash
  <1>7. ASSUME NEW p \in Workers, ForceUnlock(p)
        PROVE  Ownership' /\ SemaphoreUsed'
    BY <1>7 DEF ForceUnlock
  <1>8. ASSUME NEW p \in Workers, Respawn(p)
        PROVE  Ownership' /\ SemaphoreUsed'
    BY <1>8 DEF Respawn
  <1>9. ASSUME NEW q \in Procs, WakeStep(q)
        PROVE  Ownership' /\ SemaphoreUsed'
    BY <1>9 DEF WakeStep, WakeRead, WakeCas, Post
  <1>10. ASSUME NEW q \in Procs, PostFail(q)
         PROVE  Ownership' /\ SemaphoreUsed'
    BY <1>10 DEF PostFail
  <1>11. CASE UNCHANGED vars
    BY <1>11 DEF vars
  <1>12. QED
    BY <1>1, <1>2, <1>3, <1>4, <1>5, <1>6, <1>7, <1>8, <1>9, <1>10, <1>11
       DEF Next

(* The inductive invariant behind mutual exclusion. *)
LEMMA IInvInvariant == Spec => []IInv
  <1>1. Init => IInv
    BY ShmtxAssumption DEF Init, IInv, TypeOK, Ownership, SemaphoreUsed, Holds,
                           Procs, Points
  <1>2. IInv /\ [Next]_vars => IInv'
    BY TypePreserved, OwnershipPreserved DEF IInv
  <1>3. QED
    BY <1>1, <1>2, PTL DEF Spec

(* ngx_shmtx_lock(), ngx_shmtx_trylock() and the master's forced unlock    *)
(* never let two workers inside, for any number of workers, wherever they  *)
(* die and whichever semaphore call fails.                                 *)
THEOREM MutualExclusionHolds == Spec => []MutualExclusion
  <1>1. IInv => MutualExclusion
    BY DEF IInv, Ownership, MutualExclusion
  <1>2. QED
    BY <1>1, IInvInvariant, PTL

(* The shared words of the mutex keep their types. *)
THEOREM TypeCorrect == Spec => []TypeOK
  BY IInvInvariant, PTL DEF IInv

-----------------------------------------------------------------------------
(* The lock word names nobody who is alive and outside. *)
NamesHolder == \A p \in Workers : lock = p => Holds(p) \/ pc[p] = "dead"

(* The lock word is freed with the last step of its holder inside, or by   *)
(* the master once the holder is dead.                                     *)
LEMMA NamesHolderPreserved == IInv /\ NamesHolder /\ [Next]_vars => NamesHolder'
  <1> SUFFICES ASSUME IInv, NamesHolder, [Next]_vars PROVE NamesHolder'
    OBVIOUS
  <1> USE ShmtxAssumption DEF IInv, TypeOK, Ownership, NamesHolder, Holds, Goto, Procs
  <1>1. ASSUME NEW p \in Workers, TryLock(p) \/ Lock(p) PROVE NamesHolder'
    BY <1>1 DEF TryLock, Lock
  <1>2. ASSUME NEW p \in Workers, LockStep(p) PROVE NamesHolder'
    BY <1>2 DEF LockStep, Acquire, SpinOut, AnnounceWait, Recheck, UndoWait, SemWait
  <1>3. ASSUME NEW p \in Workers, SemWaitFail(p) \/ Unlock(p) PROVE NamesHolder'
    BY <1>3 DEF SemWaitFail, Unlock
  <1>4. ASSUME NEW p \in Workers, Crash(p) \/ ForceUnlock(p) \/ Respawn(p)
        PROVE  NamesHolder'
    BY <1>4 DEF Crash, ForceUnlock, Respawn
  <1>5. ASSUME NEW q \in Procs, WakeStep(q) \/ PostFail(q) PROVE NamesHolder'
    BY <1>5 DEF WakeStep, WakeRead, WakeCas, Post, PostFail
  <1>6. CASE UNCHANGED vars
    BY <1>6 DEF vars
  <1>7. QED
    BY <1>1, <1>2, <1>3, <1>4, <1>5, <1>6 DEF Next

(* A step of one worker moves it, and nobody else, for the users. *)
LEMMA OneMoves ==
  ASSUME TypeOK, NEW p \in Workers, NEW from, NEW to, Where(p) = from, Where(p)' = to,
         \A q \in Workers \ {p} : Where(q)' = Where(q)
  PROVE  Promised!Move(p, from, to)
  BY DEF Promised!Move, Whereabouts

(* A step after which everybody is where he was. *)
LEMMA NobodyMoves ==
  ASSUME \A q \in Workers : Where(q)' = Where(q)
  PROVE  Whereabouts' = Whereabouts
  BY DEF Whereabouts

(* Every step of Shmtx is a step of Mutex, or nothing a user can see. *)
LEMMA StepKeepsPromise ==
  IInv /\ NamesHolder /\ NamesHolder' /\ [Next]_vars
    => [Promised!Next]_Whereabouts
  <1> SUFFICES ASSUME IInv, NamesHolder, NamesHolder', [Next]_vars
               PROVE  \/ Promised!Next
                      \/ \A q \in Workers : Where(q)' = Where(q)
    BY NobodyMoves
  <1> USE ShmtxAssumption DEF IInv, TypeOK, Ownership, NamesHolder, Holds, Goto, Procs
  <1> DEFINE Still(p) == \A q \in Workers \ {p} : Where(q)' = Where(q)
             Nobody == \A q \in Workers : Where(q)' = Where(q)
  <1>1. ASSUME NEW p \in Workers, lock = Free, lock' = p,
               pc[p] \in {"idle", "try", "recheck"},
               Goto(p, "locked") \/ Goto(p, "undo")
        PROVE  Promised!Enter(p)
    <2>1. Where(p) = "out" /\ Where(p)' = "in" /\ Still(p)
      BY <1>1 DEF Where
    <2>2. \A q \in Workers : Where(q) \notin {"in", "stuck"}
      BY <1>1 DEF Where
    <2>3. QED
      BY <2>1, <2>2, OneMoves DEF Promised!Enter, Whereabouts
  <1>2. ASSUME NEW p \in Workers, TryLock(p) PROVE Promised!Enter(p) \/ Nobody
    <2>1. CASE lock = Free
      BY <1>1, <1>2, <2>1 DEF TryLock
    <2>2. CASE lock # Free
      BY <1>2, <2>2 DEF TryLock, Where
    <2>3. QED
      BY <2>1, <2>2
  <1>3. ASSUME NEW p \in Workers, Lock(p) \/ SemWaitFail(p) PROVE Nobody
    BY <1>3 DEF Lock, SemWaitFail, Where
  <1>4. ASSUME NEW p \in Workers, LockStep(p) PROVE Promised!Enter(p) \/ Nobody
    <2>1. CASE Acquire(p)
      BY <1>1, <2>1 DEF Acquire
    <2>2. CASE SpinOut(p) \/ AnnounceWait(p) \/ UndoWait(p) \/ SemWait(p)
      BY <2>2 DEF SpinOut, AnnounceWait, UndoWait, SemWait, Where
    <2>3. CASE Recheck(p) /\ lock = Free
      BY <1>1, <2>3 DEF Recheck
    <2>4. CASE Recheck(p) /\ lock # Free
      BY <2>4 DEF Recheck, Where
    <2>5. QED
      BY <1>4, <2>1, <2>2, <2>3, <2>4 DEF LockStep
  <1>5. ASSUME NEW p \in Workers, Unlock(p) PROVE Promised!Leave(p)
    <2>1. Where(p) = "in" /\ Where(p)' = "out" /\ Still(p)
      BY <1>5 DEF Unlock, Where
    <2>2. QED
      BY <2>1, OneMoves DEF Promised!Leave
  <1>6. ASSUME NEW p \in Workers, Crash(p) PROVE Promised!Die(p)
    <2>1. pc[p] \notin {"dead", "reaped"}
      BY <1>6 DEF Crash
    <2>2. Still(p)
      BY <1>6 DEF Crash, Where
    <2>3. CASE Holds(p)
      <3>1. Where(p) = "in" /\ Where(p)' = "stuck"
        BY <1>6, <2>3 DEF Crash, Where
      <3>2. QED
        BY <2>2, <3>1, OneMoves DEF Promised!Die
    <2>4. CASE ~Holds(p)
      <3>1. Where(p) = "out" /\ Where(p)' = "gone"
        BY <1>6, <2>1, <2>4 DEF Crash, Where
      <3>2. QED
        BY <2>2, <3>1, OneMoves DEF Promised!Die
    <2>5. QED
      BY <2>3, <2>4
  <1>7. ASSUME NEW p \in Workers, ForceUnlock(p) PROVE Promised!Recover(p) \/ Nobody
    <2>1. CASE lock = p
      <3>1. Where(p) = "stuck" /\ Where(p)' = "gone" /\ Still(p)
        BY <1>7, <2>1 DEF ForceUnlock, Where
      <3>2. QED
        BY <3>1, OneMoves DEF Promised!Recover
    <2>2. CASE lock # p
      BY <1>7, <2>2 DEF ForceUnlock, Where
    <2>3. QED
      BY <2>1, <2>2
  <1>8. ASSUME NEW p \in Workers, Respawn(p) PROVE Promised!Return(p)
    <2>1. Where(p) = "gone" /\ Where(p)' = "out" /\ Still(p)
      BY <1>8 DEF Respawn, Where
    <2>2. QED
      BY <2>1, OneMoves DEF Promised!Return
  <1>9. ASSUME NEW q \in Procs, WakeStep(q) \/ PostFail(q) PROVE Nobody
    BY <1>9 DEF WakeStep, WakeRead, WakeCas, Post, PostFail, Where
  <1>10. CASE UNCHANGED vars
    BY <1>10 DEF vars, Where
  <1>11. QED
    BY <1>2, <1>3, <1>4, <1>5, <1>6, <1>7, <1>8, <1>9, <1>10
       DEF Next, Promised!Next

(* The mutex of ngx_shmtx.c implements the abstract mutex for any number   *)
(* of workers, wherever they die: in particular ngx_shmtx_force_unlock()   *)
(* with the pid of a dead worker frees it exactly when that worker was     *)
(* inside, and a worker started in its place never finds itself inside.    *)
THEOREM ShmtxKeepsPromise == Spec => KeepsPromise
  <1>1. Init => Promised!Init /\ NamesHolder
    BY ShmtxAssumption DEF Init, Promised!Init, Whereabouts, Where, Holds, Procs, NamesHolder
  <1>2. IInv /\ NamesHolder /\ [Next]_vars => NamesHolder'
    BY NamesHolderPreserved
  <1>3. IInv /\ NamesHolder /\ NamesHolder' /\ [Next]_vars
          => [Promised!Next]_Whereabouts
    BY StepKeepsPromise
  <1>4. QED
    BY <1>1, <1>2, <1>3, IInvInvariant, PTL DEF Spec, KeepsPromise, Promised!Spec

-----------------------------------------------------------------------------
Sleeping == {"recheck", "undo", "sem_wait"}

(* Both counted sets are finite. *)
LEMMA CountedFinite ==
  ASSUME TypeOK
  PROVE  /\ IsFiniteSet(Announced) /\ IsFiniteSet(Posting)
         /\ Cardinality(Announced) \in Nat /\ Cardinality(Posting) \in Nat
  <1>1. IsFiniteSet(Procs)
    BY ShmtxAssumption, FS_AddElement DEF Procs
  <1>2. Announced \subseteq Workers /\ Posting \subseteq Procs
    BY DEF Announced, Posting
  <1>3. IsFiniteSet(Announced) /\ IsFiniteSet(Posting)
    BY <1>1, <1>2, ShmtxAssumption, FS_Subset
  <1>4. QED
    BY <1>3, FS_CardinalityType

(* A move of one process that neither enters nor leaves the counted points  *)
(* changes neither set.                                                     *)
LEMMA Uncounted ==
  ASSUME TypeOK, NEW p \in Procs, NEW to \in Points, Goto(p, to),
         pc[p] \notin Sleeping \cup {"post"}, to \notin Sleeping \cup {"post"}
  PROVE  Announced' = Announced /\ Posting' = Posting
  BY DEF TypeOK, Goto, Announced, Posting, Sleeping, Procs

(* A worker that leaves the points of a sleeper is announced no longer. *)
LEMMA LeavesSleep ==
  ASSUME TypeOK, NEW p \in Workers, NEW to \in Points \ (Sleeping \cup {"post"}),
         Goto(p, to), pc[p] \in Sleeping
  PROVE  /\ Posting' = Posting
         /\ Cardinality(Announced') = Cardinality(Announced) - 1
  <1>1. Announced' = Announced \ {p} /\ p \in Announced
    BY DEF TypeOK, Goto, Announced, Sleeping, Procs
  <1>2. Posting' = Posting
    BY DEF TypeOK, Goto, Posting, Sleeping, Procs
  <1>3. Cardinality(Announced \ {p}) = Cardinality(Announced) - 1
    BY <1>1, CountedFinite, FS_RemoveElement
  <1>4. QED
    BY <1>1, <1>2, <1>3

(* The balance of the counter, the semaphore and the posts under way. *)
LEMMA BalancePreserved ==
  ASSUME IInv, WaitBalance, [Next]_vars
  PROVE  WaitBalance'
  <1> USE ShmtxAssumption DEF WaitBalance
  <1>0. /\ TypeOK /\ wait \in Int /\ sem \in Nat /\ swallowed \in Nat
        /\ Cardinality(Announced) \in Nat /\ Cardinality(Posting) \in Nat
    BY CountedFinite DEF IInv, TypeOK
  <1>1. ASSUME NEW p \in Workers, TryLock(p) PROVE WaitBalance'
    <2>1. CASE UNCHANGED pc
      BY <1>1, <2>1, <1>0 DEF TryLock, Announced, Posting
    <2>2. CASE Goto(p, "locked")
      BY <1>1, <2>2, <1>0, Uncounted DEF TryLock, Sleeping, Points, Procs
    <2>3. QED
      BY <1>1, <2>1, <2>2 DEF TryLock
  <1>2. ASSUME NEW p \in Workers, Lock(p) PROVE WaitBalance'
    BY <1>2, <1>0, Uncounted DEF Lock, Sleeping, Points, Procs
  <1>3. ASSUME NEW p \in Workers, Acquire(p) \/ SpinOut(p) PROVE WaitBalance'
    BY <1>3, <1>0, Uncounted DEF Acquire, SpinOut, Sleeping, Points, Procs
  <1>4. ASSUME NEW p \in Workers, AnnounceWait(p) PROVE WaitBalance'
    <2>1. Announced' = Announced \cup {p} /\ p \notin Announced /\ Posting' = Posting
      BY <1>4, <1>0 DEF AnnounceWait, TypeOK, Goto, Announced, Posting, Procs
    <2>2. Cardinality(Announced \cup {p}) = Cardinality(Announced) + 1
      BY <2>1, <1>0, CountedFinite, FS_AddElement
    <2>3. QED
      BY <2>1, <2>2, <1>0, <1>4 DEF AnnounceWait
  <1>5. ASSUME NEW p \in Workers, Recheck(p) PROVE WaitBalance'
    <2>1. Announced' = Announced /\ Posting' = Posting
      BY <1>5, <1>0 DEF Recheck, TypeOK, Goto, Announced, Posting, Procs
    <2>2. QED
      BY <2>1, <1>0, <1>5 DEF Recheck
  <1>6. ASSUME NEW p \in Workers, UndoWait(p) PROVE WaitBalance'
    BY <1>6, <1>0, LeavesSleep DEF UndoWait, Sleeping, Points
  <1>7. ASSUME NEW p \in Workers, SemWait(p) PROVE WaitBalance'
    BY <1>7, <1>0, LeavesSleep DEF SemWait, Sleeping, Points
  <1>8. ASSUME NEW p \in Workers, SemWaitFail(p) PROVE WaitBalance'
    BY <1>8, <1>0, LeavesSleep DEF SemWaitFail, Sleeping, Points
  <1>9. ASSUME NEW p \in Workers, Unlock(p) PROVE WaitBalance'
    <2>1. PICK to \in {"wake_read", "idle"} : Goto(p, to)
      BY <1>9 DEF Unlock
    <2>2. QED
      BY <1>9, <2>1, <1>0, Uncounted DEF Unlock, Sleeping, Points, Procs
  <1>10. ASSUME NEW p \in Workers, Crash(p) PROVE WaitBalance'
    <2>1. CASE pc[p] \in Sleeping
      BY <1>10, <2>1, <1>0, LeavesSleep DEF Crash, Sleeping, Points
    <2>2. CASE pc[p] \notin Sleeping
      BY <1>10, <2>2, <1>0, Uncounted DEF Crash, OnTheWay, Sleeping, Points, Procs
    <2>3. QED
      BY <2>1, <2>2
  <1>11. ASSUME NEW p \in Workers, ForceUnlock(p) PROVE WaitBalance'
    <2>1. Announced' = Announced /\ Posting' = Posting
      BY <1>11, <1>0 DEF ForceUnlock, TypeOK, Goto, Announced, Posting, Procs
    <2>2. QED
      BY <2>1, <1>0, <1>11 DEF ForceUnlock
  <1>12. ASSUME NEW p \in Workers, Respawn(p) PROVE WaitBalance'
    BY <1>12, <1>0, Uncounted DEF Respawn, Sleeping, Points, Procs
  <1>13. ASSUME NEW q \in Procs, WakeRead(q) PROVE WaitBalance'
    <2>1. PICK to \in {"idle", "wake_cas"} : Goto(q, to)
      BY <1>13 DEF WakeRead
    <2>2. QED
      BY <1>13, <2>1, <1>0, Uncounted DEF WakeRead, Sleeping, Points
  <1>14. ASSUME NEW q \in Procs, WakeCas(q) PROVE WaitBalance'
    <2>1. CASE wait = local[q]
      <3>1. /\ Posting' = Posting \cup {q} /\ q \notin Posting
            /\ Announced' = Announced
        BY <1>14, <2>1, <1>0 DEF WakeCas, TypeOK, Goto, Announced, Posting, Procs
      <3>2. Cardinality(Posting \cup {q}) = Cardinality(Posting) + 1
        BY <3>1, <1>0, CountedFinite, FS_AddElement
      <3>3. QED
        BY <3>1, <3>2, <1>0, <1>14, <2>1 DEF WakeCas
    <2>2. CASE wait # local[q]
      BY <1>14, <2>2, <1>0, Uncounted DEF WakeCas, Sleeping, Points
    <2>3. QED
      BY <2>1, <2>2
  <1>15. ASSUME NEW q \in Procs, Post(q) PROVE WaitBalance'
    <2>1. /\ Posting' = Posting \ {q} /\ q \in Posting
          /\ Announced' = Announced
      BY <1>15, <1>0 DEF Post, TypeOK, Goto, Announced, Posting, Procs
    <2>2. Cardinality(Posting \ {q}) = Cardinality(Posting) - 1
      BY <2>1, <1>0, CountedFinite, FS_RemoveElement
    <2>3. QED
      BY <2>1, <2>2, <1>0, <1>15 DEF Post
  <1>16. ASSUME NEW q \in Procs, PostFail(q) PROVE WaitBalance'
    BY <1>16, <1>0 DEF PostFail
  <1>17. CASE UNCHANGED vars
    BY <1>17, <1>0 DEF vars, Announced, Posting
  <1>18. QED
    BY <1>1, <1>2, <1>3, <1>4, <1>5, <1>6, <1>7, <1>8, <1>9, <1>10, <1>11, <1>12,
       <1>13, <1>14, <1>15, <1>16, <1>17 DEF Next, LockStep, WakeStep

(* A sleeper on an empty semaphore, with nobody about to post, is counted. *)
LEMMA SleeperCounted ==
  ASSUME TypeOK, WaitBalance, swallowed = 0, sem = 0, NEW p \in Workers, pc[p] = "sem_wait",
         \A q \in Procs : pc[q] # "post"
  PROVE  wait > 0
  <1>1. Posting = {} /\ p \in Announced
    BY DEF Posting, Announced
  <1>2. Cardinality(Posting) = 0
    BY <1>1, FS_EmptySet
  <1>3. Cardinality(Announced) \in Nat /\ Cardinality(Announced) # 0
    BY <1>1, CountedFinite, FS_EmptySet
  <1>4. QED
    BY <1>2, <1>3 DEF WaitBalance, TypeOK

(* Whoever stops attending to the lock leaves it taken, or leaves a post,   *)
(* or has seen that nobody is counted.                                      *)
LEMMA WakeupPreserved ==
  ASSUME IInv, WaitBalance, NoLostWakeup, [Next]_vars
  PROVE  NoLostWakeup'
  <1> SUFFICES ASSUME swallowed' = 0, lock' = Free, sem' = 0,
                      NEW s \in Workers, pc'[s] = "sem_wait"
               PROVE  Attentive'
    BY DEF NoLostWakeup
  <1> USE ShmtxAssumption DEF IInv, TypeOK, Goto, Procs, Attentive
  <1>1. ASSUME NEW p \in Workers, TryLock(p) PROVE Attentive'
    BY <1>1 DEF TryLock, NoLostWakeup
  <1>2. ASSUME NEW p \in Workers, Lock(p) PROVE Attentive'
    BY <1>2 DEF Lock
  <1>3. ASSUME NEW p \in Workers, Acquire(p) \/ SpinOut(p) \/ Recheck(p)
        PROVE  Attentive'
    BY <1>3 DEF Acquire, SpinOut, Recheck
  <1>4. ASSUME NEW p \in Workers, AnnounceWait(p) PROVE Attentive'
    BY <1>4 DEF AnnounceWait
  <1>5. ASSUME NEW p \in Workers, UndoWait(p) PROVE Attentive'
    BY <1>5 DEF UndoWait, Ownership, Holds
  <1>6. ASSUME NEW p \in Workers, SemWait(p) \/ SemWaitFail(p) PROVE Attentive'
    BY <1>6 DEF SemWait, SemWaitFail
  <1>7. ASSUME NEW p \in Workers, Unlock(p) PROVE Attentive'
    BY <1>7 DEF Unlock, Ownership, Holds, SemaphoreUsed
  <1>8. ASSUME NEW p \in Workers, Crash(p) PROVE Attentive'
    BY <1>8 DEF Crash, OnTheWay, NoLostWakeup
  <1>9. ASSUME NEW p \in Workers, ForceUnlock(p) PROVE Attentive'
    BY <1>9 DEF ForceUnlock, NoLostWakeup, SemaphoreUsed
  <1>10. ASSUME NEW p \in Workers, Respawn(p) PROVE Attentive'
    BY <1>10 DEF Respawn, NoLostWakeup
  <1>11. ASSUME NEW q \in Procs, WakeRead(q) PROVE Attentive'
    <2>1. CASE wait > 0
      BY <1>11, <2>1 DEF WakeRead
    <2>2. CASE ~(wait > 0)
      <3>1. swallowed = 0 /\ sem = 0 /\ pc[s] = "sem_wait"
        BY <1>11 DEF WakeRead
      <3>2. PICK r \in Procs : pc[r] = "post"
        BY <3>1, <2>2, SleeperCounted
      <3>3. pc'[r] = "post"
        BY <1>11, <3>2 DEF WakeRead
      <3>4. QED
        BY <3>2, <3>3
    <2>3. QED
      BY <2>1, <2>2
  <1>12. ASSUME NEW q \in Procs, WakeCas(q) PROVE Attentive'
    BY <1>12 DEF WakeCas
  <1>13. ASSUME NEW q \in Procs, Post(q) \/ PostFail(q) PROVE Attentive'
    BY <1>13 DEF Post, PostFail
  <1>14. CASE UNCHANGED vars
    BY <1>14 DEF vars, NoLostWakeup
  <1>15. QED
    BY <1>1, <1>2, <1>3, <1>4, <1>5, <1>6, <1>7, <1>8, <1>9, <1>10, <1>11, <1>12,
       <1>13, <1>14 DEF Next, LockStep, WakeStep

(* For any number of workers: the counter and the semaphore never forget a  *)
(* process that has announced itself, and the lock of ngx_shmtx_lock() is   *)
(* never free while a process sleeps that nobody is going to wake.          *)
THEOREM WakeupsKept == Spec => []WakeupsSafe
  <1>1. Init => WaitBalance /\ NoLostWakeup
    <2>1. SUFFICES ASSUME Init PROVE WaitBalance /\ NoLostWakeup
      OBVIOUS
    <2>2. Announced = {} /\ Posting = {}
      BY <2>1 DEF Init, Announced, Posting, Procs
    <2>3. Cardinality(Announced) = 0 /\ Cardinality(Posting) = 0
      BY <2>2, FS_EmptySet
    <2>4. NoLostWakeup
      BY <2>1 DEF Init, NoLostWakeup, Procs
    <2>5. QED
      BY <2>1, <2>3, <2>4 DEF Init, WaitBalance
  <1>2. IInv /\ WaitBalance /\ NoLostWakeup /\ [Next]_vars
          => WaitBalance' /\ NoLostWakeup'
    BY BalancePreserved, WakeupPreserved
  <1>3. QED
    BY <1>1, <1>2, IInvInvariant, PTL DEF Spec, WakeupsSafe

=============================================================================
