------------------------------- MODULE Shmtx -------------------------------
(***************************************************************************)
(* The inter-process mutex of nginx: core/ngx_shmtx.c in the build that    *)
(* objs/ngx_auto_config.h describes (NGX_HAVE_ATOMIC_OPS and               *)
(* NGX_HAVE_POSIX_SEM).  The lock word, the wait counter and the semaphore *)
(* live in shared memory; every worker is a process, and a worker may die  *)
(* at any instruction.  The master, on SIGCHLD, forces open whatever the   *)
(* dead worker held (os/unix/ngx_process.c, ngx_unlock_mutexes).           *)
(*                                                                         *)
(* Each action is one atomic access to shared memory.  The test            *)
(*      *mtx->lock == 0 && ngx_atomic_cmp_set(mtx->lock, 0, ngx_pid)       *)
(* is one action: it takes effect at the compare-and-set when the lock was *)
(* read as 0, and at the read when it was not.  The spinning loop repeats  *)
(* that test, so a failed repetition is a stuttering step.                 *)
(***************************************************************************)
EXTENDS Integers, FiniteSets

CONSTANTS
  Workers,      \* the worker processes (ngx_pid values)
  Master,       \* the master process, which only ever forces the lock open
  Free,         \* the value 0 of the lock word
  Semaphore,    \* mtx->semaphore: FALSE when mtx->spin is -1 (accept mutex)
                \* or sem_init() failed
  CrashPoints,  \* the program points at which a worker may die
  FailingCalls, \* the semaphore calls that may fail
  MaxFaults,    \* bound on crashes and semaphore call failures
  MaxCalls      \* bound on calls of ngx_shmtx_lock() and ngx_shmtx_trylock()

Procs == Workers \cup {Master}

\* Program points of the calls; "dead" and "reaped" are the two stages of a
\* crash: the process is gone, then waitpid() in the master has seen it.
Points == {"idle", "try", "inc", "recheck", "undo", "sem_wait", "locked",
           "wake_read", "wake_cas", "post", "dead", "reaped"}

ASSUME ShmtxAssumption ==
  /\ IsFiniteSet(Workers)
  /\ Master \notin Workers
  /\ Free \notin Procs
  /\ Semaphore \in BOOLEAN
  /\ CrashPoints \subseteq Points \ {"dead", "reaped"}
  /\ FailingCalls \subseteq {"sem_wait", "sem_post"}
  /\ MaxFaults \in Nat
  /\ MaxCalls \in Nat

VARIABLES
  lock,    \* *mtx->lock: Free or the pid of the holder
  wait,    \* *mtx->wait, read as a signed number by ngx_shmtx_wakeup()
  sem,     \* the value of mtx->sem
  pc,      \* where each process is in the calls below
  local,   \* the local variable "wait" of ngx_shmtx_wakeup()
  faults,  \* crashes and failed semaphore calls so far
  swallowed, \* how many of them may have cost a wake-up (history)
  calls    \* lock and trylock calls so far

vars == <<lock, wait, sem, pc, local, faults, swallowed, calls>>

Goto(p, point) == pc' = [pc EXCEPT ![p] = point]

Init ==
  /\ lock = Free
  /\ wait = 0
  /\ sem = 0
  /\ pc = [p \in Procs |-> "idle"]
  /\ local = [p \in Procs |-> 0]
  /\ faults = 0
  /\ swallowed = 0
  /\ calls = 0

-----------------------------------------------------------------------------
(* Mutant: the lock of a process that is gone is taken over. *)
TryLockTakesOver(p) ==
  /\ pc[p] = "idle"
  /\ calls < MaxCalls
  /\ calls' = calls + 1
  /\ \/ /\ lock = Free \/ (lock \in Workers /\ pc[lock] = "dead")
        /\ lock' = p
        /\ Goto(p, "locked")
     \/ /\ lock # Free
        /\ UNCHANGED <<lock, pc>>
  /\ UNCHANGED <<wait, sem, local, faults, swallowed>>

(* ngx_shmtx_trylock(): one test, no waiting. *)
TryLock(p) ==
  /\ pc[p] = "idle"
  /\ calls < MaxCalls
  /\ calls' = calls + 1
  /\ \/ /\ lock = Free
        /\ lock' = p
        /\ Goto(p, "locked")
     \/ /\ lock # Free
        /\ UNCHANGED <<lock, pc>>
  /\ UNCHANGED <<wait, sem, local, faults, swallowed>>

(* ngx_shmtx_lock() is entered. *)
Lock(p) ==
  /\ pc[p] = "idle"
  /\ calls < MaxCalls
  /\ calls' = calls + 1
  /\ Goto(p, "try")
  /\ UNCHANGED <<lock, wait, sem, local, faults, swallowed>>

(* The first test, or a repetition of it in the spinning loop, succeeds. *)
Acquire(p) ==
  /\ pc[p] = "try"
  /\ lock = Free
  /\ lock' = p
  /\ Goto(p, "locked")
  /\ UNCHANGED <<wait, sem, local, faults, swallowed, calls>>

(* All the tests failed.  With a semaphore the process prepares to sleep;  *)
(* without one it yields the processor and starts over, a stuttering step. *)
SpinOut(p) ==
  /\ pc[p] = "try"
  /\ lock # Free
  /\ Semaphore
  /\ Goto(p, "inc")
  /\ UNCHANGED <<lock, wait, sem, local, faults, swallowed, calls>>

(* ngx_atomic_fetch_add(mtx->wait, 1) *)
AnnounceWait(p) ==
  /\ pc[p] = "inc"
  /\ wait' = wait + 1
  /\ Goto(p, "recheck")
  /\ UNCHANGED <<lock, sem, local, faults, swallowed, calls>>

(* Mutant: going to sleep without the second test. *)
RecheckBlind(p) ==
  /\ pc[p] = "recheck"
  /\ Goto(p, "sem_wait")
  /\ UNCHANGED <<lock, wait, sem, local, faults, swallowed, calls>>

(* The test after the announcement: take the lock, or go to sleep. *)
Recheck(p) ==
  /\ pc[p] = "recheck"
  /\ \/ /\ lock = Free
        /\ lock' = p
        /\ Goto(p, "undo")
     \/ /\ lock # Free
        /\ Goto(p, "sem_wait")
        /\ UNCHANGED lock
  /\ UNCHANGED <<wait, sem, local, faults, swallowed, calls>>

(* ngx_atomic_fetch_add(mtx->wait, -1).  A waker may have counted this     *)
(* process already, and then wait becomes negative.                        *)
UndoWait(p) ==
  /\ pc[p] = "undo"
  /\ wait' = wait - 1
  /\ Goto(p, "locked")
  /\ UNCHANGED <<lock, sem, local, faults, swallowed, calls>>

(* sem_wait() returns: the loop starts over with the first test. *)
SemWait(p) ==
  /\ pc[p] = "sem_wait"
  /\ sem > 0
  /\ sem' = sem - 1
  /\ Goto(p, "try")
  /\ UNCHANGED <<lock, wait, local, faults, swallowed, calls>>

(* sem_wait() fails with an error other than EINTR: the loop starts over   *)
(* as if it had been woken.  (EINTR repeats the call, a stuttering step.)  *)
SemWaitFail(p) ==
  /\ pc[p] = "sem_wait"
  /\ "sem_wait" \in FailingCalls
  /\ faults < MaxFaults
  /\ faults' = faults + 1
  /\ Goto(p, "try")
  /\ UNCHANGED <<lock, wait, sem, local, swallowed, calls>>

-----------------------------------------------------------------------------
(* ngx_shmtx_unlock(): the compare-and-set that frees the lock.  It fails, *)
(* and nothing is woken, when the caller is not the holder.                *)
Unlock(p) ==
  /\ pc[p] = "locked"
  /\ IF lock = p
       THEN /\ lock' = Free
            /\ Goto(p, IF Semaphore THEN "wake_read" ELSE "idle")
       ELSE /\ Goto(p, "idle")
            /\ UNCHANGED lock
  /\ UNCHANGED <<wait, sem, local, faults, swallowed, calls>>

(* ngx_shmtx_wakeup() reads the counter and returns when nobody waits. *)
WakeRead(q) ==
  /\ pc[q] = "wake_read"
  /\ \/ /\ wait <= 0
        /\ Goto(q, "idle")
        /\ UNCHANGED local
     \/ /\ wait > 0
        /\ local' = [local EXCEPT ![q] = wait]
        /\ Goto(q, "wake_cas")
  /\ UNCHANGED <<lock, wait, sem, faults, swallowed, calls>>

(* ngx_atomic_cmp_set(mtx->wait, wait, wait - 1), or another round. *)
WakeCas(q) ==
  /\ pc[q] = "wake_cas"
  /\ IF wait = local[q]
       THEN /\ wait' = wait - 1
            /\ local' = [local EXCEPT ![q] = 0]
            /\ Goto(q, "post")
       ELSE /\ Goto(q, "wake_read")
            /\ UNCHANGED <<wait, local>>
  /\ UNCHANGED <<lock, sem, faults, swallowed, calls>>

(* sem_post() *)
Post(q) ==
  /\ pc[q] = "post"
  /\ sem' = sem + 1
  /\ Goto(q, "idle")
  /\ UNCHANGED <<lock, wait, local, faults, swallowed, calls>>

(* sem_post() fails; the error is logged and the wake-up is lost. *)
PostFail(q) ==
  /\ pc[q] = "post"
  /\ "sem_post" \in FailingCalls
  /\ faults < MaxFaults
  /\ faults' = faults + 1
  /\ swallowed' = swallowed + 1
  /\ Goto(q, "idle")
  /\ UNCHANGED <<lock, wait, sem, local, calls>>

-----------------------------------------------------------------------------
(* The points between being woken, or freeing the lock, and the next look at *)
(* the lock or the post that follows: a process that dies there takes a     *)
(* wake-up with it.                                                         *)
OnTheWay == {"try", "inc", "recheck", "wake_read", "wake_cas", "post"}

(* A worker dies.  Shared memory keeps what it wrote. *)
Crash(p) ==
  /\ pc[p] \in CrashPoints
  /\ faults < MaxFaults
  /\ faults' = faults + 1
  /\ swallowed' = swallowed + (IF pc[p] \in OnTheWay THEN 1 ELSE 0)
  /\ Goto(p, "dead")
  /\ local' = [local EXCEPT ![p] = 0]
  /\ UNCHANGED <<lock, wait, sem, calls>>

(* Mutant: the master frees the lock without comparing the pid. *)
ForceUnlockAny(p) ==
  /\ pc[p] = "dead"
  /\ pc[Master] = "idle"
  /\ lock' = Free
  /\ Goto(p, "reaped")
  /\ UNCHANGED <<wait, sem, local, faults, swallowed, calls>>

(* Mutant: the master collects the dead worker and frees nothing. *)
ForceUnlockForgotten(p) ==
  /\ pc[p] = "dead"
  /\ pc[Master] = "idle"
  /\ Goto(p, "reaped")
  /\ UNCHANGED <<lock, wait, sem, local, faults, swallowed, calls>>

(* ngx_process_get_status() in the master collects the dead worker and     *)
(* calls ngx_shmtx_force_unlock() with its pid, which wakes a waiter when  *)
(* the dead worker was the holder.                                         *)
ForceUnlock(p) ==
  /\ pc[p] = "dead"
  /\ pc[Master] = "idle"
  /\ IF lock = p
       THEN /\ lock' = Free
            /\ pc' = [pc EXCEPT ![p] = "reaped",
                                ![Master] = IF Semaphore THEN "wake_read"
                                                         ELSE "idle"]
       ELSE /\ Goto(p, "reaped")
            /\ UNCHANGED lock
  /\ UNCHANGED <<wait, sem, local, faults, swallowed, calls>>

(* ngx_reap_children() starts a worker in place of the dead one. *)
Respawn(p) ==
  /\ pc[p] = "reaped"
  /\ pc[Master] = "idle"
  /\ Goto(p, "idle")
  /\ UNCHANGED <<lock, wait, sem, local, faults, swallowed, calls>>

-----------------------------------------------------------------------------
(* What a worker does inside ngx_shmtx_lock() and ngx_shmtx_unlock() once  *)
(* it has called them; calling them is the worker's own choice.            *)
LockStep(p) ==
  \/ Acquire(p) \/ SpinOut(p) \/ AnnounceWait(p) \/ Recheck(p)
  \/ UndoWait(p) \/ SemWait(p)

WakeStep(q) == WakeRead(q) \/ WakeCas(q) \/ Post(q)

Next ==
  \/ \E p \in Workers :
       \/ TryLock(p) \/ Lock(p) \/ LockStep(p) \/ SemWaitFail(p) \/ Unlock(p)
       \/ Crash(p) \/ ForceUnlock(p) \/ Respawn(p)
  \/ \E q \in Procs : WakeStep(q) \/ PostFail(q)

Spec == Init /\ [][Next]_vars

(* A call that was made runs on (the scheduler), a holder leaves its short  *)
(* critical section, and SIGCHLD is delivered to the master.               *)
Fairness ==
  /\ \A p \in Workers : WF_vars(LockStep(p)) /\ WF_vars(Unlock(p))
  /\ \A p \in Workers : WF_vars(ForceUnlock(p))
  /\ \A q \in Procs : WF_vars(WakeStep(q))

FairSpec == Spec /\ Fairness

-----------------------------------------------------------------------------
(* Properties. *)

TypeOK ==
  /\ lock \in Workers \cup {Free}
  /\ wait \in Int
  /\ sem \in Nat
  /\ pc \in [Procs -> Points]
  /\ local \in [Procs -> Int]
  /\ faults \in 0..MaxFaults
  /\ swallowed \in 0..faults
  /\ calls \in 0..MaxCalls

Holds(p) == pc[p] \in {"locked", "undo"}

(* Two processes are never inside at once, whatever dies and wherever: the *)
(* master must only force open a lock whose holder is gone, and a waiter   *)
(* that took the lock while announcing itself already counts as inside.    *)
MutualExclusion == \A p, q \in Workers : Holds(p) /\ Holds(q) => p = q

(* The processes whose announcement in wait nobody has taken back yet, and *)
(* the wakers that have taken one back and are about to post for it.       *)
Announced == {p \in Workers : pc[p] \in {"recheck", "undo", "sem_wait"}}
Posting == {q \in Procs : pc[q] = "post"}

(* The counter and the semaphore together never forget a process that has  *)
(* announced itself, although each of them may be wrong on its own (wait   *)
(* may be negative, sem may hold posts that nobody sleeps for), unless a   *)
(* process died on the way to a post, or sem_post() failed.                *)
WaitBalance ==
  swallowed = 0 => wait + sem + Cardinality(Posting) >= Cardinality(Announced)

(* A process that will look at the lock or at wait again by itself. *)
Attentive ==
  \/ \E p \in Workers : pc[p] \in {"try", "inc", "recheck"}
  \/ \E q \in Procs : pc[q] \in {"wake_read", "wake_cas", "post"}

(* No lost wake-up: the lock is never free with a process asleep on an     *)
(* empty semaphore unless somebody is on the way to take it or to post,    *)
(* or has died there.                                                      *)
NoLostWakeup ==
  /\ swallowed = 0 /\ lock = Free /\ sem = 0
  /\ \E p \in Workers : pc[p] = "sem_wait"
  => Attentive

(* No wake-up is lost on the counter, on the semaphore or between them. *)
WakeupsSafe == WaitBalance /\ NoLostWakeup

(* Where a worker is for the users of the mutex.  One that is dead and     *)
(* still named by the lock word is stuck in it.                            *)
Where(p) ==
  IF Holds(p) THEN "in"
  ELSE IF pc[p] = "dead" /\ lock = p THEN "stuck"
  ELSE IF pc[p] \in {"dead", "reaped"} THEN "gone"
  ELSE "out"

Whereabouts == [p \in Workers |-> Where(p)]

Promised == INSTANCE Mutex WITH Clients <- Workers, where <- Whereabouts

(* The mutex keeps the promise of module Mutex: the master takes it only   *)
(* from the dead worker that was inside, exactly once, and never leaves a  *)
(* dead worker in it when the next one is started in its place.            *)
KeepsPromise == Promised!Spec

(* Once the workers stop making new calls (MaxCalls) nobody stays asleep:  *)
(* every sleeper gets the lock or dies, unless a wake-up is lost.          *)
SleeperServed == <>[](swallowed > 0 \/ \A p \in Workers : pc[p] # "sem_wait")

=============================================================================
