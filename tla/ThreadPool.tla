----------------------------- MODULE ThreadPool -----------------------------
(***************************************************************************)
(* A thread pool of a worker process (core/ngx_thread_pool.c): the main     *)
(* thread posts tasks, the threads of the pool run them and put them on the *)
(* list of finished tasks, and a notification (an eventfd of the event      *)
(* module) makes the main thread run their completion handlers.  When the   *)
(* worker exits, the pool is destroyed by posting one exit task per thread. *)
(*                                                                          *)
(* What happens under tp->mtx, or under the spinlock of the list of         *)
(* finished tasks, is one step.                                             *)
(***************************************************************************)
EXTENDS Integers, Sequences, FiniteSets

CONSTANTS
  Threads,      \* the threads of the pool
  Tasks,        \* the tasks of the main thread
  Exit,         \* the exit task, on the stack of ngx_thread_pool_destroy()
  NoTask,       \* no task
  MaxQueue,     \* tp->max_queue
  MaxPosts,     \* how often a task is posted
  Spurious      \* how often a thread may wake up without a signal

ASSUME PoolAssumption ==
  /\ IsFiniteSet(Threads) /\ MaxQueue \in Nat /\ MaxPosts \in Nat /\ Spurious \in Nat
  /\ Exit \notin Tasks /\ NoTask \notin Tasks \cup {Exit}

VARIABLES
  queue,      \* tp->queue
  waiting,    \* tp->waiting
  active,     \* the tasks whose event.active is set
  th,         \* the point each thread is at
  cur,        \* the task each thread has taken
  done,       \* ngx_thread_pool_done
  notified,   \* the edge of the notification descriptor
  main,       \* the point of the main thread
  local,      \* the finished tasks ngx_thread_pool_handler() walks
  lock,       \* the variable the exit task clears
  left,       \* exit tasks still to be posted
  posted, ran, completed,   \* how often each task was (history)
  woken       \* spurious wake-ups so far

shared == <<queue, waiting, active, done, notified, lock>>
history == <<posted, ran, completed>>
vars == <<shared, th, cur, main, local, left, history, woken>>

Init ==
  /\ queue = <<>> /\ waiting = 0 /\ active = {} /\ done = <<>> /\ notified = FALSE
  /\ th = [t \in Threads |-> "idle"] /\ cur = [t \in Threads |-> NoTask]
  /\ main = "loop" /\ local = <<>> /\ lock = FALSE /\ left = 0
  /\ posted = [k \in Tasks |-> 0] /\ ran = [k \in Tasks |-> 0]
  /\ completed = [k \in Tasks |-> 0]
  /\ woken = 0

-----------------------------------------------------------------------------
(* pthread_cond_signal(): at most one of the threads that wait goes on. *)
Signal ==
  \/ /\ \A t \in Threads : th[t] # "wait"
     /\ UNCHANGED th
  \/ \E t \in Threads : th[t] = "wait" /\ th' = [th EXCEPT ![t] = "awake"]

(* ngx_thread_task_post() of a task that is not active, when the queue is   *)
(* not over its limit; otherwise it changes nothing and returns NGX_ERROR.  *)
Enqueue(k) ==
  /\ waiting < MaxQueue
  /\ active' = active \cup {k}
  /\ Signal
  /\ queue' = Append(queue, k)
  /\ waiting' = waiting + 1

(* A handler of the event loop, or a completion handler, posts a task. *)
Post(k) ==
  /\ main \in {"loop", "walk"}
  /\ k \notin active /\ posted[k] < MaxPosts
  /\ Enqueue(k)
  /\ posted' = [posted EXCEPT ![k] = @ + 1]
  /\ UNCHANGED <<cur, done, notified, main, local, lock, left, ran, completed,
                 woken>>

(* The event loop sees the notification: ngx_thread_pool_handler() takes    *)
(* the whole list of finished tasks.                                        *)
Notified ==
  /\ main = "loop" /\ notified
  /\ notified' = FALSE
  /\ main' = "handler"
  /\ UNCHANGED <<queue, waiting, active, done, th, cur, local, lock, left, history,
                 woken>>

TakeDone ==
  /\ main = "handler"
  /\ local' = done
  /\ done' = <<>>
  /\ main' = "walk"
  /\ UNCHANGED <<queue, waiting, active, notified, th, cur, lock, left, history,
                 woken>>

(* One completion handler; the task may be posted again from now on. *)
Complete ==
  /\ main = "walk" /\ local # <<>>
  /\ LET k == Head(local)
     IN /\ active' = active \ {k}
        /\ completed' = [completed EXCEPT ![k] = @ + 1]
  /\ local' = Tail(local)
  /\ UNCHANGED <<queue, waiting, done, notified, lock, th, cur, main, left, posted,
                 ran, woken>>

WalkEnd ==
  /\ main = "walk" /\ local = <<>>
  /\ main' = "loop"
  /\ UNCHANGED <<shared, th, cur, local, left, history, woken>>

(* ngx_thread_pool_exit_worker(): ngx_thread_pool_destroy() starts. *)
Destroy ==
  /\ main = "loop"
  /\ main' = "destroy"
  /\ left' = Cardinality(Threads)
  /\ UNCHANGED <<shared, th, cur, local, history, woken>>

(* The next exit task is posted, or the destruction is given up because the *)
(* queue is over its limit.                                                 *)
PostExit ==
  /\ main = "destroy" /\ left > 0
  /\ Enqueue(Exit)
  /\ lock' = TRUE
  /\ main' = "spin"
  /\ UNCHANGED <<cur, done, notified, local, left, history, woken>>

GiveUp ==
  /\ main = "destroy" /\ left > 0 /\ waiting >= MaxQueue
  /\ main' = "gone"
  /\ UNCHANGED <<shared, th, cur, local, left, history, woken>>

(* while (lock) ngx_sched_yield(); *)
Spin ==
  /\ main = "spin" /\ ~lock
  /\ active' = active \ {Exit}
  /\ left' = left - 1
  /\ main' = "destroy"
  /\ UNCHANGED <<queue, waiting, done, notified, lock, th, cur, local, history,
                 woken>>

(* The condition variable and the mutex are destroyed. *)
Destroyed ==
  /\ main = "destroy" /\ left = 0
  /\ main' = "destroyed"
  /\ UNCHANGED <<shared, th, cur, local, left, history, woken>>

-----------------------------------------------------------------------------
(* ngx_thread_pool_cycle(): take the first task, or wait on the condition.  *)
TakeOrWait(t) ==
  IF queue = <<>>
    THEN th' = [th EXCEPT ![t] = "wait"] /\ UNCHANGED <<queue, cur>>
    ELSE /\ th' = [th EXCEPT ![t] = "run"]
         /\ cur' = [cur EXCEPT ![t] = Head(queue)]
         /\ queue' = Tail(queue)

Enter(t) ==
  /\ th[t] = "idle"
  /\ waiting' = waiting - 1
  /\ TakeOrWait(t)
  /\ UNCHANGED <<active, done, notified, lock, main, local, left, history, woken>>

(* Mutant: the thread that wakes up does not test the queue again, and      *)
(* finds no task there.                                                     *)
RecheckBlind(t) ==
  /\ th[t] = "awake"
  /\ th' = [th EXCEPT ![t] = "run"]
  /\ cur' = [cur EXCEPT ![t] = IF queue = <<>> THEN NoTask ELSE Head(queue)]
  /\ queue' = IF queue = <<>> THEN queue ELSE Tail(queue)
  /\ UNCHANGED <<waiting, active, done, notified, lock, main, local, left, history,
                 woken>>

(* pthread_cond_wait() returns: the loop tests the queue again, because     *)
(* another thread may have taken the task meanwhile.                        *)
Recheck(t) ==
  /\ th[t] = "awake"
  /\ TakeOrWait(t)
  /\ UNCHANGED <<waiting, active, done, notified, lock, main, local, left, history,
                 woken>>

WakeSpurious(t) ==
  /\ th[t] = "wait" /\ woken < Spurious
  /\ woken' = woken + 1
  /\ th' = [th EXCEPT ![t] = "awake"]
  /\ UNCHANGED <<shared, cur, main, local, left, history>>

(* task->handler(); the exit handler clears the lock and ends the thread. *)
Run(t) ==
  /\ th[t] = "run"
  /\ IF cur[t] = Exit
       THEN /\ lock' = FALSE
            /\ th' = [th EXCEPT ![t] = "exited"]
            /\ UNCHANGED ran
       ELSE /\ th' = [th EXCEPT ![t] = "push"]
            /\ ran' = [ran EXCEPT ![cur[t]] = @ + 1]
            /\ UNCHANGED lock
  /\ UNCHANGED <<queue, waiting, active, done, notified, cur, main, local, left,
                 posted, completed, woken>>

Push(t) ==
  /\ th[t] = "push"
  /\ done' = Append(done, cur[t])
  /\ cur' = [cur EXCEPT ![t] = NoTask]
  /\ th' = [th EXCEPT ![t] = "notify"]
  /\ UNCHANGED <<queue, waiting, active, notified, lock, main, local, left, history,
                 woken>>

(* Mutant: only the thread that finds the list just started notifies, but   *)
(* it looks after it has left the lock.                                     *)
NotifyFirst(t) ==
  /\ th[t] = "notify"
  /\ notified' = (notified \/ Len(done) = 1)
  /\ th' = [th EXCEPT ![t] = "idle"]
  /\ UNCHANGED <<queue, waiting, active, done, lock, cur, main, local, left, history,
                 woken>>

(* ngx_notify(ngx_thread_pool_handler) *)
Notify(t) ==
  /\ th[t] = "notify"
  /\ notified' = TRUE
  /\ th' = [th EXCEPT ![t] = "idle"]
  /\ UNCHANGED <<queue, waiting, active, done, lock, cur, main, local, left, history,
                 woken>>

MainStep == Notified \/ TakeDone \/ Complete \/ WalkEnd \/ PostExit \/ GiveUp
            \/ Spin \/ Destroyed
ThreadStep(t) == Enter(t) \/ Recheck(t) \/ Run(t) \/ Push(t) \/ Notify(t)

Next ==
  \/ MainStep \/ Destroy
  \/ \E k \in Tasks : Post(k)
  \/ \E t \in Threads : ThreadStep(t) \/ WakeSpurious(t)

Spec == Init /\ [][Next]_vars

(* Every thread is scheduled, and a handler that runs comes to its end. *)
FairSpec == Spec /\ WF_vars(MainStep) /\ \A t \in Threads : WF_vars(ThreadStep(t))

-----------------------------------------------------------------------------
States == {"idle", "wait", "awake", "run", "push", "notify", "exited"}

TypeOK ==
  /\ queue \in Seq(Tasks \cup {Exit}) /\ waiting \in Int
  /\ active \subseteq Tasks \cup {Exit} /\ done \in Seq(Tasks) /\ local \in Seq(Tasks)
  /\ notified \in BOOLEAN /\ lock \in BOOLEAN
  /\ th \in [Threads -> States] /\ cur \in [Threads -> Tasks \cup {Exit, NoTask}]
  /\ main \in {"loop", "handler", "walk", "destroy", "spin", "gone", "destroyed"}
  /\ left \in Nat /\ woken \in Nat
  /\ posted \in [Tasks -> Nat] /\ ran \in [Tasks -> Nat] /\ completed \in [Tasks -> Nat]

(* The comment on tp->waiting says that it may become negative: it is the   *)
(* length of the queue less the threads that look for a task.               *)
Looking == {t \in Threads : th[t] \in {"wait", "awake"}}
WaitingExact == waiting = Len(queue) - Cardinality(Looking)

(* The queue never holds more tasks than max_queue and the threads that     *)
(* are about to take one.                                                   *)
QueueBound == Len(queue) <= MaxQueue + Cardinality(Looking)

(* A thread that runs has a task: nobody runs a NULL task after a wake-up   *)
(* that came too late, or without a reason.                                 *)
RunsATask == \A t \in Threads : th[t] \in {"run", "push"} => cur[t] # NoTask

Count(s, k) == Cardinality({n \in DOMAIN s : s[n] = k})
Carriers(k) == {t \in Threads : cur[t] = k /\ th[t] # "exited"}
Places(k) == Count(queue, k) + Cardinality(Carriers(k)) + Count(done, k) + Count(local, k)

(* A task that is active is in exactly one place (queued, with one thread,  *)
(* finished, or about to be completed), and one that is not active is in    *)
(* none: so it is run and completed exactly once per post, and its memory   *)
(* may be released by its completion handler.                               *)
OnePlace ==
  \A k \in Tasks :
    /\ Places(k) = IF k \in active THEN 1 ELSE 0
    /\ posted[k] = completed[k] + Places(k)
    /\ completed[k] <= ran[k] /\ ran[k] <= posted[k]

(* When the mutex is destroyed no thread is left to use it. *)
NobodyLeft == main = "destroyed" => \A t \in Threads : th[t] = "exited"

(* Every task that is posted is completed, unless the worker exits, and the *)
(* destruction of the pool comes to an end: MaxPosts bounds the posts.      *)
PoolServes ==
  <>[](main # "destroy" /\ (active = {} \/ main \in {"destroyed", "gone"}))

(* The queue, the counter and the threads agree, whatever wakes up when. *)
PoolSound ==
  TypeOK /\ WaitingExact /\ QueueBound /\ RunsATask /\ OnePlace /\ NobodyLeft

=============================================================================
