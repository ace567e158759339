---------------------------- MODULE AcceptMutex ----------------------------
(***************************************************************************)
(* How the workers share the listening sockets: one round of the event     *)
(* loop (event/ngx_event.c, ngx_process_events_and_timers) together with   *)
(* the accept mutex and the accept handlers (event/ngx_event_accept.c).    *)
(* The mutex itself is Shmtx with its semaphore off; only trylock, unlock  *)
(* and the master's forced unlock are used, each one atomic.               *)
(*                                                                         *)
(* A round of worker w goes through these points:                          *)
(*   "loop"    the mutex is tried, listening sockets enter or leave epoll  *)
(*   "poll"    epoll_wait()                                                *)
(*   "events"  the accept handlers of the batch, at once or, when the      *)
(*             mutex is held, from ngx_posted_accept_events                *)
(*   "posted"  mutex released; timers and ngx_posted_events                *)
(***************************************************************************)
EXTENDS Integers, FiniteSets

CONSTANTS
  Workers,
  N,            \* number of listening sockets, in the order of cycle->listening
  Owner,        \* the worker of a "reuseport" socket, None for a shared one
  None,
  Udp,          \* the sockets served by ngx_event_recvmsg()
  Directives,   \* the values of the accept_mutex directive: subset of BOOLEAN
  MultiAccept,  \* the multi_accept directive
  ConnN,        \* cycle->connection_n
  Busy,         \* connections in use that never close: listening, channel, ...
  FailingCalls, \* subset of {"add", "del"}: epoll_ctl() calls that may fail
  Faults,       \* subset of {"crash", "emfile"}
  MaxFaults,    \* bound on failures of all these kinds
  MaxArrivals   \* bound on new connections over all sockets

Sockets == 1..N
Spare == ConnN - Busy

ASSUME AcceptAssumption ==
  /\ N \in Nat
  /\ None \notin Workers \cup Sockets
  /\ Owner \in [Sockets -> Workers \cup {None}]
  /\ Udp \subseteq Sockets
  /\ Directives \subseteq BOOLEAN /\ MultiAccept \in BOOLEAN
  /\ ConnN \in Nat /\ Busy \in 0..ConnN
  /\ FailingCalls \subseteq {"add", "del"}
  /\ Faults \subseteq {"crash", "emfile"}
  /\ MaxFaults \in Nat /\ MaxArrivals \in Nat

VARIABLES
  directive, \* the accept_mutex directive of the configuration
  lock,      \* the word of ngx_accept_mutex: None or a worker
  backlog,   \* connections waiting on each socket (kernel)
  pc,        \* the point of the round
  mutex,     \* ngx_use_accept_mutex, cleared when listening sockets close
  closed,    \* the listening sockets of the worker are closed
  held,      \* ngx_accept_mutex_held
  disabled,  \* ngx_accept_disabled
  active,    \* sockets whose read event is in this worker's epoll
  post,      \* NGX_POST_EVENTS was set for this round
  delay,     \* epoll_wait() was given ngx_accept_mutex_delay as its timeout
  todo,      \* sockets of the batch whose handler has not been called yet
  cur,       \* the socket whose accept handler is running
  armed,     \* listening events with a timer (no mutex, after EMFILE)
  expired,   \* listening events with timedout set
  open,      \* client connections of the worker
  faults,
  arrivals

local == <<pc, mutex, closed, held, disabled, active, post, delay, todo, cur, armed,
           expired, open>>

vars == <<directive, lock, backlog, local, faults, arrivals>>

Visible(w) == {s \in Sockets : Owner[s] \in {None, w}}
\* cycle->listening, emptied by ngx_close_listening_sockets()
Listed(w) == IF closed[w] THEN {} ELSE Visible(w)
Shared == {s \in Sockets : Owner[s] = None}
Free(w) == Spare - open[w]

Set(f, w, v) == [f EXCEPT ![w] = v]

Init ==
  /\ directive \in Directives
  /\ lock = None
  /\ backlog = [s \in Sockets |-> 0]
  /\ pc = [w \in Workers |-> "loop"]
  /\ mutex = [w \in Workers |-> directive]
  /\ closed = [w \in Workers |-> FALSE]
  /\ held = [w \in Workers |-> FALSE]
  /\ disabled = [w \in Workers |-> 0]
  /\ active = [w \in Workers |->
                 IF directive THEN Visible(w) \ Shared ELSE Visible(w)]
  /\ post = [w \in Workers |-> FALSE]
  /\ delay = [w \in Workers |-> FALSE]
  /\ todo = [w \in Workers |-> {}]
  /\ cur = [w \in Workers |-> None]
  /\ armed = [w \in Workers |-> {}]
  /\ expired = [w \in Workers |-> {}]
  /\ open = [w \in Workers |-> 0]
  /\ faults = 0
  /\ arrivals = 0

-----------------------------------------------------------------------------
(* ngx_enable_accept_events() and ngx_disable_accept_events(): the sockets  *)
(* are visited in order, and a failing epoll_ctl() ends the visit.  Each    *)
(* relates the outcome ok and the new set of active sockets.                *)
EnableEvents(w, ok, on) ==
  LET off == Listed(w) \ active[w]
  IN \/ /\ ok
        /\ on = active[w] \cup off
     \/ /\ ~ok
        /\ "add" \in FailingCalls
        /\ \E i \in off : on = active[w] \cup {j \in off : j < i}

DisableEvents(w, all, ok, on) ==
  LET go == IF all THEN active[w] ELSE active[w] \cap Shared
  IN \/ /\ ok
        /\ on = active[w] \ go
     \/ /\ ~ok
        /\ "del" \in FailingCalls
        /\ \E i \in go : on = active[w] \ {j \in go : j < i}

(* A choice that uses up the fault budget. *)
Charge(fault) == /\ fault => faults < MaxFaults
                 /\ faults' = faults + (IF fault THEN 1 ELSE 0)

(* The head of the round when the mutex is not tried: it is not in use, or *)
(* the worker is overloaded (ngx_accept_disabled > 0).  The listening       *)
(* sockets stay where they are, and epoll_wait() has no time limit of its   *)
(* own.                                                                     *)
SkipMutex(w) ==
  /\ pc[w] = "loop"
  /\ \/ ~mutex[w] /\ UNCHANGED disabled
     \/ mutex[w] /\ disabled[w] > 0 /\ disabled' = Set(disabled, w, disabled[w] - 1)
  /\ pc' = Set(pc, w, "poll")
  /\ post' = Set(post, w, FALSE)
  /\ delay' = Set(delay, w, FALSE)
  /\ UNCHANGED <<directive, lock, backlog, mutex, closed, held, active, todo,
                 cur, armed, expired, open, faults, arrivals>>

(* ngx_trylock_accept_mutex() takes the mutex.  A worker that held it in    *)
(* its last round already has its sockets in epoll; another one adds them,  *)
(* and gives the mutex back and skips the round when that fails.            *)
TryLock(w) ==
  /\ pc[w] = "loop" /\ mutex[w] /\ disabled[w] <= 0
  /\ lock = None
  /\ \E ok \in BOOLEAN, on \in SUBSET Sockets :
       /\ IF held[w] THEN ok /\ on = active[w] ELSE EnableEvents(w, ok, on)
       /\ Charge(~ok)
       /\ active' = Set(active, w, on)
       /\ lock' = IF ok THEN w ELSE None
       /\ held' = Set(held, w, held[w] \/ ok)
       /\ pc' = Set(pc, w, IF ok THEN "poll" ELSE "loop")
       /\ post' = Set(post, w, ok)
       /\ delay' = Set(delay, w, FALSE)
  /\ UNCHANGED <<directive, backlog, mutex, closed, disabled, todo, cur, armed,
                 expired, open, arrivals>>

(* ngx_trylock_accept_mutex() does not get the mutex.  A worker that held   *)
(* it in its last round takes the shared sockets out of epoll; when that    *)
(* fails the round is skipped and ngx_accept_mutex_held stays set.          *)
LoseLock(w) ==
  /\ pc[w] = "loop" /\ mutex[w] /\ disabled[w] <= 0
  /\ lock # None
  /\ \E ok \in BOOLEAN, on \in SUBSET Sockets :
       /\ IF held[w] THEN DisableEvents(w, FALSE, ok, on)
                     ELSE ok /\ on = active[w]
       /\ Charge(~ok)
       /\ active' = Set(active, w, on)
       /\ held' = Set(held, w, held[w] /\ ~ok)
       /\ pc' = Set(pc, w, IF ok THEN "poll" ELSE "loop")
       /\ post' = Set(post, w, FALSE)
       /\ delay' = Set(delay, w, ok)
  /\ UNCHANGED <<directive, lock, backlog, mutex, closed, disabled, todo, cur,
                 armed, expired, open, arrivals>>

-----------------------------------------------------------------------------
Ready(w) == {s \in active[w] : backlog[s] > 0}

(* epoll_wait() returns because it has something to report: a connection on *)
(* a listening socket, the time limit, a timer of a listening event, or an  *)
(* event or the timeout of an open connection.                              *)
Wake(w) ==
  /\ pc[w] = "poll"
  /\ Ready(w) # {} \/ delay[w] \/ armed[w] # {} \/ open[w] > 0
  /\ pc' = Set(pc, w, "events")
  /\ todo' = Set(todo, w, Ready(w))
  /\ UNCHANGED <<directive, lock, backlog, mutex, closed, held, disabled,
                 active, post, delay, cur, armed, expired, open, faults,
                 arrivals>>

(* A signal interrupts a sleeping epoll_wait(); the rest of the round still *)
(* runs.                                                                    *)
Interrupt(w) ==
  /\ pc[w] = "poll"
  /\ Ready(w) = {}
  /\ pc' = Set(pc, w, "events")
  /\ UNCHANGED <<directive, lock, backlog, mutex, closed, held, disabled,
                 active, post, delay, todo, cur, armed, expired, open, faults,
                 arrivals>>

(* The loop over the batch (or over ngx_posted_accept_events) reaches s.    *)
(* Without NGX_POST_EVENTS an event that is no longer active is skipped.    *)
(* The handler first enables the sockets again if the event has timed out.  *)
Dispatch(w, s) ==
  /\ pc[w] = "events" /\ cur[w] = None
  /\ s \in todo[w]
  /\ todo' = Set(todo, w, todo[w] \ {s})
  /\ \/ /\ ~post[w] /\ s \notin active[w]
        /\ UNCHANGED <<cur, active, expired, faults>>
     \/ /\ post[w] \/ s \in active[w]
        /\ \E ok \in BOOLEAN, on \in SUBSET Sockets :
             /\ IF s \in expired[w] THEN EnableEvents(w, ok, on)
                                    ELSE ok /\ on = active[w]
             /\ Charge(~ok)
             /\ active' = Set(active, w, on)
             /\ expired' = Set(expired, w, IF ok THEN expired[w] \ {s}
                                                 ELSE expired[w])
             /\ cur' = Set(cur, w, IF ok THEN s ELSE None)
  /\ UNCHANGED <<directive, lock, backlog, pc, mutex, closed, held, disabled,
                 post, delay, armed, open, arrivals>>

(* accept4() or recvmsg() finds nothing, because another worker was faster  *)
(* or because the socket is closed.                                         *)
AcceptAgain(w) ==
  /\ cur[w] # None
  /\ closed[w] \/ backlog[cur[w]] = 0
  /\ cur' = Set(cur, w, None)
  /\ UNCHANGED <<directive, lock, backlog, pc, mutex, closed, held, disabled,
                 active, post, delay, todo, armed, expired, open, faults,
                 arrivals>>

(* ECONNABORTED, the client is gone already; or a truncated datagram. *)
AcceptAborted(w) ==
  /\ cur[w] # None
  /\ ~closed[w] /\ backlog[cur[w]] > 0
  /\ backlog' = [backlog EXCEPT ![cur[w]] = @ - 1]
  /\ cur' = Set(cur, w, IF MultiAccept THEN cur[w] ELSE None)
  /\ UNCHANGED <<directive, lock, pc, mutex, closed, held, disabled, active,
                 post, delay, todo, armed, expired, open, faults, arrivals>>

(* A connection is taken from the socket.  ngx_accept_disabled is computed  *)
(* before ngx_get_connection(), which may drain idle connections and may    *)
(* fail; the set-up after it may fail too, and gives the connection back.   *)
Take(w) ==
  /\ ~closed[w] /\ backlog[cur[w]] > 0
  /\ backlog' = [backlog EXCEPT ![cur[w]] = @ - 1]
  /\ disabled' = Set(disabled, w, (ConnN \div 8) - Free(w))
  /\ \E drained \in 0..open[w], kept \in BOOLEAN :
       /\ Free(w) > 0 => drained = 0
       /\ Free(w) + drained = 0 => ~kept
       /\ open' = Set(open, w, open[w] - drained + (IF kept THEN 1 ELSE 0))
       /\ cur' = Set(cur, w, IF kept /\ MultiAccept THEN cur[w] ELSE None)
  /\ UNCHANGED <<directive, lock, pc, mutex, closed, held, active, post, delay,
                 todo, armed, expired, faults, arrivals>>

(* ngx_event_accept() *)
Accept(w) == cur[w] # None /\ cur[w] \notin Udp /\ Take(w)

(* ngx_event_recvmsg(): a connection for the datagram; it needs no new      *)
(* descriptor, so it has no EMFILE path.                                    *)
RecvMsg(w) == cur[w] \in Udp /\ Take(w)

(* Mutant: ngx_accept_mutex_held stays set although the sockets are gone. *)
AcceptNoFileStillHeld(w) ==
  /\ cur[w] # None /\ cur[w] \notin Udp
  /\ ~closed[w] /\ backlog[cur[w]] > 0
  /\ "emfile" \in Faults /\ Charge(TRUE)
  /\ active' = Set(active, w, {})
  /\ lock' = IF lock = w THEN None ELSE lock
  /\ disabled' = Set(disabled, w, 1)
  /\ cur' = Set(cur, w, None)
  /\ UNCHANGED <<directive, backlog, pc, mutex, closed, held, post, delay, todo,
                 armed, expired, open, arrivals>>

(* Mutant: without the mutex, the timer that enables the sockets again is   *)
(* forgotten.                                                               *)
AcceptNoFileForever(w) ==
  /\ cur[w] # None /\ cur[w] \notin Udp
  /\ ~closed[w] /\ backlog[cur[w]] > 0
  /\ "emfile" \in Faults /\ Charge(TRUE)
  /\ active' = Set(active, w, {})
  /\ lock' = IF mutex[w] /\ held[w] /\ lock = w THEN None ELSE lock
  /\ held' = Set(held, w, held[w] /\ ~mutex[w])
  /\ disabled' = Set(disabled, w, IF mutex[w] THEN 1 ELSE disabled[w])
  /\ cur' = Set(cur, w, None)
  /\ UNCHANGED <<directive, backlog, pc, mutex, closed, post, delay, todo, armed,
                 expired, open, arrivals>>

(* EMFILE or ENFILE: every listening socket leaves epoll, the mutex is      *)
(* released, and the next round does not try it; without the mutex a timer  *)
(* will bring the sockets back.                                             *)
AcceptNoFile(w) ==
  /\ cur[w] # None /\ cur[w] \notin Udp
  /\ ~closed[w] /\ backlog[cur[w]] > 0
  /\ "emfile" \in Faults /\ Charge(TRUE)
  /\ \E ok \in BOOLEAN, on \in SUBSET Sockets :
       /\ DisableEvents(w, TRUE, ok, on)
       /\ active' = Set(active, w, on)
       /\ IF ok /\ mutex[w]
            THEN /\ lock' = IF held[w] /\ lock = w THEN None ELSE lock
                 /\ held' = Set(held, w, FALSE)
                 /\ disabled' = Set(disabled, w, 1)
                 /\ UNCHANGED armed
            ELSE /\ armed' = Set(armed, w, IF ok THEN armed[w] \cup {cur[w]}
                                                 ELSE armed[w])
                 /\ UNCHANGED <<lock, held, disabled>>
  /\ cur' = Set(cur, w, None)
  /\ UNCHANGED <<directive, backlog, pc, mutex, closed, post, delay, todo,
                 expired, open, arrivals>>

(* The accept events are done: the mutex is released, held stays set. *)
Release(w) ==
  /\ pc[w] = "events" /\ cur[w] = None /\ todo[w] = {}
  /\ lock' = IF held[w] /\ lock = w THEN None ELSE lock
  /\ pc' = Set(pc, w, "posted")
  /\ UNCHANGED <<directive, backlog, mutex, closed, held, disabled, active,
                 post, delay, todo, cur, armed, expired, open, faults,
                 arrivals>>

(* ngx_event_expire_timers(): the timer of a listening event fires and its  *)
(* handler runs: sockets back into epoll, then accept.                      *)
Expire(w, s) ==
  /\ pc[w] = "posted" /\ cur[w] = None
  /\ s \in armed[w]
  /\ armed' = Set(armed, w, armed[w] \ {s})
  /\ \E ok \in BOOLEAN, on \in SUBSET Sockets :
       /\ EnableEvents(w, ok, on)
       /\ Charge(~ok)
       /\ active' = Set(active, w, on)
       /\ expired' = Set(expired, w, IF ok THEN expired[w] \ {s}
                                           ELSE expired[w] \cup {s})
       /\ cur' = Set(cur, w, IF ok THEN s ELSE None)
  /\ UNCHANGED <<directive, lock, backlog, pc, mutex, closed, held, disabled,
                 post, delay, todo, open, arrivals>>

(* The events of client connections close some of them; the round ends. *)
EndRound(w) ==
  /\ pc[w] = "posted" /\ cur[w] = None
  /\ \E n \in 0..open[w] : open' = Set(open, w, n)
  /\ pc' = Set(pc, w, "loop")
  /\ UNCHANGED <<directive, lock, backlog, mutex, closed, held, disabled,
                 active, post, delay, todo, cur, armed, expired, faults,
                 arrivals>>

(* ngx_close_listening_sockets(), at the head of the loop after SIGQUIT. *)
CloseListening(w) ==
  /\ pc[w] = "loop"
  /\ ~closed[w]
  /\ held' = Set(held, w, FALSE)
  /\ mutex' = Set(mutex, w, FALSE)
  /\ active' = Set(active, w, {})
  /\ closed' = Set(closed, w, TRUE)
  /\ UNCHANGED <<directive, lock, backlog, pc, disabled, post, delay, todo, cur,
                 armed, expired, open, faults, arrivals>>

-----------------------------------------------------------------------------
(* A worker dies; the master forces the mutex open and starts another one,  *)
(* which begins like the first (ngx_event_process_init()).                  *)
Crash(w) ==
  /\ "crash" \in Faults /\ Charge(TRUE)
  /\ pc[w] \notin {"dead", "reaped"}
  /\ pc' = Set(pc, w, "dead")
  /\ active' = Set(active, w, {})
  /\ cur' = Set(cur, w, None)
  /\ todo' = Set(todo, w, {})
  /\ UNCHANGED <<directive, lock, backlog, mutex, closed, held, disabled, post,
                 delay, armed, expired, open, arrivals>>

Reap(w) ==
  /\ pc[w] = "dead"
  /\ lock' = IF lock = w THEN None ELSE lock
  /\ pc' = Set(pc, w, "reaped")
  /\ UNCHANGED <<directive, backlog, mutex, closed, held, disabled, active,
                 post, delay, todo, cur, armed, expired, open, faults,
                 arrivals>>

Restart(w) ==
  /\ pc[w] = "reaped"
  /\ pc' = Set(pc, w, "loop")
  /\ mutex' = Set(mutex, w, directive)
  /\ held' = Set(held, w, FALSE)
  /\ disabled' = Set(disabled, w, 0)
  /\ active' = Set(active, w,
                   IF directive THEN Visible(w) \ Shared ELSE Visible(w))
  /\ post' = Set(post, w, FALSE)
  /\ delay' = Set(delay, w, FALSE)
  /\ armed' = Set(armed, w, {})
  /\ expired' = Set(expired, w, {})
  /\ open' = Set(open, w, 0)
  /\ closed' = Set(closed, w, FALSE)
  /\ UNCHANGED <<directive, lock, backlog, todo, cur, faults, arrivals>>

(* A client connects. *)
Arrive(s) ==
  /\ arrivals < MaxArrivals
  /\ arrivals' = arrivals + 1
  /\ backlog' = [backlog EXCEPT ![s] = @ + 1]
  /\ UNCHANGED <<directive, lock, local, faults>>

Round(w) ==
  \/ SkipMutex(w) \/ TryLock(w) \/ LoseLock(w) \/ Wake(w)
  \/ \E s \in Sockets : Dispatch(w, s) \/ Expire(w, s)
  \/ AcceptAgain(w) \/ AcceptAborted(w) \/ Accept(w) \/ RecvMsg(w)
  \/ AcceptNoFile(w)
  \/ Release(w)
  \/ EndRound(w)

Next ==
  \/ \E w \in Workers : \/ Round(w) \/ Interrupt(w) \/ CloseListening(w)
                         \/ Crash(w) \/ Reap(w) \/ Restart(w)
  \/ \E s \in Sockets : Arrive(s)

Spec == Init /\ [][Next]_vars

(* A worker's loop goes on by itself as long as epoll_wait() returns, which *)
(* Wake does only for a reason; a timer that is set expires in some round;  *)
(* the master restarts dead workers.                                        *)
FairSpec ==
  /\ Spec
  /\ \A w \in Workers : WF_vars(Round(w)) /\ WF_vars(Reap(w))
                        /\ WF_vars(Restart(w))
  /\ \A w \in Workers, s \in Sockets : SF_vars(Expire(w, s))

-----------------------------------------------------------------------------
TypeOK ==
  /\ directive \in BOOLEAN
  /\ lock \in Workers \cup {None}
  /\ backlog \in [Sockets -> 0..MaxArrivals]
  /\ pc \in [Workers -> {"loop", "poll", "events", "posted", "dead", "reaped"}]
  /\ mutex \in [Workers -> BOOLEAN] /\ closed \in [Workers -> BOOLEAN]
  /\ held \in [Workers -> BOOLEAN]
  /\ post \in [Workers -> BOOLEAN] /\ delay \in [Workers -> BOOLEAN]
  /\ disabled \in [Workers -> Int]
  /\ active \in [Workers -> SUBSET Sockets] /\ todo \in [Workers -> SUBSET Sockets]
  /\ armed \in [Workers -> SUBSET Sockets] /\ expired \in [Workers -> SUBSET Sockets]
  /\ cur \in [Workers -> Sockets \cup {None}]
  /\ open \in [Workers -> 0..Spare]
  /\ faults \in 0..MaxFaults
  /\ arrivals \in 0..MaxArrivals

(* A worker outside the accept phase never owns the mutex: every early      *)
(* return, the EMFILE path and a lost ngx_accept_mutex_held included.       *)
RoundReleases == \A w \in Workers : pc[w] \in {"loop", "posted"} => lock # w

(* A worker that waits in epoll_wait() with the mutex waits for every       *)
(* listening socket: otherwise the mutex shuts everybody out for nothing.   *)
HolderListens ==
  \A w \in Workers : pc[w] = "poll" /\ lock = w => active[w] = Visible(w)

(* Everybody sleeps without a time limit in a round that skipped the mutex  *)
(* (ngx_accept_disabled > 0), and nobody holds it.                          *)
Stalled ==
  lock = None /\ \A w \in Workers : pc[w] = "poll" /\ mutex[w] /\ ~delay[w]

(* Every connection that waits on a shared socket is taken by some worker,  *)
(* whatever dies, fails to enable its sockets or runs out of descriptors;   *)
(* unless workers are told to quit, or without the mutex the sockets could  *)
(* not be enabled again after EMFILE (nothing repeats that), or with the    *)
(* mutex all the workers have skipped it in the same round.                 *)
Served ==
  \A s \in Shared :
    backlog[s] > 0 ~> \/ backlog[s] = 0
                      \/ \E w \in Workers : closed[w] \/ expired[w] # {}
                      \/ Stalled

(* The mutex never shuts the others out for nothing: a worker that owns it  *)
(* is in its accept phase and waits for all the listening sockets.          *)
HolderServes == TypeOK /\ RoundReleases /\ HolderListens


=============================================================================
