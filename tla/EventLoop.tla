----------------------------- MODULE EventLoop -----------------------------
(***************************************************************************)
(* The event loop of one worker (event/ngx_event.c, the epoll module and    *)
(* the posted and timer queues) with the connection pool it works on        *)
(* (core/ngx_connection.c).                                                 *)
(*                                                                          *)
(* epoll_wait() returns a batch of reports.  While the batch is worked off, *)
(* the handler of one report may close the connection a later report is     *)
(* about, and take it from the free list again for another socket; the      *)
(* instance bit in the low bit of the pointer given to the kernel tells     *)
(* such a report from a fresh one.  Handlers are protocol code: here, one   *)
(* does any sequence of the operations in Does, on any connection.          *)
(* Sockets are watched edge-triggered, as connections are; the listening    *)
(* sockets are the subject of AcceptMutex.                                  *)
(***************************************************************************)
EXTENDS Integers, Sequences, FiniteSets

CONSTANTS
  N,           \* connection_n
  Signals,     \* what happens to sockets: a subset of {"in", "out", "err"}
  Does,        \* what handlers do besides opening and closing connections
  MaxReborn,   \* how often a connection is taken again during one batch
  DrainMax,    \* reusable connections closed at once (32)
  MaxBatch     \* nevents, the size of event_list

ASSUME EventLoopAssumption ==
  /\ N \in Nat \ {0} /\ Signals \subseteq {"in", "out", "err"}
  /\ Does \subseteq {"timer", "post", "reuse", "delete", "addconn", "defer"}
  /\ MaxReborn \in Nat /\ DrainMax \in Nat \ {0} /\ MaxBatch \in Nat \ {0}

Conns == 1..N
Dirs == {"in", "out"}
Events == Conns \X Dirs          \* c->read and c->write
Other(d) == IF d = "in" THEN "out" ELSE "in"
Both(c) == {c} \X Dirs
None == <<0, "none">>

VARIABLES
  free,       \* free_connections
  open,       \* the connections with fd # -1
  inst,       \* read->instance (and write->instance)
  active, ready, posted, timer_set,      \* the events with that flag
  postq,      \* ngx_posted_events
  tree,       \* ngx_event_timer_rbtree
  reusable,   \* the connections with that flag
  reuseq,     \* reusable_connections_queue, its head first
  kev, kinst, \* the kernel's interest in each socket, and the bit given with it
  avail,      \* what has happened to each socket and has not been consumed
  rdl,        \* the sockets whose edge the kernel has still to report
  batch,      \* the part of event_list that is not worked off
  post,       \* NGX_POST_EVENTS
  pc, ret,    \* the point of the loop, and where the handler returns to
  run,        \* the event whose handler runs
  reborn      \* how often each was taken since epoll_wait() returned (history)

flags == <<active, ready, posted, timer_set, reusable>>
queues == <<postq, tree, reuseq>>
pool == <<free, open, inst, reborn>>
kernel == <<kev, kinst, avail, rdl>>
loop == <<batch, post, pc, ret, run>>
vars == <<pool, flags, queues, kernel, loop>>

(* ngx_event_process_init(): every connection is free. *)
Init ==
  /\ free = [i \in 1..N |-> i]
  /\ open = {} /\ inst = [c \in Conns |-> 1] /\ reborn = [c \in Conns |-> 0]
  /\ active = {} /\ ready = {} /\ posted = {} /\ timer_set = {} /\ reusable = {}
  /\ postq = <<>> /\ tree = {} /\ reuseq = <<>>
  /\ kev = [c \in Conns |-> {}] /\ kinst = [c \in Conns |-> 0]
  /\ avail = [c \in Conns |-> {}] /\ rdl = {}
  /\ batch = <<>> /\ post = FALSE /\ pc = "wait" /\ ret = "wait" /\ run = None

-----------------------------------------------------------------------------
(* The kernel. *)

(* Something happens to a socket; the edge is queued when it is watched. *)
Arrive(c, s) ==
  /\ c \in open
  /\ avail' = [avail EXCEPT ![c] = @ \cup {s}]
  /\ rdl' = IF kev[c] # {} /\ s \in kev[c] \cup {"err"} THEN rdl \cup {c} ELSE rdl
  /\ UNCHANGED <<pool, flags, queues, kev, kinst, loop>>

(* epoll_ctl(): the socket is polled again with the new interest. *)
Watch(c, ev) ==
  /\ kev' = [kev EXCEPT ![c] = ev]
  /\ kinst' = [kinst EXCEPT ![c] = inst[c]]
  /\ rdl' = IF ev = {} THEN rdl \ {c}
            ELSE IF avail[c] \cap (ev \cup {"err"}) # {} THEN rdl \cup {c} ELSE rdl

Reportable == {c \in rdl : avail[c] \cap (kev[c] \cup {"err"}) # {}}

(* The events of one report, with what ngx_epoll_process_events() adds to a *)
(* report that has errors only.                                             *)
Revents(c) ==
  LET r == avail[c] \cap kev[c] IN IF r = {} THEN Dirs ELSE r

Orders(S) == {s \in [1..Cardinality(S) -> S] : \A i, j \in DOMAIN s : s[i] = s[j] => i = j}

-----------------------------------------------------------------------------
(* The connection pool. *)

(* rev->instance = !instance *)
Inverted(i) == 1 - i

(* ngx_queue_remove() of the members of X: what is left of queue s. *)
Without(s, X) ==
  LET rest[i \in 0..Len(s)] ==
        IF i = 0 THEN <<>>
        ELSE IF s[i] \in X THEN rest[i - 1] ELSE Append(rest[i - 1], s[i])
  IN rest[Len(s)]

(* ngx_delete_posted_event() of the events that are marked as posted. *)
Unposted(gone) == Without(postq, gone \cap posted)

(* What ngx_close_connection() does to the connections of K, and then       *)
(* ngx_get_connection() to those of new: an event is taken out of a queue   *)
(* when its flag says that it is there, and a connection that is taken is   *)
(* cleared, all but the instance bit, which is inverted.                    *)
Recycle(K, new) ==
  LET gone  == K \X Dirs
      clear == (K \cup new) \X Dirs
  IN /\ open' = (open \ K) \cup new
     /\ tree' = tree \ (gone \cap timer_set) /\ timer_set' = timer_set \ clear
     /\ postq' = Unposted(gone)
     /\ posted' = posted \ clear
     /\ reuseq' = Without(reuseq, K \cap reusable)
     /\ reusable' = reusable \ (K \cup new)
     /\ active' = active \ clear
     /\ ready' = ready \ (new \X Dirs)
     /\ inst' = [c \in Conns |-> IF c \in new THEN Inverted(inst[c]) ELSE inst[c]]
     /\ reborn' = [c \in Conns |-> IF c \in new THEN reborn[c] + 1 ELSE reborn[c]]
     /\ kev' = [c \in Conns |-> IF c \in K THEN {} ELSE kev[c]]
     /\ avail' = [c \in Conns |-> IF c \in K THEN {} ELSE avail[c]]
     /\ rdl' = rdl \ K
     /\ UNCHANGED kinst

Handler == pc = "handler"

Close(c) ==
  /\ Handler /\ c \in open
  /\ free' = <<c>> \o free
  /\ Recycle({c}, {})
  /\ UNCHANGED loop

(* ngx_get_connection() while the free list is not empty. *)
Take ==
  /\ Handler /\ free # <<>> /\ reborn[Head(free)] < MaxReborn
  /\ free' = Tail(free)
  /\ Recycle({}, {Head(free)})
  /\ UNCHANGED loop

(* The end of the reusable queue, the longest unused connection first. *)
Oldest ==
  LET n == IF Len(reuseq) < DrainMax THEN Len(reuseq) ELSE DrainMax
  IN [i \in 1..n |-> reuseq[Len(reuseq) + 1 - i]]

(* ngx_get_connection() when it is: ngx_drain_connections() closes idle     *)
(* connections, through their own read handlers, and the one that was       *)
(* closed last is taken.                                                    *)
DrainAndTake ==
  /\ Handler /\ free = <<>> /\ reuseq # <<>>
  /\ LET n    == Len(Oldest)
         c    == Oldest[n]
     IN /\ reborn[c] < MaxReborn
        /\ free' = [i \in 1..(n - 1) |-> Oldest[n - i]]
        /\ Recycle({Oldest[i] : i \in 1..n}, {c})
  /\ UNCHANGED loop

Reusable(c, on) ==
  /\ Handler /\ "reuse" \in Does /\ c \in open
  /\ LET q == IF c \in reusable THEN Without(reuseq, {c}) ELSE reuseq
     IN reuseq' = IF on THEN <<c>> \o q ELSE q
  /\ reusable' = IF on THEN reusable \cup {c} ELSE reusable \ {c}
  /\ UNCHANGED <<pool, active, ready, posted, timer_set, postq, tree, kernel, loop>>

-----------------------------------------------------------------------------
(* What a handler does with events. *)

(* ngx_handle_read_event(), ngx_handle_write_event(): an event that is      *)
(* neither active nor ready is added to epoll, EPOLL_CTL_ADD or _MOD by     *)
(* whether the other event of the connection is active.                     *)
AddEvent(c, d) ==
  /\ Handler /\ c \in open /\ <<c, d>> \notin active \cup ready
  /\ LET mod == <<c, Other(d)>> \in active
     IN IF mod = (kev[c] # {})
          THEN /\ active' = active \cup {<<c, d>>}
               /\ Watch(c, IF mod THEN Dirs ELSE {d})
          ELSE UNCHANGED <<active, kev, kinst, rdl>>       \* ENOENT or EEXIST
  /\ UNCHANGED <<pool, ready, posted, timer_set, reusable, queues, avail, loop>>

DelEvent(c, d) ==
  /\ Handler /\ "delete" \in Does /\ c \in open /\ <<c, d>> \in active
  /\ active' = active \ {<<c, d>>}
  /\ Watch(c, IF <<c, Other(d)>> \in active THEN {Other(d)} ELSE {})
  /\ UNCHANGED <<pool, ready, posted, timer_set, reusable, queues, avail, loop>>

(* ngx_epoll_add_connection(), by those who connect to an upstream server. *)
AddConn(c) ==
  /\ Handler /\ "addconn" \in Does /\ c \in open /\ Both(c) \cap active = {}
  /\ IF kev[c] = {}
       THEN active' = active \cup Both(c) /\ Watch(c, Dirs)
       ELSE UNCHANGED <<active, kev, kinst, rdl>>
  /\ UNCHANGED <<pool, ready, posted, timer_set, reusable, queues, avail, loop>>

(* recv() or send() until EAGAIN, or an error: the edge is consumed. *)
Consume(c, d) ==
  /\ Handler /\ c \in open /\ <<c, d>> \in ready
  /\ ready' = ready \ {<<c, d>>}
  /\ avail' = [avail EXCEPT ![c] = @ \ {d, "err"}]
  /\ UNCHANGED <<pool, active, posted, timer_set, reusable, queues, kev, kinst, rdl,
                 loop>>

AddTimer(e) ==
  /\ Handler /\ "timer" \in Does /\ e[1] \in open
  /\ tree' = tree \cup {e} /\ timer_set' = timer_set \cup {e}
  /\ UNCHANGED <<pool, active, ready, posted, reusable, postq, reuseq, kernel, loop>>

DelTimer(e) ==
  /\ Handler /\ "timer" \in Does /\ e[1] \in open /\ e \in timer_set
  /\ tree' = tree \ {e} /\ timer_set' = timer_set \ {e}
  /\ UNCHANGED <<pool, active, ready, posted, reusable, postq, reuseq, kernel, loop>>

(* ngx_post_event(ev, &ngx_posted_events) *)
PostEvent(e) ==
  /\ posted' = posted \cup {e}
  /\ postq' = IF e \in posted THEN postq ELSE Append(postq, e)

Post(e) ==
  /\ Handler /\ "post" \in Does /\ e[1] \in open
  /\ PostEvent(e)
  /\ UNCHANGED <<pool, active, ready, timer_set, reusable, tree, reuseq, kernel, loop>>

Return ==
  /\ Handler
  /\ pc' = ret /\ run' = None /\ ret' = "wait"
  /\ UNCHANGED <<pool, flags, queues, kernel, batch, post>>

-----------------------------------------------------------------------------
(* The loop: ngx_process_events_and_timers(). *)

Call(e, back) == pc' = "handler" /\ run' = e /\ ret' = back

(* epoll_wait(): all that is ready, as far as event_list has room. *)
Wait ==
  /\ pc = "wait"
  /\ \E S \in SUBSET Reportable :
       /\ S = Reportable \/ Cardinality(S) = MaxBatch
       /\ Cardinality(S) <= MaxBatch
       /\ \E s \in Orders(S) :
            batch' = [i \in DOMAIN s |->
                        [c |-> s[i], inst |-> kinst[s[i]], ev |-> Revents(s[i])]]
       /\ rdl' = Reportable \ S
  /\ post' \in IF "defer" \in Does THEN BOOLEAN ELSE {FALSE}
  /\ reborn' = [c \in Conns |-> 0]
  /\ pc' = "read"
  /\ UNCHANGED <<free, open, inst, flags, queues, kev, kinst, avail, ret, run>>

(* The handler of a listening socket, now or from ngx_posted_accept_events. *)
Accept ==
  /\ pc = IF post THEN "accept" ELSE "read"
  /\ Call(None, pc)
  /\ UNCHANGED <<pool, flags, queues, kernel, batch, post>>

(* Mutant: a report is stale only when its connection is closed. *)
StaleClosed(b) == b.c \notin open

(* The connection is closed, or was taken again since. *)
Stale(b) == b.c \notin open \/ inst[b.c] # b.inst

(* Mutant: the event is not marked ready when its handler is only posted. *)
DeliverUnmarked(e, next) ==
  IF post
    THEN PostEvent(e) /\ pc' = next /\ UNCHANGED <<ready, run, ret>>
    ELSE Call(e, next) /\ ready' = ready \cup {e} /\ UNCHANGED <<posted, postq>>

(* Event e of the first report happened: its handler runs, or is posted. *)
Deliver(e, next) ==
  /\ ready' = ready \cup {e}
  /\ IF post
       THEN PostEvent(e) /\ pc' = next /\ UNCHANGED <<run, ret>>
       ELSE Call(e, next) /\ UNCHANGED <<posted, postq>>

(* The first half of the turn of the loop for one report. *)
ReadPart ==
  /\ pc = "read" /\ batch # <<>>
  /\ LET b == Head(batch)
         e == <<b.c, "in">>
     IN IF Stale(b)
          THEN batch' = Tail(batch) /\ UNCHANGED <<pc, ret, run, ready, posted, postq>>
          ELSE /\ UNCHANGED batch
               /\ IF "in" \in b.ev /\ e \in active
                    THEN Deliver(e, "write")
                    ELSE pc' = "write" /\ UNCHANGED <<ret, run, ready, posted, postq>>
  /\ UNCHANGED <<pool, active, timer_set, reusable, tree, reuseq, kernel, post>>

(* The second half: the read handler may have closed the connection. *)
WritePart ==
  /\ pc = "write"
  /\ batch' = Tail(batch)
  /\ LET b == Head(batch)
         e == <<b.c, "out">>
     IN IF "out" \in b.ev /\ e \in active /\ ~Stale(b)
          THEN Deliver(e, "read")
          ELSE pc' = "read" /\ UNCHANGED <<ret, run, ready, posted, postq>>
  /\ UNCHANGED <<pool, active, timer_set, reusable, tree, reuseq, kernel, post>>

(* The end of the batch, and of the posted accept events. *)
BatchEnd ==
  /\ pc' = CASE pc = "read" /\ batch = <<>> -> "accept"
             [] pc = "accept" -> "timers"
             [] OTHER -> "wait"
  /\ \/ pc = "read" /\ batch = <<>>
     \/ pc = "accept"
     \/ pc = "posted" /\ postq = <<>>
  /\ UNCHANGED <<pool, flags, queues, kernel, batch, post, ret, run>>

(* ngx_event_expire_timers(): some of the timers, or none, are due. *)
Expire ==
  /\ pc = "timers"
  /\ \/ \E e \in tree :
          /\ tree' = tree \ {e} /\ timer_set' = timer_set \ {e}
          /\ Call(e, "timers")
     \/ pc' = "posted" /\ UNCHANGED <<tree, timer_set, run, ret>>
  /\ UNCHANGED <<pool, active, ready, posted, reusable, postq, reuseq, kernel, batch,
                 post>>

(* ngx_event_process_posted() *)
ProcessPosted ==
  /\ pc = "posted" /\ postq # <<>>
  /\ LET e == Head(postq)
     IN /\ posted' = posted \ {e} /\ postq' = Tail(postq)
        /\ Call(e, "posted")
  /\ UNCHANGED <<pool, active, ready, timer_set, reusable, tree, reuseq, kernel, batch,
                 post>>

Loop == Wait \/ Accept \/ ReadPart \/ WritePart \/ BatchEnd \/ Expire \/ ProcessPosted

Next ==
  \/ Loop \/ Return \/ Take \/ DrainAndTake
  \/ \E c \in Conns :
       \/ Close(c) \/ AddConn(c)
       \/ \E on \in BOOLEAN : Reusable(c, on)
       \/ \E s \in Signals : Arrive(c, s)
       \/ \E d \in Dirs \cap Signals : AddEvent(c, d) \/ DelEvent(c, d) \/ Consume(c, d)
  \/ \E e \in Events : e[2] \in Signals /\ (AddTimer(e) \/ DelTimer(e) \/ Post(e))

Spec == Init /\ [][Next]_vars

-----------------------------------------------------------------------------
TypeOK ==
  /\ open \subseteq Conns /\ reusable \subseteq Conns /\ rdl \subseteq Conns
  /\ active \subseteq Events /\ ready \subseteq Events /\ posted \subseteq Events
  /\ timer_set \subseteq Events /\ tree \subseteq Events
  /\ free \in Seq(Conns) /\ reuseq \in Seq(Conns) /\ postq \in Seq(Events)
  /\ inst \in [Conns -> {0, 1}] /\ kinst \in [Conns -> {0, 1}]
  /\ kev \in [Conns -> SUBSET Dirs] /\ avail \in [Conns -> SUBSET (Dirs \cup {"err"})]
  /\ batch \in Seq([c : Conns, inst : {0, 1}, ev : SUBSET Dirs])
  /\ post \in BOOLEAN /\ run \in Events \cup {None} /\ reborn \in [Conns -> Nat]
  /\ pc \in {"wait", "read", "write", "accept", "timers", "posted", "handler"}
  /\ ret \in {"wait", "read", "write", "accept", "timers", "posted"}

Lists(s, S) ==
  /\ \A x \in S : \E i \in DOMAIN s : s[i] = x
  /\ \A i \in DOMAIN s : s[i] \in S /\ \A j \in DOMAIN s : s[i] = s[j] => i = j

(* The free list holds every connection that is not in use, once, so that   *)
(* none leaks and none is given to two sockets.                             *)
PoolExact == Lists(free, Conns \ open)

(* An event is in the posted queue, in the timer tree, and a connection in  *)
(* the queue of reusable ones, exactly when its flag says so, and then its  *)
(* connection is open: nothing that is cleared by ngx_get_connection() is   *)
(* linked anywhere.                                                         *)
LinksTrue ==
  /\ Lists(postq, posted) /\ tree = timer_set /\ Lists(reuseq, reusable)
  /\ \A e \in posted \cup timer_set : e[1] \in open
  /\ reusable \subseteq open

(* epoll_ctl() is always called with the right operation: the kernel        *)
(* watches exactly the active events, with the present instance bit.        *)
EpollAgrees ==
  /\ \A c \in Conns : kev[c] = {d \in Dirs : <<c, d>> \in active}
  /\ \A c \in open : kev[c] # {} => kinst[c] = inst[c]

(* Whatever happened to a socket that is watched for it is not forgotten:   *)
(* the kernel has still to report it, or the report waits in the batch and  *)
(* will not be taken for a stale one, or the event is marked ready.         *)
NoLostEdge ==
  \A e \in active : e[2] \in avail[e[1]] =>
    \/ e[1] \in rdl \/ e \in ready
    \/ \E i \in DOMAIN batch :
         /\ batch[i].c = e[1] /\ e[2] \in batch[i].ev /\ ~Stale(batch[i])
         /\ ~(i = 1 /\ e[2] = "in" /\ "write" \in {pc, ret})

(* A report is never given to a handler of another connection: the one it   *)
(* is about has not been closed and taken again since epoll_wait().         *)
NoStaleEvent ==
  [][(pc \in {"read", "write"} /\ run' \in Events) => (reborn[run'[1]] = 0)]_vars

(* Kernel, pool, queues and flags agree, and no readiness is forgotten. *)
LoopSound == TypeOK /\ PoolExact /\ LinksTrue /\ EpollAgrees /\ NoLostEdge


=============================================================================
