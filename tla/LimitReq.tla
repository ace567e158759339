------------------------------ MODULE LimitReq ------------------------------
(***************************************************************************)
(* limit_req: the leaky buckets the workers share                           *)
(* (http/modules/ngx_http_limit_req_module.c).                              *)
(*                                                                          *)
(* A location has a list of limits, each with a zone of its own.  The       *)
(* handler looks the request's key up in one zone after the other, each     *)
(* time under that zone's mutex; all but the last zone are charged only     *)
(* when every one of them let the request through, and until then a count   *)
(* pins the node it found.  A worker runs one handler at a time, so its     *)
(* ctx->node fields belong to the request in hand, but the workers          *)
(* interleave between two lock sections, each with its own cached time.     *)
(*                                                                          *)
(* A lock section is one action.  A node is named by its key: a zone never  *)
(* has two nodes with one key.                                              *)
(***************************************************************************)
EXTENDS Integers, Sequences, FiniteSets, SequencesExt, FiniteSetsExt

CONSTANTS
  Workers,
  Zones,        \* the limits of the location, in order: 1..n
  Keys,         \* the values of the limits' keys
  Requests,     \* the keys a request may have: one or NoKey for each limit
  Cap,          \* the nodes a zone has memory for
  Unit,         \* what one request weighs: 1000 in the code
  Rate,         \* what leaks in a tick
  Burst,        \* by zone
  Nodelay,      \* the zones whose limit has the nodelay parameter
  ExpireAfter,  \* the minute a node is kept at least
  MaxTime,      \* bound on the ticks of the clock
  MaxRequests,  \* bound on the requests
  MaxFaults     \* bound on the crashes and failed allocations

VARIABLES
  clock,      \* the time
  timeofday,  \* by worker: the time it has cached
  zone,       \* by zone: the nodes, by key, and the queue, newest first
  node,       \* by worker and zone: ctx->node
  handler,    \* by worker: the request in hand
  delayed,    \* by worker: when the requests that wait may go on
  asked,      \* requests so far
  faults,     \* faults so far
  passed,     \* by zone and key: the requests charged, see RateKept
  lost        \* by zone and key: pins nobody will take off

vars == <<clock, timeofday, zone, node, handler, delayed, asked, faults, passed, lost>>

NoKey == "none"                  \* an empty key, and a NULL pointer
NLimits == Cardinality(Zones)
Epoch == 100                     \* how long ago 1970 is, at the start
Abs(n) == IF n < 0 THEN -n ELSE n
Idle == [pc |-> "idle"]

Init ==
  /\ clock = Epoch /\ timeofday = [w \in Workers |-> Epoch]
  /\ zone = [z \in Zones |-> [tree |-> <<>>, queue |-> <<>>]]
  /\ node = [w \in Workers |-> [z \in Zones |-> NoKey]]
  /\ handler = [w \in Workers |-> Idle]
  /\ delayed = [w \in Workers |-> {}]
  /\ asked = 0 /\ faults = 0
  /\ passed = [z \in Zones |-> [k \in Keys |-> <<>>]]
  /\ lost = [z \in Zones |-> [k \in Keys |-> 0]]

(* What is in the bucket when another request is poured in. *)
Excess(lr, now) == Max({0, lr.excess - (Rate * Abs(now - lr.last)) + Unit})

Delete(Z, k) == [tree  |-> [x \in DOMAIN Z.tree \ {k} |-> Z.tree[x]],
                 queue |-> Remove(Z.queue, k)]

Insert(Z, k, lr) ==
  [tree  |-> [x \in DOMAIN Z.tree \cup {k} |-> IF x = k THEN lr ELSE Z.tree[x]],
   queue |-> <<k>> \o Z.queue]

-----------------------------------------------------------------------------
(* Mutant: a node somebody is about to charge is dropped like any other. *)
StaleUnpinned(Z, now) ==
  Z.queue # <<>> /\
  LET lr == Z.tree[Last(Z.queue)]
      ms == Abs(now - lr.last)
  IN ms >= ExpireAfter /\ lr.excess - (Rate * ms) <= 0

(* The oldest node can go: nobody is about to charge it, it was not used    *)
(* for a minute and what it held has leaked.                                *)
Stale(Z, now) ==
  Z.queue # <<>> /\
  LET lr == Z.tree[Last(Z.queue)]
      ms == Abs(now - lr.last)
  IN lr.count = 0 /\ ms >= ExpireAfter /\ lr.excess - (Rate * ms) <= 0

DropStale(Z, now) == IF Stale(Z, now) THEN Delete(Z, Last(Z.queue)) ELSE Z

DropOldest(Z) ==
  IF Z.queue # <<>> /\ Z.tree[Last(Z.queue)].count = 0
  THEN Delete(Z, Last(Z.queue)) ELSE Z

(* ngx_http_limit_req_expire(ctx, 1) and, for want of memory, (ctx, 0) *)
Expire(Z, now) == DropStale(DropStale(Z, now), now)

ExpireForced(Z, now) == IF DropOldest(Z) = Z THEN Z ELSE Expire(DropOldest(Z), now)

(* The zone with memory for one more node, if there can be any. *)
MakeRoom(Z, now) ==
  IF Cardinality(DOMAIN Expire(Z, now).tree) < Cap THEN Expire(Z, now)
  ELSE ExpireForced(Expire(Z, now), now)

-----------------------------------------------------------------------------
Tick ==
  /\ clock < Epoch + MaxTime
  /\ clock' = clock + 1
  /\ UNCHANGED <<timeofday, zone, node, handler, delayed, asked, faults, passed, lost>>

(* The first limit from n on whose key is not empty. *)
NextLimit(n, keys) ==
  LET left == {z \in n..NLimits : keys[z] # NoKey}
  IN IF left = {} THEN NLimits + 1 ELSE Min(left)

(* The loop over the limits came to limit n: another lookup, or the end,    *)
(* where the limits below n are charged.                                    *)
GoOn(h, n) ==
  IF n <= NLimits THEN [h EXCEPT !.pc = "lookup", !.n = n]
  ELSE [h EXCEPT !.pc = "account", !.n = NLimits]

(* A request arrives at an idle worker, which just cached the time.  With   *)
(* no key at all the handler declines.                                      *)
Start(w) ==
  /\ handler[w] = Idle /\ asked < MaxRequests
  /\ \E keys \in Requests :
       handler' = [handler EXCEPT ![w] =
         GoOn([pc |-> "lookup", n |-> 1, keys |-> keys, delay |-> 0], NextLimit(1, keys))]
  /\ timeofday' = [timeofday EXCEPT ![w] = clock]
  /\ asked' = asked + 1
  /\ UNCHANGED <<clock, zone, node, delayed, faults, passed, lost>>

(* What is charged to node k, with the delay it asks for. *)
Charge(p, lr, now, fresh) ==
  Append(p, [at |-> now, until |-> now + (lr.excess \div Rate), fresh |-> fresh])

(* The delay of one limit. *)
DelayOf(z, excess) == IF z \in Nodelay THEN 0 ELSE excess \div Rate

(* A pin this worker forgets when it overwrites ctx->node. *)
Overwritten(w, z) ==
  IF node[w][z] = NoKey THEN lost
  ELSE [lost EXCEPT ![z][node[w][z]] = @ + 1]

(* Mutant: the burst is not looked at. *)
FoundUnchecked(w, z, k, last) ==
  LET now == timeofday[w]
      excess == Excess(zone[z].tree[k], now)
      Z == [zone[z] EXCEPT !.queue = <<k>> \o Remove(@, k)]
  IN IF last
     THEN /\ zone' = [zone EXCEPT ![z] =
                        [Z EXCEPT !.tree[k].last = now, !.tree[k].excess = excess]]
          /\ passed' = [passed EXCEPT ![z][k] = Charge(@, [excess |-> excess], now, FALSE)]
          /\ handler' = [handler EXCEPT ![w].pc = "account", ![w].n = z - 1]
          /\ UNCHANGED <<node, lost>>
     ELSE /\ zone' = [zone EXCEPT ![z] = [Z EXCEPT !.tree[k].count = @ + 1]]
          /\ node' = [node EXCEPT ![w][z] = k]
          /\ lost' = Overwritten(w, z)
          /\ handler' = [handler EXCEPT ![w] = GoOn(@, NextLimit(z + 1, @.keys))]
          /\ UNCHANGED passed

(* The key has a node: refused, or charged, or pinned until the limits      *)
(* after it agreed.                                                         *)
Found(w, z, k, last) ==
  LET now == timeofday[w]
      lr == zone[z].tree[k]
      excess == Excess(lr, now)
      Z == [zone[z] EXCEPT !.queue = <<k>> \o Remove(@, k)]
  IN IF excess > Burst[z]
     THEN /\ zone' = [zone EXCEPT ![z] = Z]
          /\ handler' = [handler EXCEPT ![w].pc = "undo", ![w].n = z - 1]
          /\ UNCHANGED <<node, passed, lost>>
     ELSE IF last
     THEN /\ zone' = [zone EXCEPT ![z] =
                        [Z EXCEPT !.tree[k].last = now, !.tree[k].excess = excess]]
          /\ passed' = [passed EXCEPT ![z][k] = Charge(@, [excess |-> excess], now, FALSE)]
          /\ handler' = [handler EXCEPT ![w].pc = "account", ![w].n = z - 1,
                                        ![w].delay = DelayOf(z, excess)]
          /\ UNCHANGED <<node, lost>>
     ELSE /\ zone' = [zone EXCEPT ![z] = [Z EXCEPT !.tree[k].count = @ + 1]]
          /\ node' = [node EXCEPT ![w][z] = k]
          /\ lost' = Overwritten(w, z)
          /\ handler' = [handler EXCEPT ![w] = GoOn(@, NextLimit(z + 1, @.keys))]
          /\ UNCHANGED passed

(* A key a forced eviction took out of the zone is forgotten: its history   *)
(* starts again.                                                            *)
Forgotten(z, Z, now) ==
  [passed EXCEPT ![z] = [k \in Keys |->
     IF k \in DOMAIN Expire(zone[z], now).tree \ DOMAIN Z.tree
     THEN <<>> ELSE passed[z][k]]]

(* The key is new: a node is made, after old ones went. *)
NotFound(w, z, k, last) ==
  LET now == timeofday[w]
      Z == MakeRoom(zone[z], now)
      lr == [excess |-> 0, last |-> IF last THEN now ELSE 0,
             count |-> IF last THEN 0 ELSE 1]
  IN IF Cardinality(DOMAIN Z.tree) >= Cap
     THEN /\ zone' = [zone EXCEPT ![z] = Z]
          /\ passed' = Forgotten(z, Z, now)
          /\ handler' = [handler EXCEPT ![w].pc = "undo", ![w].n = z - 1]
          /\ UNCHANGED <<node, lost>>
     ELSE /\ zone' = [zone EXCEPT ![z] = Insert(Z, k, lr)]
          /\ IF last
             THEN /\ passed' = [Forgotten(z, Z, now) EXCEPT ![z][k] = Charge(@, lr, now, TRUE)]
                  /\ handler' = [handler EXCEPT ![w].pc = "account", ![w].n = z - 1]
                  /\ UNCHANGED <<node, lost>>
             ELSE /\ passed' = Forgotten(z, Z, now)
                  /\ node' = [node EXCEPT ![w][z] = k]
                  /\ lost' = Overwritten(w, z)
                  /\ handler' = [handler EXCEPT ![w] = GoOn(@, NextLimit(z + 1, @.keys))]

(* ngx_http_limit_req_lookup(), under the mutex of the zone *)
Lookup(w) ==
  /\ handler[w].pc = "lookup"
  /\ LET z == handler[w].n
         k == handler[w].keys[z]
     IN IF k \in DOMAIN zone[z].tree THEN Found(w, z, k, z = NLimits)
        ELSE NotFound(w, z, k, z = NLimits)
  /\ UNCHANGED <<clock, timeofday, delayed, asked, faults>>

(* Memory for the key of the next limit is refused: the handler returns     *)
(* with the pins of the limits before it.                                   *)
KeyFails(w) ==
  /\ handler[w].pc = "lookup" /\ faults < MaxFaults
  /\ faults' = faults + 1
  /\ handler' = [handler EXCEPT ![w] = Idle]
  /\ UNCHANGED <<clock, timeofday, zone, node, delayed, asked, passed, lost>>

(* The request is refused: the pins are taken off, zone by zone. *)
Undo(w) ==
  /\ handler[w].pc = "undo"
  /\ LET pinned == {z \in 1..handler[w].n : node[w][z] # NoKey}
         z == Max(pinned)
     IN IF pinned = {}
        THEN handler' = [handler EXCEPT ![w] = Idle] /\ UNCHANGED <<zone, node>>
        ELSE /\ zone' = [zone EXCEPT ![z].tree[node[w][z]].count = @ - 1]
             /\ node' = [node EXCEPT ![w][z] = NoKey]
             /\ handler' = [handler EXCEPT ![w].n = z - 1]
  /\ UNCHANGED <<clock, timeofday, delayed, asked, faults, passed, lost>>

(* ngx_http_limit_req_account() of one zone, under its mutex *)
AccountOne(w, z) ==
  LET k == node[w][z]
      now == timeofday[w]
      lr == zone[z].tree[k]
      excess == Excess(lr, now)
  IN /\ zone' = [zone EXCEPT ![z].tree[k] =
                   [excess |-> excess, last |-> now, count |-> lr.count - 1]]
     /\ passed' = [passed EXCEPT ![z][k] = Charge(@, [excess |-> excess], now, lr.last = 0)]
     /\ node' = [node EXCEPT ![w][z] = NoKey]
     /\ handler' = [handler EXCEPT ![w].n = z - 1,
                                   ![w].delay = Max({@, DelayOf(z, excess)})]
     /\ UNCHANGED delayed

(* The request is let through, at once or by the timer. *)
LetThrough(w) ==
  /\ handler' = [handler EXCEPT ![w] = Idle]
  /\ delayed' = [delayed EXCEPT ![w] =
       IF handler[w].delay = 0 THEN @ ELSE @ \cup {timeofday[w] + handler[w].delay}]
  /\ UNCHANGED <<zone, node, passed>>

Account(w) ==
  /\ handler[w].pc = "account"
  /\ LET pinned == {z \in 1..handler[w].n : node[w][z] # NoKey}
     IN IF pinned = {} THEN LetThrough(w) ELSE AccountOne(w, Max(pinned))
  /\ UNCHANGED <<clock, timeofday, asked, faults, lost>>

(* ngx_http_limit_req_delay(): the timer lets the request go on; its second *)
(* run through the handler ends at limit_req_set.                           *)
Release(w) ==
  /\ handler[w] = Idle
  /\ \E t \in delayed[w] : t <= clock /\ delayed' = [delayed EXCEPT ![w] = @ \ {t}]
  /\ timeofday' = [timeofday EXCEPT ![w] = clock]
  /\ UNCHANGED <<clock, zone, node, handler, asked, faults, passed, lost>>

(* A worker dies between two lock sections; the master starts another. *)
Crash(w) ==
  /\ faults < MaxFaults
  /\ faults' = faults + 1
  /\ lost' = [z \in Zones |-> [k \in Keys |->
                lost[z][k] + IF node[w][z] = k THEN 1 ELSE 0]]
  /\ node' = [node EXCEPT ![w] = [z \in Zones |-> NoKey]]
  /\ handler' = [handler EXCEPT ![w] = Idle]
  /\ delayed' = [delayed EXCEPT ![w] = {}]
  /\ UNCHANGED <<clock, timeofday, zone, asked, passed>>

Next ==
  \/ Tick
  \/ \E w \in Workers : \/ Start(w) \/ Lookup(w) \/ KeyFails(w) \/ Undo(w)
                        \/ Account(w) \/ Release(w) \/ Crash(w)

Spec == Init /\ [][Next]_vars

-----------------------------------------------------------------------------
(* Every node is pinned exactly by the handlers that will still charge or   *)
(* release it and by the ones that died or failed with it, so a node that   *)
(* expires is nobody's, and a refused request leaves no pin behind.         *)
PinsExact ==
  /\ \A z \in Zones : \A k \in Keys :
       Cardinality({w \in Workers : node[w][z] = k}) + lost[z][k]
         = IF k \in DOMAIN zone[z].tree THEN zone[z].tree[k].count ELSE 0
  /\ faults = 0 => \A w \in Workers : handler[w] = Idle =>
       \A z \in Zones : node[w][z] = NoKey

Swing(p, i, j) ==
  FoldFunctionOnSet(+, 0, [m \in (i + 1)..j |-> Abs(p[m].at - p[m - 1].at)], (i + 1)..j)

(* The leaky bucket: between any two requests with one key the number let   *)
(* through is what leaked meanwhile, the burst, one for every other worker  *)
(* that checked before this one was charged, and one for every time the     *)
(* node was made anew.  What leaks is counted with each worker's own clock. *)
RateKept ==
  \A z \in Zones : \A k \in Keys : LET p == passed[z][k] IN
    \A j \in DOMAIN p : \A i \in 1..(j - 1) :
      (j - i) * Unit <=
        Burst[z] + (Rate * Swing(p, i, j))
          + Unit * (Cardinality(Workers) - 1 + faults
                    + Cardinality({m \in (i + 1)..j : p[m].fresh}))

(* Two requests charged one after the other to a node are let go at least   *)
(* the period of the rate apart, less what the second worker's clock lags.  *)
Paced ==
  \A z \in Zones : \A k \in Keys : LET p == passed[z][k] IN
    \A j \in 2..Len(p) : ~p[j].fresh =>
      p[j].until >= p[j - 1].until + (Unit \div Rate) - 1
                      - (2 * Max({0, p[j - 1].at - p[j].at}))

(* The bucket leaks at its rate, for those who are charged at once and for  *)
(* those who are delayed.                                                   *)
RateSound == RateKept /\ Paced


=============================================================================
