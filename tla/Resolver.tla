------------------------------ MODULE Resolver ------------------------------
(***************************************************************************)
(* The DNS resolver of a worker (core/ngx_resolver.c).                      *)
(*                                                                          *)
(* A node is kept for every name and address asked about.  While its query  *)
(* is out it is on the resend queue and the contexts of the askers hang on  *)
(* its waiting list; with an answer it moves to the expire queue and is a   *)
(* cache entry.  A name is asked for in two families at once, and the two   *)
(* answers come in any order, twice, late or not at all.  A CNAME answer    *)
(* sends the whole waiting list on to another node.                         *)
(*                                                                          *)
(* Askers are called back from a loop over the waiting list, and a handler  *)
(* calls back into the resolver: it ends its own context, which may expire  *)
(* nodes and stop the resend timer, and may ask again.  The loop that is    *)
(* under way is the variable todo.  Durations are left out: an entry lapses *)
(* or ages at any time the worker rests, in the order of its queue.         *)
(***************************************************************************)
EXTENDS Integers, Sequences, FiniteSets, SequencesExt

CONSTANTS
  Names,          \* names asked for, or that a CNAME leads to
  Malformed,      \* the ones no query can be made for
  Addrs,          \* addresses whose name is asked for
  Askers,         \* contexts
  IPv6,           \* r->ipv6
  MaxRecursion    \* NGX_RESOLVER_MAX_RECURSION

VARIABLES
  node,      \* by name or address: the tree's node
  resend, expire,   \* by kind: the queues, newest first
  timer,     \* r->event->timer_set
  ctx,       \* by asker
  todo       \* the callbacks of the loop under way, innermost first

vars == <<node, resend, expire, timer, ctx, todo>>

Keys == Names \cup Addrs
Kind(n) == IF n \in Names THEN "name" ELSE "addr"
Nowhere == "nowhere"
Families == {"v4", "v6"}

Absent == [tree |-> FALSE, query |-> FALSE, heard |-> [f \in Families |-> "none"], got |-> [f \in Families |-> "no"],
           tcp |-> [f \in Families |-> FALSE], code |-> FALSE, cached |-> "none",
           valid |-> FALSE, aged |-> FALSE, waiting |-> <<>>]

(* What has come for a node: "wait" is the naddrs of -1. *)
Asked(n) == [f \in Families |-> IF f = "v4" \/ (IPv6 /\ n \in Names) THEN "wait" ELSE "none"]

Idle == [state |-> "none", node |-> Nowhere, recursion |-> 0, timer |-> FALSE]

(* The parts of the state that one call changes. *)
State == [node |-> node, resend |-> resend, expire |-> expire, timer |-> timer,
          ctx |-> ctx, todo |-> todo]

Becomes(S) ==
  /\ node' = S.node /\ resend' = S.resend /\ expire' = S.expire /\ timer' = S.timer
  /\ ctx' = S.ctx /\ todo' = S.todo

Init ==
  /\ node = [n \in Keys |-> Absent]
  /\ resend = [k \in {"name", "addr"} |-> <<>>]
  /\ expire = [k \in {"name", "addr"} |-> <<>>]
  /\ timer = FALSE
  /\ ctx = [c \in Askers |-> Idle]
  /\ todo = <<>>

-----------------------------------------------------------------------------
(* Queues. *)
Unqueue(S, n) ==
  [S EXCEPT !.resend[Kind(n)] = SelectSeq(@, LAMBDA m : m # n),
            !.expire[Kind(n)] = SelectSeq(@, LAMBDA m : m # n)]

(* A node with an answer goes to the head of the expire queue. *)
Cache(S, n) ==
  LET U == Unqueue(S, n)
  IN [U EXCEPT !.expire[Kind(n)] = <<n>> \o @, !.node[n].aged = FALSE]

(* ngx_rbtree_delete() and ngx_resolver_free_node() *)
Drop(S, n) == [Unqueue(S, n) EXCEPT !.node[n] = Absent]

(* The asker's timer, set once. *)
Arm(S, c) == [S EXCEPT !.ctx[c].timer = TRUE]

Call(S, chain, result) ==
  [S EXCEPT !.todo = [i \in DOMAIN chain |-> [ctx |-> chain[i], result |-> result]] \o @,
            !.ctx = [c \in Askers |-> IF c \in Range(chain) THEN [@[c] EXCEPT !.state = result]
                                      ELSE @[c]]]

(* The chain is put in front of the node's waiting list. *)
Wait(S, chain, n) ==
  [Arm(S, Head(chain)) EXCEPT
     !.node[n].waiting = chain \o @,
     !.ctx = [c \in Askers |->
                IF c \in Range(chain) \cup Range(S.node[n].waiting)
                THEN [@[c] EXCEPT !.node = n, !.state = "again"]
                ELSE @[c]]]

(* ngx_resolver_create_name_query(), _create_addr_query(), _send_query():   *)
(* a new query, with an identifier of its own, and the node on the resend   *)
(* queue; the timer is set with the first node on it.                       *)
Query(S, chain, n) ==
  LET U == Unqueue(S, n)
      Q == [U EXCEPT !.node[n] = [Absent EXCEPT !.tree = TRUE, !.query = TRUE, !.got = Asked(n)],
                     !.timer = @ \/ U.resend[Kind(n)] = <<>>,
                     !.resend[Kind(n)] = <<n>> \o @]
  IN Wait(Q, chain, n)

(* A query that cannot be sent: the node goes, and whoever waited is left   *)
(* to his own timer.                                                        *)
QueryFails(S, chain, n) ==
  [Drop(S, n) EXCEPT
     !.ctx = [c \in Askers |-> IF c \in Range(chain) THEN [@[c] EXCEPT !.node = Nowhere]
                               ELSE @[c]]]

(* The name the cached CNAMEs lead to from n, and how many were followed;   *)
(* every entry on the way is used and thereby renewed.                      *)
RECURSIVE Follow(_, _, _)
Follow(S, n, depth) ==
  LET rn == S.node[n]
      U == IF rn.tree /\ rn.valid THEN Cache(S, n) ELSE S
  IN IF rn.tree /\ rn.valid /\ rn.cached \in Names /\ depth < MaxRecursion
     THEN Follow(U, rn.cached, depth + 1)
     ELSE [state |-> U, name |-> n,
           depth |-> IF rn.tree /\ rn.valid /\ rn.cached \in Names THEN depth + 1 ELSE depth]

(* ngx_resolve_name_locked(): the set of outcomes for a chain of askers. *)
ResolveLocked(S, chain, n) ==
  LET F == Follow(S, n, S.ctx[Head(chain)].recursion)
      U == [F.state EXCEPT !.ctx[Head(chain)].recursion = F.depth]
      m == F.name
      rn == U.node[m]
  IN IF rn.tree /\ rn.valid
     THEN LET all == chain \o rn.waiting
              V == [U EXCEPT !.node[m].waiting = <<>>]
          IN {Call(V, all, IF rn.cached = "addrs" THEN "ok" ELSE "nxdomain")}
     ELSE IF rn.waiting # <<>> THEN {Wait(U, chain, m)}
     ELSE IF m \in Malformed THEN {Call(U, chain, "nxdomain")}
     ELSE {Query(U, chain, m), QueryFails(U, chain, m)}

-----------------------------------------------------------------------------
(* ngx_resolver_expire(): of the two oldest entries the ones that are old. *)
Expired(S, k) ==
  LET q == S.expire[k]
  IN {q[i] : i \in {j \in DOMAIN q : j > Len(q) - 2 /\ S.node[q[j]].aged}}

(* The timer is stopped when both resend queues are empty. *)
StopTimer(S) == S.timer /\ (S.resend["name"] # <<>> \/ S.resend["addr"] # <<>>)

(* Mutant: a context that timed out is not taken off the waiting list. *)
DoneKeeps(S, c, k) ==
  LET off == Expired(S, k)
  IN [S EXCEPT
        !.node = [n \in Keys |->
                    IF n \in off THEN Absent
                    ELSE IF S.ctx[c].state = "again" /\ S.ctx[c].node = n
                    THEN [@[n] EXCEPT !.waiting = SelectSeq(@, LAMBDA x : x # c)]
                    ELSE @[n]],
        !.ctx[c] = Idle,
        !.expire[k] = SelectSeq(@, LAMBDA n : n \notin off),
        !.timer = StopTimer(S)]

(* ngx_resolve_name_done(), ngx_resolve_addr_done() *)
Done(S, c, k) ==
  LET off == Expired(S, k)
  IN [S EXCEPT
        !.node = [n \in Keys |->
                    IF n \in off THEN Absent
                    ELSE IF S.ctx[c].state \in {"again", "timedout"} /\ S.ctx[c].node = n
                    THEN [@[n] EXCEPT !.waiting = SelectSeq(@, LAMBDA x : x # c)]
                    ELSE @[n]],
        !.ctx[c] = Idle,
        !.expire[k] = SelectSeq(@, LAMBDA n : n \notin off),
        !.timer = StopTimer(S)]

Rests == todo = <<>>

(* ngx_resolve_name(), ngx_resolve_addr(): when the query cannot be sent    *)
(* the context is freed and the asker told.                                 *)
Resolve(S, c, n) ==
  {IF T.ctx[c].node = Nowhere /\ T.ctx[c].state = "again"
   THEN [T EXCEPT !.ctx[c] = Idle] ELSE T
     : T \in ResolveLocked([S EXCEPT !.ctx[c].state = "again"], <<c>>, n)}

(* An asker comes. *)
Ask(c, n) ==
  /\ Rests /\ ctx[c] = Idle
  /\ \E S \in Resolve(State, c, n) : Becomes(S)

(* A callback of the loop: the handler ends its context and may ask again,  *)
(* with a new one.                                                          *)
CallHandler ==
  /\ todo # <<>>
  /\ LET c == Head(todo).ctx
         k == IF ctx[c].node = Nowhere THEN "name" ELSE Kind(ctx[c].node)
     IN \E S \in {Done([State EXCEPT !.todo = Tail(@)], c, k)} :
          \/ Becomes(S)
          \/ \E n \in Keys, d \in Askers \ {c} :
               ctx[d] = Idle /\ \E T \in Resolve(S, d, n) : Becomes(T)

(* Mutant: the timer of an asker whose node is gone is ignored. *)
TimeoutOfNode(c) ==
  /\ Rests /\ ctx[c].timer /\ ctx[c].node # Nowhere
  /\ Becomes([State EXCEPT !.ctx[c].timer = FALSE, !.ctx[c].state = "timedout",
                           !.todo = <<[ctx |-> c, result |-> "timedout"]>>])

(* The asker's timer: ngx_resolver_timeout_handler() *)
Timeout(c) ==
  /\ Rests /\ ctx[c].timer
  /\ Becomes([State EXCEPT !.ctx[c].timer = FALSE, !.ctx[c].state = "timedout",
                           !.todo = <<[ctx |-> c, result |-> "timedout"]>>])

(* The asker's request ends while it waits. *)
Cancel(c) ==
  /\ Rests /\ ctx[c].state = "again"
  /\ \E k \in {"name", "addr"} :
       /\ ctx[c].node = Nowhere \/ Kind(ctx[c].node) = k
       /\ Becomes(Done(State, c, k))

-----------------------------------------------------------------------------
(* A truncated answer: the query is sent again over TCP, if anybody waits. *)
Truncated(S, n, f) ==
  IF S.node[n].waiting = <<>> THEN Drop(S, n)
  ELSE [Unqueue(S, n) EXCEPT !.node[n].tcp[f] = TRUE, !.resend[Kind(n)] = <<n>> \o @]

(* All that waited are called, the node is gone. *)
Refuse(S, n, result) == Call(Drop(S, n), S.node[n].waiting, result)

(* The entry of an answer: addresses, or the name a CNAME leads to.  The    *)
(* query of an address is kept.                                             *)
Entry(n, answer) ==
  [Absent EXCEPT !.tree = TRUE, !.valid = TRUE, !.cached = answer, !.query = n \in Addrs]

(* All that waited are called, the node is a cache entry. *)
Answer(S, n) ==
  Call([Cache(S, n) EXCEPT !.node[n] = Entry(n, "addrs")], S.node[n].waiting, "ok")

(* All that waited are sent on to another name. *)
SendOn(S, n, cname) ==
  LET chain == S.node[n].waiting
      U == [Cache(S, n) EXCEPT !.node[n] = Entry(n, cname)]
      c == Head(chain)
      V == [U EXCEPT !.ctx = [x \in Askers |->
              IF x \in Range(chain) THEN [@[x] EXCEPT !.node = Nowhere] ELSE @[x]],
              !.ctx[c].recursion = @ + 1]
  IN IF chain = <<>> THEN {U}
     ELSE IF U.ctx[c].recursion >= MaxRecursion THEN {Call(U, chain, "nxdomain")}
     ELSE ResolveLocked(V, chain, cname)

(* What an answer to a name means once the other family is known: not yet   *)
(* decided, an error, no such name, addresses, or the name to go on with.   *)
Verdict(n, f, ans) ==
  LET other == CHOOSE g \in Families : g # f
      got == node[n].got[other]
      code == ans = "error" \/ node[n].code
  IN IF code THEN IF got = "wait" THEN "later" ELSE "error"
     ELSE IF ans = "empty" /\ got \in {"wait", "none"}
     THEN IF got = "wait" THEN "later" ELSE "nxdomain"
     ELSE IF got = "wait" THEN "later"
     ELSE IF "some" \in {got, IF ans = "addrs" THEN "some" ELSE "none"} THEN "ok"
     ELSE ans

(* An answer to an A or AAAA query that is still out. *)
ProcessA(n, f, ans) ==
  LET v == Verdict(n, f, ans)
      S == [State EXCEPT !.node[n].got[f] = IF ans = "addrs" THEN "some" ELSE "none",
                         !.node[n].heard[f] = ans,
                         !.node[n].code = @ \/ ans = "error"]
  IN CASE v = "later" -> Becomes(S)
       [] v \in {"error", "nxdomain"} -> Becomes(Refuse(S, n, v))
       [] v = "ok" -> Becomes(Answer(S, n))
       [] v \in Names -> \E T \in SendOn(S, n, v) : Becomes(T)

(* The answer belongs to the node's query, and its family is awaited.       *)
(* Answers to earlier queries have another identifier and change nothing.   *)
StillOut(n, f) ==
  /\ node[n].tree /\ node[n].query
  /\ IF n \in Names THEN node[n].got[f] = "wait" ELSE f = "v4"

(* ngx_resolver_process_a() *)
ResponseA(n, f) ==
  /\ Rests /\ n \in Names /\ StillOut(n, f)
  /\ \/ \E ans \in {"addrs", "empty", "error"} \cup Names : ProcessA(n, f, ans)
     \/ ~node[n].tcp[f] /\ Becomes(Truncated(State, n, f))

(* ngx_resolver_process_ptr(): the query stays, so that the same answer may *)
(* come again.                                                              *)
ResponsePtr(n, f) ==
  /\ Rests /\ n \in Addrs /\ StillOut(n, f)
  /\ \/ Becomes(Answer(State, n))
     \/ Becomes(Refuse(State, n, "error"))

(* ngx_resolver_resend(): the oldest k nodes of a resend queue are due.     *)
(* One that nobody waits for is dropped, the others are asked for again.    *)
ResendOne(S, kind, k) ==
  LET q == S.resend[kind]
      due == SubSeq(q, Len(q) - k + 1, Len(q))
      kept == SelectSeq(due, LAMBDA n : S.node[n].waiting # <<>>)
  IN [S EXCEPT !.resend[kind] = kept \o SubSeq(q, 1, Len(q) - k),
               !.node = [n \in Keys |-> IF n \in Range(due) \ Range(kept) THEN Absent ELSE @[n]]]

(* ngx_resolver_resend_handler() *)
Resend ==
  /\ Rests /\ timer
  /\ \E i \in 0..Len(resend["name"]), j \in 0..Len(resend["addr"]) :
       LET S == ResendOne(ResendOne(State, "name", i), "addr", j)
       IN Becomes([S EXCEPT !.timer = S.resend["name"] # <<>> \/ S.resend["addr"] # <<>>])

(* The time an answer is valid for passes. *)
Lapse(n) ==
  /\ Rests /\ node[n].valid
  /\ node' = [node EXCEPT ![n].valid = FALSE]
  /\ UNCHANGED <<resend, expire, timer, ctx, todo>>

(* The oldest entry not yet old was not used for long. *)
Age(n) ==
  /\ Rests
  /\ \E k \in {"name", "addr"} : \E i \in DOMAIN expire[k] :
       /\ expire[k][i] = n /\ ~node[n].aged
       /\ \A j \in (i + 1)..Len(expire[k]) : node[expire[k][j]].aged
  /\ node' = [node EXCEPT ![n].aged = TRUE]
  /\ UNCHANGED <<resend, expire, timer, ctx, todo>>

Next ==
  \/ \E c \in Askers : (\E n \in Keys : Ask(c, n)) \/ Timeout(c) \/ Cancel(c)
  \/ CallHandler
  \/ \E n \in Keys, f \in Families : ResponseA(n, f) \/ ResponsePtr(n, f)
  \/ Resend
  \/ \E n \in Keys : Lapse(n) \/ Age(n)

(* The worker runs its loops to the end and its timers fire. *)
Fairness ==
  /\ WF_vars(CallHandler)
  /\ \A c \in Askers : SF_vars(Timeout(c))

Spec == Init /\ [][Next]_vars /\ Fairness

-----------------------------------------------------------------------------
(* Who waits is on exactly one waiting list, that of the node it points to; *)
(* the node is in the tree with its query out, so an answer or a resend     *)
(* will find it.  Who does not is on no list: no freed context is called,   *)
(* and no context points to a freed node.                                   *)
WaitersKnown ==
  \A c \in Askers :
    LET lists == {n \in Keys : c \in Range(node[n].waiting)}
        next == {i \in DOMAIN todo : todo[i].ctx = c}
    IN /\ ctx[c].state = "again" =>
            IF ctx[c].node = Nowhere THEN lists = {} /\ ctx[c].timer
            ELSE /\ lists = {ctx[c].node} /\ next = {}
                 /\ node[ctx[c].node].tree /\ ctx[c].node \in Range(resend[Kind(ctx[c].node)])
       /\ ctx[c].state = "none" => lists = {} /\ next = {}
       /\ Cardinality(next) <= 1

(* Every node of the tree is on one queue, once: on the resend queue while  *)
(* a family is awaited, on the expire queue with an answer.                 *)
OneQueue ==
  \A n \in Keys :
    LET q == resend[Kind(n)]
        x == expire[Kind(n)]
        here(s) == Cardinality({i \in DOMAIN s : s[i] = n})
    IN IF node[n].tree THEN /\ here(q) + here(x) = 1
                            /\ here(x) = 1 <=> node[n].cached # "none"
       ELSE here(q) = 0 /\ here(x) = 0

(* As long as a query is out the resend timer runs. *)
ResendArmed == resend["name"] # <<>> \/ resend["addr"] # <<>> => timer

(* What a name's askers are told does not depend on the order in which the  *)
(* two families were answered: an error in either is an error, else any     *)
(* address is a success and two empty answers are none.                     *)
FamiliesAgree ==
  \A n \in Names, f, g \in Families : \A ans \in {"addrs", "empty", "error"} :
    f # g /\ StillOut(n, f) /\ node[n].got[g] # "wait" /\ node[n].heard[g] # "none"
      => LET both == {ans, node[n].heard[g]}
         IN both \cap Names = {} =>
              Verdict(n, f, ans) = IF "error" \in both THEN "error"
                                   ELSE IF "addrs" \in both THEN "ok" ELSE "nxdomain"

(* Whoever asked is called or gives up. *)
EventuallyAnswered == \A c \in Askers : ctx[c].state # "none" ~> ctx[c].state = "none"

(* Nodes, queues, waiters and the timer agree, in whatever order answers,   *)
(* timeouts and new questions come.                                         *)
ResolverSound == WaitersKnown /\ OneQueue /\ ResendArmed /\ (IPv6 => FamiliesAgree)


=============================================================================
