----------------------------- MODULE LimitConn ------------------------------
(***************************************************************************)
(* limit_conn: how many connections of one key are being served             *)
(* (http/modules/ngx_http_limit_conn_module.c and its twin                  *)
(* stream/ngx_stream_limit_conn_module.c).                                  *)
(*                                                                          *)
(* The handler counts a request in one zone after the other, each under     *)
(* that zone's mutex, and leaves a cleanup in the request's pool that will  *)
(* take the count off; a zone's node is made by the first request with its  *)
(* key and freed by the last.  A stream session differs in that its key is  *)
(* the client's address, never empty, and that the handler runs only once.  *)
(*                                                                          *)
(* A node is a piece of the zone's memory, so a freed one may come back     *)
(* with another key.  A lock section is one action.                         *)
(***************************************************************************)
EXTENDS Integers, Sequences, FiniteSets, SequencesExt, FiniteSetsExt

CONSTANTS
  Workers,
  Clients,     \* requests and sessions
  Streams,     \* the clients that are stream sessions
  Zones,       \* the limits of a location, in order: 1..n
  Keys,
  Requests,    \* the keys a request may have: one or NoKey for each limit
  Limit,       \* by zone: limits[i].conn
  Memory,        \* the nodes a zone has memory for: 1..n
  MaxFaults    \* bound on the crashes and failed allocations

VARIABLES
  zone,     \* by zone and piece of memory: [key, conn], or Free
  client,   \* by client: what is known of it
  busy,     \* by worker: the client whose handler runs, or Nobody
  faults,
  lost      \* by zone and piece: counts nobody will take off

vars == <<zone, client, busy, faults, lost>>

Free == [key |-> "free", conn |-> 0]
NoKey == "none"
Nobody == "nobody"
NLimits == Cardinality(Zones)

ASSUME LimitConnAssumption ==
  /\ IsFiniteSet(Clients) /\ NLimits \in Nat /\ Zones = 1..NLimits /\ Memory \subseteq Nat
  /\ "free" \notin Keys /\ NoKey \notin Keys
  /\ Requests \subseteq [Zones -> Keys \cup {NoKey}]
  /\ Limit \in [Zones -> Nat \ {0}]
  /\ MaxFaults \in Nat

Other == [zone |-> 0, node |-> 0, key |-> NoKey]    \* a cleanup of another module
Gone == [pc |-> "gone", worker |-> Nobody, keys |-> [z \in Zones |-> NoKey], i |-> 0,
         node |-> 0, set |-> FALSE, cleanup |-> <<>>]

Init ==
  /\ zone = [z \in Zones |-> [n \in Memory |-> Free]]
  /\ client = [c \in Clients |-> Gone]
  /\ busy = [w \in Workers |-> Nobody]
  /\ faults = 0
  /\ lost = [z \in Zones |-> [n \in Memory |-> 0]]

(* The client's handler is the one its worker runs. *)
Runs(c, pc) == client[c].pc = pc /\ busy[client[c].worker] = c

NextLimit(i, keys) ==
  LET left == {z \in i..NLimits : keys[z] # NoKey}
  IN IF left = {} THEN NLimits + 1 ELSE Min(left)

(* The handler comes to limit i of the list or, past its end, declines and  *)
(* the client is served.                                                    *)
GoOn(C, i) == IF i > NLimits THEN [C EXCEPT !.pc = "served"]
              ELSE [C EXCEPT !.pc = "count", !.i = i, !.set = TRUE]

Handler(c, C) ==
  /\ client' = [client EXCEPT ![c] = C]
  /\ busy' = [busy EXCEPT ![C.worker] =
                IF C.pc \in {"count", "register", "unwind", "destroy"} THEN c ELSE Nobody]

-----------------------------------------------------------------------------
Start(c, w) ==
  /\ client[c].pc = "gone" /\ busy[w] = Nobody
  /\ \E keys \in (IF c \in Streams THEN {[z \in Zones |-> k] : k \in Keys} ELSE Requests) :
       Handler(c, GoOn([Gone EXCEPT !.worker = w, !.keys = keys], NextLimit(1, keys)))
  /\ UNCHANGED <<zone, faults, lost>>

(* An internal redirect brings the request to another location: it is       *)
(* counted there unless it was counted before.                              *)
Redirect(c) ==
  /\ client[c].pc = "served" /\ c \notin Streams /\ ~client[c].set
  /\ busy[client[c].worker] = Nobody
  /\ \E keys \in Requests :
       Handler(c, GoOn([client[c] EXCEPT !.keys = keys], NextLimit(1, keys)))
  /\ UNCHANGED <<zone, faults, lost>>

(* ngx_http_limit_conn_lookup() *)
Lookup(z, k) == {n \in Memory : zone[z][n].conn > 0 /\ zone[z][n].key = k}

Counted(c, z, n, conn) ==
  /\ zone' = [zone EXCEPT ![z][n] = [key |-> client[c].keys[z], conn |-> conn]]
  /\ Handler(c, [client[c] EXCEPT !.pc = "register", !.node = n])

Refused(c) == UNCHANGED zone /\ Handler(c, [client[c] EXCEPT !.pc = "unwind"])

(* The client is counted in a zone, or refused: its key has reached the     *)
(* limit or there is no memory for a node.                                  *)
Count(c) ==
  /\ Runs(c, "count")
  /\ LET z == client[c].i
         found == Lookup(z, client[c].keys[z])
         free == {n \in Memory : zone[z][n] = Free}
     IN \/ found = {} /\ free # {} /\ Counted(c, z, Min(free), 1)
        \/ found = {} /\ free = {} /\ Refused(c)
        \/ \E n \in found : IF zone[z][n].conn >= Limit[z] THEN Refused(c)
                            ELSE Counted(c, z, n, zone[z][n].conn + 1)
  /\ UNCHANGED <<faults, lost>>

(* The cleanup is added; the key of the next limit may add one of another   *)
(* module before the next of ours.                                          *)
Register(c) ==
  /\ Runs(c, "register")
  /\ LET C == client[c]
         own == [zone |-> C.i, node |-> C.node, key |-> C.keys[C.i]]
     IN \E more \in (IF c \in Streams THEN {<<>>} ELSE {<<>>, <<Other>>}) :
          Handler(c, GoOn([C EXCEPT !.cleanup = more \o (<<own>> \o @)],
                          NextLimit(C.i + 1, C.keys)))
  /\ UNCHANGED <<zone, faults, lost>>

(* There is no memory for the cleanup: the count stays for good. *)
RegisterFails(c) ==
  /\ Runs(c, "register") /\ faults < MaxFaults
  /\ faults' = faults + 1
  /\ lost' = [lost EXCEPT ![client[c].i][client[c].node] = @ + 1]
  /\ Handler(c, [client[c] EXCEPT !.pc = "refused"])
  /\ UNCHANGED zone

-----------------------------------------------------------------------------
(* ngx_http_limit_conn_cleanup() *)
Cleanup(cln) ==
  LET lc == zone[cln.zone][cln.node]
  IN zone' = [zone EXCEPT ![cln.zone][cln.node] =
                IF lc.conn = 1 THEN Free ELSE [lc EXCEPT !.conn = lc.conn - 1]]

(* Mutant: the cleanups that ran stay in the pool. *)
UnwindKeeps(c) ==
  /\ Runs(c, "unwind")
  /\ LET cleanup == client[c].cleanup
     IN IF cleanup # <<>> /\ Head(cleanup) # Other /\ zone[Head(cleanup).zone][Head(cleanup).node] # Free
        THEN /\ Cleanup(Head(cleanup))
             /\ Handler(c, [client[c] EXCEPT !.pc = "refused"])
        ELSE UNCHANGED zone /\ Handler(c, [client[c] EXCEPT !.pc = "refused"])
  /\ UNCHANGED <<faults, lost>>

(* ngx_http_limit_conn_cleanup_all(): the module's own cleanups at the head *)
(* of the pool's list run at once.                                          *)
Unwind(c) ==
  /\ Runs(c, "unwind")
  /\ LET cleanup == client[c].cleanup
     IN IF cleanup # <<>> /\ Head(cleanup) # Other
        THEN /\ Cleanup(Head(cleanup))
             /\ Handler(c, [client[c] EXCEPT !.cleanup = Tail(@)])
        ELSE UNCHANGED zone /\ Handler(c, [client[c] EXCEPT !.pc = "refused"])
  /\ UNCHANGED <<faults, lost>>

(* The client is done with: its pool is destroyed, cleanup by cleanup. *)
Close(c) ==
  /\ client[c].pc \in {"served", "refused"} /\ busy[client[c].worker] = Nobody
  /\ Handler(c, [client[c] EXCEPT !.pc = "destroy"])
  /\ UNCHANGED <<zone, faults, lost>>

DestroyPool(c) ==
  /\ Runs(c, "destroy")
  /\ LET cleanup == client[c].cleanup
     IN IF cleanup = <<>>
        THEN /\ client' = [client EXCEPT ![c] = Gone]
             /\ busy' = [busy EXCEPT ![client[c].worker] = Nobody]
             /\ UNCHANGED zone
        ELSE /\ IF Head(cleanup) = Other THEN UNCHANGED zone ELSE Cleanup(Head(cleanup))
             /\ Handler(c, [client[c] EXCEPT !.cleanup = Tail(@)])
  /\ UNCHANGED <<faults, lost>>

(* Client c is counted in node n of zone z. *)
Holds(c, z, n) ==
  \/ \E j \in DOMAIN client[c].cleanup :
       client[c].cleanup[j].zone = z /\ client[c].cleanup[j].node = n
  \/ client[c].pc = "register" /\ client[c].i = z /\ client[c].node = n

Holders(z, n) == {c \in Clients : Holds(c, z, n)}

(* A worker dies with its clients; what they counted stays. *)
Crash(w) ==
  /\ faults < MaxFaults
  /\ faults' = faults + 1
  /\ LET dead == {c \in Clients : client[c].worker = w}
     IN /\ lost' = [z \in Zones |-> [n \in Memory |->
                      lost[z][n] + Cardinality(Holders(z, n) \cap dead)]]
        /\ client' = [c \in Clients |-> IF c \in dead THEN Gone ELSE client[c]]
  /\ busy' = [busy EXCEPT ![w] = Nobody]
  /\ UNCHANGED zone

Next ==
  \/ \E c \in Clients :
       \/ \E w \in Workers : Start(c, w)
       \/ Redirect(c) \/ Count(c) \/ Register(c) \/ RegisterFails(c)
       \/ Unwind(c) \/ Close(c) \/ DestroyPool(c)
  \/ \E w \in Workers : Crash(w)

Spec == Init /\ [][Next]_vars

-----------------------------------------------------------------------------
Nodes == {Free} \cup [key : Keys, conn : Nat \ {0}]
Cleanups == {Other} \cup [zone : Zones, node : Memory, key : Keys]
ClientStates ==
  [pc : {"gone", "count", "register", "unwind", "refused", "served", "destroy"},
   worker : Workers \cup {Nobody}, keys : [Zones -> Keys \cup {NoKey}],
   i : Nat, node : Nat, set : BOOLEAN, cleanup : Seq(Cleanups)]

TypeOK ==
  /\ zone \in [Zones -> [Memory -> Nodes]]
  /\ client \in [Clients -> ClientStates]
  /\ busy \in [Workers -> Clients \cup {Nobody}]
  /\ faults \in Nat
  /\ lost \in [Zones -> [Memory -> Nat]]

(* A node counts exactly the clients that will take their count off, and    *)
(* the ones that died or failed before they could: no sequence of           *)
(* refusals, redirects and closings makes a key look busier or idler.       *)
CountExact ==
  \A z \in Zones, n \in Memory :
    zone[z][n].conn = lost[z][n] + Cardinality(Holders(z, n))

(* A cleanup still finds its own key at the memory it points to: a node is  *)
(* never freed, and its memory never given to another key, under a client.  *)
NodeKept ==
  \A c \in Clients : \A j \in DOMAIN client[c].cleanup :
    LET cln == client[c].cleanup[j]
    IN cln # Other => zone[cln.zone][cln.node].key = cln.key

(* No key is ever served more than the limit says, whichever workers        *)
(* counted: it has one node in a zone.                                      *)
LimitKept ==
  \A z \in Zones, k \in Keys :
    /\ \A n, m \in Lookup(z, k) : n = m
    /\ \A n \in Lookup(z, k) : zone[z][n].conn <= Limit[z]

(* No client is counted twice in a zone.                                    *)
CountedOnce ==
  \A c \in Clients : \A j \in DOMAIN client[c].cleanup :
    /\ \A m \in DOMAIN client[c].cleanup :
         client[c].cleanup[j].zone = client[c].cleanup[m].zone
           => client[c].cleanup[j] = Other \/ j = m
    /\ client[c].pc = "register" => client[c].cleanup[j].zone # client[c].i

(* A client that was refused counts nowhere, unless another module's        *)
(* cleanup kept the module from finding its own.                            *)
RefusedCountsNowhere ==
  faults = 0 => \A c \in Clients :
    client[c].pc = "refused" /\ Other \notin Range(client[c].cleanup)
      => client[c].cleanup = <<>>

(* The counts of limit_conn are those of the clients that are served. *)
CountsSound ==
  TypeOK /\ CountExact /\ NodeKept /\ LimitKept /\ CountedOnce /\ RefusedCountsNowhere

=============================================================================
