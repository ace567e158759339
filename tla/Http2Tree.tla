----------------------------- MODULE Http2Tree -----------------------------
(***************************************************************************)
(* The dependency tree of an HTTP/2 connection (http/v2/ngx_http_v2.c).    *)
(*                                                                         *)
(* Every stream the client opened, and every one it only named in a        *)
(* PRIORITY frame, has a node.  A node without a stream is on the queue    *)
(* "closed", from whose head it is taken for another stream once there are *)
(* MaxClosed of them.  A node is on the list of children of some node, or  *)
(* of the root, and points to its parent: the two are kept by hand, and a  *)
(* client may hang any node under any other, its own descendants included, *)
(* exclusively or not.  Weights are left out: with the rank they order the *)
(* output, they do not steer the tree.                                     *)
(***************************************************************************)
EXTENDS Integers, Sequences, FiniteSets, SequencesExt

CONSTANTS
  Sids,           \* odd stream identifiers the client may use
  MaxClosed,      \* 32
  MaxStreams,     \* h2scf->concurrent_streams
  CountRange      \* 2^8: the range of h2c->closed_nodes

VARIABLES
  node,     \* by identifier: the node found in streams_index, or Absent
  closed,   \* h2c->closed, oldest first
  count,    \* h2c->closed_nodes
  last      \* h2c->last_sid

vars == <<node, closed, count, last>>

Root == 0
None == -1

\* on: whose list of children the node's queue link is on
Absent == [in |-> FALSE, parent |-> None, on |-> None, rank |-> 0, stream |-> FALSE]

Init ==
  /\ node = [i \in Sids |-> Absent]
  /\ closed = <<>>
  /\ count = 0
  /\ last = 0

Streams == {i \in Sids : node[i].stream}
Without(q, i) == SelectSeq(q, LAMBDA j : j # i)
RankIn(T, p) == IF p = Root THEN 0 ELSE T[p].rank

(* How many lists lie between j and i when on(_) says whose list a node is  *)
(* on; 0 when j does not hang below i.                                      *)
Steps(on(_), i, j) ==
  LET up[k \in 0..Cardinality(Sids)] ==
        IF k = 0 THEN j ELSE IF up[k - 1] \in Sids THEN on(up[k - 1]) ELSE None
      met == {k \in 1..Cardinality(Sids) : up[k] = i}
  IN IF met = {} THEN 0 ELSE CHOOSE k \in met : \A l \in met : k <= l

(* ngx_http_v2_get_closed_node(): the node that was closed first is taken   *)
(* out of the tree, and its children go to its parent.                      *)
TakeClosed ==
  LET i == Head(closed)
      p == node[i].parent
      on(j) == node[j].on
      steps == [j \in Sids |-> Steps(on, i, j)]
  IN [j \in Sids |->
        IF j = i THEN Absent
        ELSE [node[j] EXCEPT !.parent = IF on(j) = i THEN p ELSE @,
                             !.on = IF @ = i THEN p ELSE @,
                             !.rank = IF steps[j] > 0 THEN RankIn(node, p) + steps[j] ELSE @]]

(* ngx_http_v2_get_node_by_id() for a node that is wanted. *)
GetNode(i) ==
  IF node[i].in THEN [tree |-> node, closed |-> closed, count |-> count]
  ELSE IF count < MaxClosed
  THEN [tree |-> [node EXCEPT ![i].in = TRUE], closed |-> closed, count |-> count]
  ELSE [tree |-> [TakeClosed EXCEPT ![i].in = TRUE], closed |-> Tail(closed),
        count |-> (count - 1) % CountRange]

(* The search up from the new parent p for the node i that is moved; it     *)
(* goes on while the rank says that i may still be met.                     *)
HangsBelow(T, p, i) ==
  LET up(j) == IF T[j].parent = Root \/ RankIn(T, T[j].parent) < T[i].rank THEN None
               ELSE T[j].parent
  IN T[i].parent # None /\ Steps(up, i, p) > 0

(* ngx_http_v2_set_dependency(): i is hung under p, exclusively or not.  A  *)
(* p that hangs below i takes i's place first.  The ranks below i, and, if  *)
(* it moved and keeps its children, below p, are set anew.                  *)
SetDependency(G, i, depend, exclusive) ==
  LET T == G.tree
      known == depend # 0 /\ T[depend].in
      p == IF known THEN depend ELSE Root
      excl == exclusive /\ (known \/ depend = 0)
      moves == known /\ HangsBelow(T, p, i)
      rankP == IF moves THEN RankIn(T, T[i].parent) + 1 ELSE RankIn(T, p)
      adopted(j) == excl /\ T[j].in /\ T[j].on = p
      on(j) == IF j = i THEN p
               ELSE IF moves /\ j = p THEN T[i].on
               ELSE IF adopted(j) THEN i ELSE T[j].on
      parent(j) == IF j = i THEN p
                   ELSE IF moves /\ j = p THEN T[i].parent
                   ELSE IF adopted(j) THEN i ELSE T[j].parent
      rank(j) == IF j = i THEN rankP + 1
                 ELSE IF Steps(on, i, j) > 0 THEN rankP + 1 + Steps(on, i, j)
                 ELSE IF moves /\ j = p THEN rankP
                 ELSE IF moves /\ ~excl /\ Steps(on, p, j) > 0 THEN rankP + Steps(on, p, j)
                 ELSE T[j].rank
  IN [G EXCEPT
        !.tree = [j \in Sids |-> IF ~T[j].in THEN T[j]
                    ELSE [T[j] EXCEPT !.parent = parent(j), !.on = on(j), !.rank = rank(j)]],
        !.closed = IF known /\ ~T[p].stream THEN Append(Without(@, p), p) ELSE @]

Becomes(G) == node' = G.tree /\ closed' = G.closed /\ count' = G.count

(* ngx_http_v2_state_headers(): a stream is opened.  Its node may exist     *)
(* already, when the client gave it a priority before.  A frame that names  *)
(* the stream as its own parent is answered with RST_STREAM.                *)
Open(i, priority, depend, excl) ==
  /\ i > last
  /\ last' = i
  /\ IF depend = i \/ Cardinality(Streams) >= MaxStreams
     THEN UNCHANGED <<node, closed, count>>
     ELSE LET G == GetNode(i)
              old == G.tree[i].parent # None
              H == [G EXCEPT !.tree[i].stream = TRUE,
                             !.closed = IF old THEN Without(@, i) ELSE @,
                             !.count = IF old THEN (@ - 1) % CountRange ELSE @]
          IN Becomes(IF priority \/ ~old THEN SetDependency(H, i, depend, excl) ELSE H)

(* ngx_http_v2_state_priority() *)
Priority(i, depend, excl) ==
  /\ depend # i
  /\ LET G == GetNode(i)
         fresh == G.tree[i].parent = None
         H == IF G.tree[i].stream THEN G
              ELSE [G EXCEPT !.closed = Append(Without(@, i), i),
                             !.count = IF fresh THEN (@ + 1) % CountRange ELSE @]
     IN Becomes(SetDependency(H, i, depend, excl))
  /\ UNCHANGED last

(* ngx_http_v2_close_stream(): the node stays in the tree. *)
Close(i) ==
  /\ node[i].stream
  /\ node' = [node EXCEPT ![i].stream = FALSE]
  /\ closed' = Append(closed, i)
  /\ count' = (count + 1) % CountRange
  /\ UNCHANGED last

Next ==
  \E i \in Sids :
    \/ \E d \in Sids \cup {0}, x \in BOOLEAN : Open(i, TRUE, d, x) \/ Priority(i, d, x)
    \/ Open(i, FALSE, 0, FALSE)
    \/ Close(i)

Spec == Init /\ [][Next]_vars

-----------------------------------------------------------------------------
(* The lists of children and the pointers to parents describe one tree:     *)
(* every node is found below the root, at the depth its rank says, on the   *)
(* list of the node it points to.  So the search of set_dependency, which   *)
(* stops at a smaller rank, misses no descendant, and no walk goes round in *)
(* a circle.                                                                *)
OneTree ==
  LET on(j) == node[j].on
  IN \A i \in Sids :
       IF node[i].in
       THEN node[i].on = node[i].parent /\ node[i].rank = Steps(on, Root, i)
       ELSE node[i] = Absent

(* The nodes that may be reused are the ones without a stream, each once,   *)
(* and they are counted: a node whose stream is alive is never taken from   *)
(* it, and never more than MaxClosed and the streams that were open at once *)
(* are kept.                                                                *)
ReuseExact ==
  /\ Len(closed) = count
  /\ \A i, j \in DOMAIN closed : closed[i] = closed[j] => i = j
  /\ Range(closed) = {i \in Sids : node[i].in /\ ~node[i].stream}
  /\ count <= MaxClosed + MaxStreams
=============================================================================
