------------------------------ MODULE Upstream ------------------------------
(***************************************************************************)
(* Requests that a worker passes to upstream servers (http/                 *)
(* ngx_http_upstream.c with the round robin balancer, the keepalive cache   *)
(* and the proxy module's input filters): a server is chosen, a connection  *)
(* is taken from the cache or opened, the request is sent while the server  *)
(* may already answer, the response is passed on, and on an error the next  *)
(* server is tried.                                                         *)
(*                                                                          *)
(* Every function of the upstream module ends with a call of the next one,  *)
(* so at = [f, i, v] is the function the worker is about to run for request *)
(* i, with its argument.  The servers, the clients and the network are the  *)
(* environment.  An answer is a sequence of pieces, the header and then the *)
(* body; a piece remembers its exchange, the request and the attempt.       *)
(***************************************************************************)
EXTENDS Integers, Sequences, FiniteSets, Functions

CONSTANTS
  Requests,  \* 1..n
  Peers,     \* 1..m, the servers of the upstream block
  Conns,     \* the connection slots of the worker
  Mixes,     \* what is asked, functions from Requests to kinds: a body, an
             \* idempotent method, mode, unbuffered body, cacheable
  Answers,   \* what servers answer: status, body pieces, framing, close
  NextOn,    \* u->conf->next_upstream, a set of failure types
  CacheMax,  \* the keepalive directive
  Together,  \* how many requests run at the same time
  Blocks     \* how often a socket may be full

ASSUME UpstreamAssumption ==
  /\ Requests \subseteq Nat \ {0} /\ IsFiniteSet(Requests)
  /\ Peers \subseteq Nat \ {0} /\ IsFiniteSet(Peers)
  /\ Conns \subseteq Nat \ {0}
  /\ CacheMax \in Nat \ {0} /\ Blocks \in Nat
  /\ Mixes \subseteq
       [Requests -> [body : BOOLEAN, idempotent : BOOLEAN, mode : {"pipe", "direct", "memory"},
                     unbuffered : BOOLEAN, cacheable : BOOLEAN]]
  /\ Answers \subseteq [status : {"200", "404", "500", "bad"}, body : Nat,
                        framed : BOOLEAN, close : BOOLEAN]

VARIABLES
  u,        \* the requests, r->upstream
  conn,     \* the connections with what is in flight
  conns,    \* peer->conns
  cache,    \* the keepalive queue, the most recent first
  exiting,  \* ngx_exiting
  at,       \* what the worker runs
  got,      \* what each client (or in-memory subrequest) got
  full      \* how often a socket was full

vars == <<u, conn, conns, cache, exiting, at, got, full>>

None == 0
Nobody == [to |-> 0, x |-> 0]
Rest == [f |-> "rest", i |-> 0, v |-> "-"]
Run(f, i, v) == at' = [f |-> f, i |-> i, v |-> v]
Stop == at' = Rest
Idle == at = Rest
At(f) == at.f = f
I == at.i
V == at.v

\* the pieces of a request: its header and its body
Pieces(i) == IF u[i].kind.body THEN 2 ELSE 1

Unused ==
  [st |-> "closed", peer |-> None, srv |-> Nobody, rsp |-> <<>>, n |-> 0, need |-> 0,
   inq |-> <<>>, fin |-> FALSE, rnews |-> FALSE, wnews |-> FALSE, rready |-> FALSE,
   wready |-> FALSE, rtimer |-> FALSE, wtimer |-> FALSE, eof |-> FALSE,
   rtimedout |-> FALSE, wtimedout |-> FALSE]

NewUpstream(kind) ==
  [st |-> "new", kind |-> kind, peer |-> None, conn |-> None, cached |-> FALSE,
   tries |-> 0, tried |-> {}, x |-> 0, left |-> 0, reading |-> FALSE,
   request_sent |-> FALSE, body_sent |-> FALSE, header_sent |-> FALSE, keepalive |-> FALSE,
   length |-> -1, weh |-> "send", reh |-> "header", head |-> <<>>, busy |-> <<>>,
   error |-> FALSE, down |-> FALSE, wtimer |-> FALSE, served |-> {}, again |-> FALSE]

Init ==
  /\ \E k \in Mixes : u = [i \in Requests |-> NewUpstream(k[i])]
  /\ conn = [k \in Conns |-> Unused]
  /\ conns = [p \in Peers |-> 0]
  /\ cache = <<>> /\ exiting = FALSE /\ at = Rest /\ got = [i \in Requests |-> <<>>]
  /\ full = 0

C == u[I].conn
Closed(cs, k) == [cs EXCEPT ![k] = Unused]

-----------------------------------------------------------------------------
(* The balancer (module Balancer has its weights and failures): any peer    *)
(* that was not tried yet, or none when the others failed lately.           *)

Single == Peers = {1}
PeersFor(i) == IF Single THEN Peers ELSE Peers \ u[i].tried

(* peer->conns in ngx_http_upstream_get_round_robin_peer() *)
Taken(p) == [conns EXCEPT ![p] = @ + 1]

(* ... and in ngx_http_upstream_free_round_robin_peer() *)
Freed(p, failed) == [conns EXCEPT ![p] = @ - 1]

TriesLeft(i) == IF Single THEN 0 ELSE IF u[i].tries > 0 THEN u[i].tries - 1 ELSE 0

-----------------------------------------------------------------------------
(* The keepalive cache. *)

\* ngx_queue_remove()
Remove(s, j) == SubSeq(s, 1, j - 1) \o SubSeq(s, j + 1, Len(s))
Without(ca, k) == LET j == CHOOSE j \in 1..Len(ca) : ca[j] = k IN Remove(ca, j)

(* ngx_http_upstream_keepalive_close_handler(): the server closed the idle  *)
(* connection, or sent what nobody asked for                                *)
CloseHandler(cs, ca, k) ==
  IF cs[k].inq = <<>> /\ ~cs[k].fin
  THEN [conn |-> [cs EXCEPT ![k].rready = FALSE], cache |-> ca]
  ELSE [conn |-> Closed(cs, k), cache |-> Without(ca, k)]

(* Mutant: whether the request was sent to its end is not looked at. *)
KeepableUnsent(i, failed) ==
  LET k == u[i].conn IN
  /\ ~failed /\ k # None
  /\ ~conn[k].eof /\ ~conn[k].rtimedout /\ ~conn[k].wtimedout
  /\ u[i].keepalive /\ ~exiting

(* the tests of ngx_http_upstream_free_keepalive_peer() *)
Keepable(i, failed) ==
  LET k == u[i].conn IN
  /\ ~failed /\ k # None
  /\ ~conn[k].eof /\ ~conn[k].rtimedout /\ ~conn[k].wtimedout
  /\ u[i].keepalive /\ u[i].body_sent /\ ~exiting

(* ... and the queue: the connection of the last item is closed when no     *)
(* item is free                                                             *)
Kept(k) ==
  LET evict == Len(cache) = CacheMax
      last == Len(cache)
      ca == <<k>> \o (IF evict THEN SubSeq(cache, 1, last - 1) ELSE cache)
      cs == [(IF evict THEN Closed(conn, cache[last]) ELSE conn)
               EXCEPT ![k].rtimer = FALSE, ![k].wtimer = FALSE]
  IN IF conn[k].rready THEN CloseHandler(cs, ca, k) ELSE [conn |-> cs, cache |-> ca]

(* u->peer.free() and, when the connection is not kept, its end *)
FreePeer(i, failed) ==
  LET keep == u[i].peer # None /\ Keepable(i, failed)
      k == u[i].conn
      kept == IF keep THEN Kept(k)
              ELSE [conn |-> IF k = None THEN conn ELSE Closed(conn, k), cache |-> cache]
  IN /\ conn' = kept.conn /\ cache' = kept.cache
     /\ conns' = IF u[i].peer = None THEN conns ELSE Freed(u[i].peer, failed)

-----------------------------------------------------------------------------
(* ngx_http_upstream_init_request() *)
InitRequest(i) ==
  /\ Idle /\ u[i].st = "new" /\ Cardinality({j \in Requests : u[j].st = "running"}) < Together
  /\ \A j \in Requests : j < i => u[j].st # "new"
  /\ u' = [u EXCEPT ![i].st = "running", ![i].tries = IF Single THEN 1 ELSE Cardinality(Peers),
                    ![i].reading = u[i].kind.body /\ u[i].kind.unbuffered]
  /\ Run("connect", i, "-")
  /\ UNCHANGED <<conn, conns, cache, exiting, got, full>>

(* ngx_http_upstream_connect(), and ngx_http_upstream_reinit() when the     *)
(* request was sent before; k is the connection                             *)
Connected(i, p, k, cached) ==
  LET again == u[i].request_sent IN
  u' = [u EXCEPT ![i] =
         [u[i] EXCEPT !.peer = p, !.conn = k, !.cached = cached, !.tried = u[i].tried \cup {p},
                      !.x = u[i].x + 1, !.left = Pieces(i),
                      !.keepalive = IF again THEN FALSE ELSE u[i].keepalive,
                      !.head = IF again THEN <<>> ELSE u[i].head,
                      !.request_sent = FALSE, !.body_sent = FALSE,
                      !.weh = "send", !.reh = "header"]]

(* ... no peer is left *)
ConnectBusy ==
  /\ At("connect") /\ ~Single
  /\ u' = [u EXCEPT ![I].cached = FALSE, ![I].conn = None]
  /\ Run("next", I, "NOLIVE")
  /\ UNCHANGED <<conn, conns, cache, exiting, got, full>>

OfPeer(p) == {j \in 1..Len(cache) : conn[cache[j]].peer = p}

(* ... a cached connection to the peer, the most recent one:                *)
(* ngx_http_upstream_get_keepalive_peer()                                   *)
ConnectCached ==
  /\ At("connect")
  /\ \E p \in PeersFor(I) : \E j \in OfPeer(p) :
       /\ \A m \in OfPeer(p) : j <= m
       /\ Connected(I, p, cache[j], TRUE)
       /\ cache' = Remove(cache, j) /\ conns' = Taken(p)
  /\ Run("send", I, "write")
  /\ UNCHANGED <<conn, exiting, got, full>>

(* ... a new one: ngx_event_connect_peer() *)
ConnectNew ==
  /\ At("connect")
  /\ \E p \in PeersFor(I), k \in Conns :
       /\ OfPeer(p) = {} /\ conn[k].st = "closed" /\ \A j \in Conns : conn[j].st = "closed" => k <= j
       /\ conns' = Taken(p)
       /\ \/ /\ Connected(I, p, k, FALSE)
             /\ conn' = [conn EXCEPT ![k] = [Unused EXCEPT !.st = "connecting", !.peer = p, !.wtimer = TRUE]]
             /\ Stop
          \/ /\ Connected(I, p, k, FALSE)
             /\ conn' = [conn EXCEPT ![k] = [Unused EXCEPT !.st = "open", !.peer = p, !.wready = TRUE]]
             /\ Run("send", I, "write")
          \/ /\ u' = [u EXCEPT ![I].peer = p, ![I].conn = None, ![I].cached = FALSE,
                               ![I].tried = @ \cup {p}]
             /\ Run("next", I, "ERROR") /\ UNCHANGED conn
  /\ UNCHANGED <<cache, exiting, got, full>>

(* ... and when there is no descriptor or no connection left *)
ConnectFails ==
  /\ At("connect")
  /\ \E p \in PeersFor(I) :
       /\ OfPeer(p) = {} /\ conns' = Taken(p)
       /\ u' = [u EXCEPT ![I].peer = p, ![I].conn = None, ![I].cached = FALSE, ![I].tried = @ \cup {p}]
  /\ Run("finalize", I, "500")
  /\ UNCHANGED <<conn, cache, exiting, got, full>>

-----------------------------------------------------------------------------
(* What a server does with n more pieces of request i: they are the rest of *)
(* the request it reads, or the beginning of a new one.                     *)
Deliver(c, i, n) ==
  IF c.fin \/ n = 0 THEN c
  ELSE IF c.need > 0 THEN [c EXCEPT !.need = @ - n]
  ELSE [c EXCEPT !.srv = [to |-> i, x |-> u[i].x], !.need = Pieces(i) - n, !.rsp = <<>>, !.n = 0]

\* the pieces that can be sent: those of the body are still to come while it is read
Sendable(i) == IF u[i].reading THEN u[i].left - 1 ELSE u[i].left

Sent(n) ==
  /\ u' = [u EXCEPT ![I].request_sent = TRUE, ![I].left = @ - n,
                    ![I].served = IF n > 0 /\ ~conn[C].fin THEN @ \cup {u[I].x} ELSE @]

(* ngx_http_upstream_test_connect() *)
NotConnected(i) == ~u[i].request_sent /\ conn[u[i].conn].st = "refused"

(* ngx_http_upstream_send_request(): the connection failed, or the write *)
SendError ==
  /\ At("send") /\ (NotConnected(I) \/ conn[C].fin)
  /\ u' = [u EXCEPT ![I].request_sent = @ \/ ~NotConnected(I)]
  /\ Run("next", I, "ERROR")
  /\ UNCHANGED <<conn, conns, cache, exiting, got, full>>

(* Mutant: the write is not watched. *)
SendPartUntimed ==
  /\ At("send") /\ ~NotConnected(I) /\ Sendable(I) > 0
  /\ \E n \in 0..(Sendable(I) - 1) :
       /\ conn[C].wready \/ n = 0
       /\ Sent(n)
       /\ conn' = [conn EXCEPT ![C] = [Deliver(@, I, n) EXCEPT !.wready = FALSE]]
  /\ conn[C].wready => full < Blocks
  /\ full' = IF conn[C].wready THEN full + 1 ELSE full
  /\ Stop
  /\ UNCHANGED <<conns, cache, exiting, got>>

(* ... ngx_http_upstream_send_request_body() sends a part *)
SendPart ==
  /\ At("send") /\ ~NotConnected(I) /\ Sendable(I) > 0
  /\ \E n \in 0..(Sendable(I) - 1) :
       /\ conn[C].wready \/ n = 0
       /\ Sent(n)
       /\ conn' = [conn EXCEPT ![C] = [Deliver(@, I, n) EXCEPT !.wready = FALSE, !.wtimer = TRUE]]
  /\ conn[C].wready => full < Blocks
  /\ full' = IF conn[C].wready THEN full + 1 ELSE full
  /\ Stop
  /\ UNCHANGED <<conns, cache, exiting, got>>

(* ... or all there is, and waits for the client's body *)
SendWaits ==
  /\ At("send") /\ ~NotConnected(I) /\ u[I].reading
  /\ conn[C].wready \/ Sendable(I) = 0
  /\ Sent(Sendable(I))
  /\ conn' = [conn EXCEPT ![C] = [Deliver(@, I, Sendable(I))
                                    EXCEPT !.wtimer = IF conn[C].wready THEN FALSE ELSE TRUE]]
  /\ Stop
  /\ UNCHANGED <<conns, cache, exiting, got, full>>

(* ... or the rest of the request: now the answer is awaited *)
SendDone ==
  /\ At("send") /\ ~NotConnected(I) /\ ~u[I].reading
  /\ conn[C].wready \/ u[I].left = 0
  /\ u' = [u EXCEPT ![I].request_sent = TRUE, ![I].left = 0, ![I].body_sent = TRUE,
                    ![I].weh = "dummy",
                    ![I].served = IF ~conn[C].fin THEN @ \cup {u[I].x} ELSE @]
  /\ conn' = [conn EXCEPT ![C] = [Deliver(@, I, u[I].left) EXCEPT !.wtimer = FALSE, !.rtimer = TRUE]]
  /\ IF conn[C].rready THEN Run("header", I, "-") ELSE Stop
  /\ UNCHANGED <<conns, cache, exiting, got, full>>

(* ngx_http_upstream_send_request_handler() *)
SendHandler ==
  /\ At("sendhandler")
  /\ \/ /\ conn[C].wtimedout /\ Run("next", I, "TIMEOUT") /\ UNCHANGED u
     \/ /\ ~conn[C].wtimedout /\ u[I].header_sent
        /\ u' = [u EXCEPT ![I].weh = "dummy"] /\ Stop
     \/ /\ ~conn[C].wtimedout /\ ~u[I].header_sent
        /\ Run("send", I, "write") /\ UNCHANGED u
  /\ UNCHANGED <<conn, conns, cache, exiting, got, full>>

-----------------------------------------------------------------------------
(* c->recv() and ngx_http_upstream_process_header(), which reads the header *)
(* with what came after it.                                                 *)

HeaderFails ==
  /\ At("header")
  /\ \/ /\ conn[C].rtimedout /\ Run("next", I, "TIMEOUT") /\ UNCHANGED conn
     \/ /\ ~conn[C].rtimedout /\ NotConnected(I) /\ Run("next", I, "ERROR") /\ UNCHANGED conn
     \/ /\ ~conn[C].rtimedout /\ ~NotConnected(I) /\ conn[C].inq = <<>> /\ conn[C].fin
        /\ conn' = [conn EXCEPT ![C].eof = TRUE, ![C].rready = FALSE]
        /\ Run("next", I, "ERROR")
  /\ UNCHANGED <<u, conns, cache, exiting, got, full>>

HeaderAgain ==
  /\ At("header") /\ ~conn[C].rtimedout /\ ~NotConnected(I)
  /\ conn[C].inq = <<>> /\ ~conn[C].fin
  /\ conn' = [conn EXCEPT ![C].rready = FALSE] /\ Stop
  /\ UNCHANGED <<u, conns, cache, exiting, got, full>>

\* ngx_http_upstream_next_errors and the status the client gets for a failure
Failure(status) == "HTTP_" \o status
StatusOf(ft) == CASE ft = "TIMEOUT" -> "504" [] ft = "HTTP_500" -> "500"
                  [] ft = "HTTP_404" -> "404" [] OTHER -> "502"

(* ngx_http_upstream_test_next() *)
TestNext(i, rsp) ==
  rsp.status \in {"404", "500"} /\ u[i].tries > 1 /\ Failure(rsp.status) \in NextOn

ProcessHeader ==
  /\ At("header") /\ ~conn[C].rtimedout /\ ~NotConnected(I) /\ conn[C].inq # <<>>
  /\ conn' = [conn EXCEPT ![C].inq = <<>>]
  /\ LET rsp == Head(conn[C].inq).rsp IN
     /\ u' = [u EXCEPT ![I].head = conn[C].inq,
                       ![I].length = IF rsp.framed THEN rsp.body ELSE -1]
     /\ IF rsp.status = "bad" \/ Head(conn[C].inq).n # 0 THEN Run("next", I, "INVALID_HEADER")
        ELSE IF TestNext(I, rsp) THEN Run("next", I, Failure(rsp.status))
        ELSE Run("respond", I, "-")
  /\ UNCHANGED <<conns, cache, exiting, got, full>>

(* ngx_http_proxy_input_filter_init(): a response without a body is at its  *)
(* end                                                                      *)
FilterInit(w, rsp) ==
  [w EXCEPT !.keepalive = IF rsp.framed /\ rsp.body = 0 THEN ~rsp.close ELSE @]

\* u->headers_in.connection_close, which is cleared for another attempt
ClosesAfter(w) == w.head # <<>> /\ w.head[1].rsp.close

(* ngx_http_proxy_copy_filter(), ngx_http_proxy_non_buffered_copy_filter(): *)
(* n more pieces of the body, and at its end the connection may be kept     *)
InputFilter(w, n) ==
  IF n = 0 \/ w.length = -1 THEN w
  ELSE [w EXCEPT !.length = @ - n,
                 !.keepalive = IF w.length = n THEN ~ClosesAfter(w) ELSE @]

(* ngx_http_upstream_send_response() and, for a subrequest in memory, the   *)
(* end of ngx_http_upstream_process_header(): the header goes to the client *)
(* once, the body that came with it to the filter                           *)
RespondFails ==
  /\ At("respond") /\ u[I].kind.mode # "memory" /\ (u[I].error \/ u[I].header_sent)
  /\ Run("finalize", I, "ERROR")
  /\ UNCHANGED <<u, conn, conns, cache, exiting, got, full>>

Responding == At("respond") /\ ~u[I].error /\ ~u[I].header_sent
Began(i, mode) ==
  LET body == Tail(u[i].head) IN
  [InputFilter(FilterInit(u[i], u[i].head[1].rsp), Len(body))
     EXCEPT !.header_sent = mode # "memory", !.reh = mode]

SendResponsePipe ==
  /\ Responding /\ u[I].kind.mode = "pipe"
  /\ u' = [u EXCEPT ![I] = Began(I, "pipe")]
  /\ got' = [got EXCEPT ![I] = u[I].head]
  /\ Run("pipe", I, "-")
  /\ UNCHANGED <<conn, conns, cache, exiting, full>>

SendResponseDirect ==
  /\ Responding /\ u[I].kind.mode = "direct"
  /\ u' = [u EXCEPT ![I] = [Began(I, "direct") EXCEPT !.busy = Tail(u[I].head)]]
  /\ got' = [got EXCEPT ![I] = <<Head(u[I].head)>>]
  /\ IF Tail(u[I].head) # <<>> THEN Run("direct", I, "write")
     ELSE IF u'[I].length = 0 THEN Run("direct", I, "write")
     ELSE IF conn[C].rready THEN Run("direct", I, "read") ELSE Stop
  /\ UNCHANGED <<conn, conns, cache, exiting, full>>

RespondInMemory ==
  /\ At("respond") /\ u[I].kind.mode = "memory"
  /\ u' = [u EXCEPT ![I] = Began(I, "memory")]
  /\ got' = [got EXCEPT ![I] = u[I].head]
  /\ IF u'[I].length = 0 THEN Run("finalize", I, "0") ELSE Run("memory", I, "-")
  /\ UNCHANGED <<conn, conns, cache, exiting, full>>

-----------------------------------------------------------------------------
(* The response in a pipe.  ngx_event_pipe() is abstracted to what it tells *)
(* the upstream module: it reads what there is, and what it read goes to    *)
(* the client or, when that fails, nowhere.                                 *)

\* what one call reads of request i, and the end it sees
Readable(i) == IF conn[u[i].conn].rready /\ u[i].length # 0 THEN conn[u[i].conn].inq ELSE <<>>
SeesEof(i, w) == conn[u[i].conn].rready /\ conn[u[i].conn].fin /\ (w.length > 0 \/ w.length = -1)

(* ngx_http_upstream_process_upstream(): a timeout is an upstream error *)
PipeTimeout ==
  /\ At("pipe") /\ conn[C].rtimedout
  /\ Run("finalize", I, "502")
  /\ UNCHANGED <<u, conn, conns, cache, exiting, got, full>>

(* Mutant: the end of a response with a length is taken for its end. *)
ProcessRequestTruncates(w, eof) ==
  IF w.length = 0 \/ w.length < -1 \/ eof THEN "0" ELSE IF w.down /\ ~w.kind.cacheable THEN "ERROR" ELSE "-"

(* ngx_http_upstream_process_request(): the end of the request, or none *)
ProcessRequest(w, eof) ==
  IF w.length = 0 \/ w.length < -1 \/ (eof /\ w.length = -1) THEN "0"
  ELSE IF eof THEN "502"
  ELSE IF w.down /\ ~w.kind.cacheable THEN "ERROR"
  ELSE "-"

ProcessUpstream ==
  /\ At("pipe") /\ ~conn[C].rtimedout
  /\ LET new == Readable(I)
         w == [InputFilter(u[I], Len(new)) EXCEPT !.down = @ \/ u[I].error]
         eof == SeesEof(I, w)
         end == ProcessRequest(w, eof)
     IN /\ u' = [u EXCEPT ![I] = w]
        /\ got' = IF w.down THEN got ELSE [got EXCEPT ![I] = @ \o new]
        /\ conn' = [conn EXCEPT ![C].inq = IF new = <<>> THEN @ ELSE <<>>,
                                ![C].rready = IF w.length = 0 THEN @ ELSE FALSE,
                                ![C].eof = eof, ![C].rtimer = TRUE]
        /\ IF end = "-" THEN Stop ELSE Run("finalize", I, end)
  /\ UNCHANGED <<conns, cache, exiting, full>>

-----------------------------------------------------------------------------
(* The response without a pipe: one buffer, read when it was sent on.       *)
(* ngx_http_upstream_process_non_buffered_request() writes ...              *)
DirectTimeout ==
  /\ At("direct") /\ V = "read" /\ conn[C].rtimedout
  /\ Run("finalize", I, "504")
  /\ UNCHANGED <<u, conn, conns, cache, exiting, got, full>>

DirectEnd(w, k) ==
  IF w.length = 0 \/ (conn[k].eof /\ w.length = -1) THEN "0"
  ELSE IF conn[k].eof THEN "502" ELSE "-"

DirectWrites ==
  /\ At("direct") /\ V = "write"
  /\ \/ /\ u[I].busy # <<>> /\ u[I].error
        /\ Run("finalize", I, "ERROR") /\ UNCHANGED <<u, got, full>>
     \/ /\ u[I].busy # <<>> /\ ~u[I].error /\ full < Blocks
        /\ u' = [u EXCEPT ![I].wtimer = TRUE] /\ full' = full + 1
        /\ Run("direct", I, "fill") /\ UNCHANGED got
     \/ /\ u[I].busy = <<>> \/ ~u[I].error
        /\ u' = [u EXCEPT ![I].busy = <<>>, ![I].wtimer = FALSE]
        /\ got' = [got EXCEPT ![I] = @ \o u[I].busy]
        /\ LET end == DirectEnd(u[I], C) IN
           IF end = "-" THEN Run("direct", I, "fill") ELSE Run("finalize", I, end)
        /\ UNCHANGED full
  /\ UNCHANGED <<conn, conns, cache, exiting>>

(* ... and reads; with nothing to read or no room the timers are set *)
DirectReads ==
  /\ At("direct") /\ V \in {"read", "fill"} /\ (V = "read" => ~conn[C].rtimedout)
  /\ IF V = "read" /\ u[I].length = 0
     THEN Run("direct", I, "write") /\ UNCHANGED <<u, conn>>
     ELSE IF u[I].busy # <<>> \/ ~conn[C].rready
     THEN /\ conn' = [conn EXCEPT ![C].rtimer = ~conn[C].rready] /\ Stop /\ UNCHANGED u
     ELSE IF conn[C].inq = <<>> /\ ~conn[C].fin
     THEN /\ conn' = [conn EXCEPT ![C].rready = FALSE, ![C].rtimer = TRUE] /\ Stop /\ UNCHANGED u
     ELSE /\ u' = [u EXCEPT ![I] = [InputFilter(u[I], Len(conn[C].inq)) EXCEPT !.busy = conn[C].inq]]
          /\ conn' = [conn EXCEPT ![C].inq = <<>>,
                                  ![C].rready = IF conn[C].inq = <<>> THEN FALSE ELSE @,
                                  ![C].eof = conn[C].inq = <<>>]
          /\ Run("direct", I, "write")
  /\ UNCHANGED <<conns, cache, exiting, got, full>>

(* ngx_http_upstream_process_body_in_memory() *)
BodyInMemory ==
  /\ At("memory")
  /\ IF conn[C].rtimedout THEN Run("finalize", I, "504") /\ UNCHANGED <<u, conn, got>>
     ELSE IF conn[C].inq # <<>>
     THEN /\ u' = [u EXCEPT ![I] = InputFilter(u[I], Len(conn[C].inq))]
          /\ got' = [got EXCEPT ![I] = @ \o conn[C].inq]
          /\ conn' = [conn EXCEPT ![C].inq = <<>>]
          /\ Run("memory", I, "-")
     ELSE IF conn[C].fin
     THEN /\ conn' = [conn EXCEPT ![C].eof = TRUE, ![C].rready = FALSE]
          /\ Run("finalize", I, "0") /\ UNCHANGED <<u, got>>
     ELSE /\ conn' = [conn EXCEPT ![C].rready = FALSE, ![C].rtimer = u[I].length # 0]
          /\ IF u[I].length = 0 THEN Run("finalize", I, "0") ELSE Stop
          /\ UNCHANGED <<u, got>>
  /\ UNCHANGED <<conns, cache, exiting, full>>

-----------------------------------------------------------------------------
(* ngx_http_upstream_next() *)

(* Mutant: the method is not looked at. *)
FailureSetAny(i, ft) == {ft}

\* the failure with what makes a retry dangerous
FailureSet(i, ft) ==
  {ft} \cup (IF u[i].request_sent /\ ~u[i].kind.idempotent THEN {"NON_IDEMPOTENT"} ELSE {})

TriesAfter(i, ft) ==
  (IF u[i].peer = None THEN u[i].tries ELSE TriesLeft(i))
    + (IF u[i].cached /\ ft = "ERROR" THEN 1 ELSE 0)

GivesUp(i, ft) ==
  \/ TriesAfter(i, ft) = 0
  \/ ~(FailureSet(i, ft) \subseteq NextOn)
  \/ u[i].request_sent /\ u[i].kind.unbuffered /\ u[i].kind.body

NextUpstream ==
  /\ At("next")
  /\ FreePeer(I, V # "HTTP_404")
  /\ u' = [u EXCEPT ![I].tries = TriesAfter(I, V), ![I].peer = None, ![I].conn = None,
                    ![I].again = @ \/ u[I].header_sent]
  /\ IF u[I].error THEN Run("finalize", I, "499")
     ELSE IF GivesUp(I, V) THEN Run("finalize", I, StatusOf(V))
     ELSE Run("connect", I, "-")
  /\ UNCHANGED <<exiting, got, full>>

(* ngx_http_upstream_finalize_request(): nothing of the request remains *)
FinalizeRequest ==
  /\ At("finalize")
  /\ FreePeer(I, FALSE)
  /\ u' = [u EXCEPT ![I] = [NewUpstream(u[I].kind) EXCEPT !.st = "done", !.again = u[I].again]]
  /\ got' = [got EXCEPT ![I] = <<>>]
  /\ Stop
  /\ UNCHANGED <<exiting, full>>

-----------------------------------------------------------------------------
(* Events: ngx_http_upstream_handler() and the handlers of an idle          *)
(* connection.                                                              *)
Owner(k) == {i \in Requests : u[i].conn = k}
InCache(k) == k \in Range(cache)

ReadHandler(k) ==
  IF InCache(k)
  THEN /\ LET after == CloseHandler([conn EXCEPT ![k].rready = TRUE, ![k].rnews = FALSE], cache, k) IN
          conn' = after.conn /\ cache' = after.cache
       /\ Stop /\ UNCHANGED <<u, conns, exiting, got, full>>
  ELSE /\ \E i \in Owner(k) :
            IF u[i].reh = "direct" THEN Run("direct", i, "read") ELSE Run(u[i].reh, i, "-")
       /\ UNCHANGED <<u, conns, cache, exiting, got, full>>

ReadEvent(k) ==
  /\ Idle /\ conn[k].rnews /\ conn[k].st # "closed"
  /\ IF InCache(k) THEN TRUE ELSE conn' = [conn EXCEPT ![k].rready = TRUE, ![k].rnews = FALSE]
  /\ ReadHandler(k)

ReadTimeout(k) ==
  /\ Idle /\ conn[k].rtimer /\ ~InCache(k)
  /\ conn' = [conn EXCEPT ![k].rtimer = FALSE, ![k].rtimedout = TRUE]
  /\ ReadHandler(k)

WriteHandler(k) ==
  /\ IF InCache(k) \/ \A i \in Owner(k) : u[i].weh = "dummy" THEN Stop
     ELSE \E i \in Owner(k) : Run("sendhandler", i, "-")
  /\ UNCHANGED <<u, conns, cache, exiting, got, full>>

WriteEvent(k) ==
  /\ Idle /\ conn[k].wnews /\ conn[k].st # "closed"
  /\ conn' = [conn EXCEPT ![k].wready = TRUE, ![k].wnews = FALSE]
  /\ WriteHandler(k)

WriteTimeout(k) ==
  /\ Idle /\ conn[k].wtimer
  /\ conn' = [conn EXCEPT ![k].wtimer = FALSE, ![k].wtimedout = TRUE]
  /\ WriteHandler(k)

(* The client's socket is writable again, or its timer expires:             *)
(* ngx_http_upstream_process_non_buffered_downstream()                      *)
ClientWritable(i) ==
  /\ Idle /\ u[i].st = "running" /\ u[i].wtimer
  /\ \/ Run("direct", i, "write")
     \/ Run("finalize", i, "408")
  /\ UNCHANGED <<u, conn, conns, cache, exiting, got, full>>

(* The client leaves: ngx_http_upstream_check_broken_connection() *)
ClientLeaves(i) ==
  /\ Idle /\ u[i].st = "running" /\ ~u[i].error /\ ~u[i].reading
  /\ u' = [u EXCEPT ![i].error = TRUE]
  /\ IF ~u[i].kind.cacheable \/ u[i].conn = None THEN Run("finalize", i, "499") ELSE Stop
  /\ UNCHANGED <<conn, conns, cache, exiting, got, full>>

(* The rest of the client's body arrives, the client leaves before, or the  *)
(* timer of the body expires: ngx_http_upstream_read_request_handler()      *)
ReadRequest(i) ==
  /\ Idle /\ u[i].st = "running" /\ u[i].reading /\ u[i].request_sent
  /\ \/ u' = [u EXCEPT ![i].reading = FALSE] /\ Run("send", i, "read")
     \/ u' = [u EXCEPT ![i].error = TRUE] /\ Run("finalize", i, "400")
     \/ UNCHANGED u /\ Run("finalize", i, "408")
  /\ UNCHANGED <<conn, conns, cache, exiting, got, full>>

(* The worker is told to leave: ngx_close_idle_connections() *)
Exiting ==
  /\ Idle /\ ~exiting
  /\ exiting' = TRUE /\ cache' = <<>>
  /\ conn' = [k \in Conns |-> IF InCache(k) THEN Unused ELSE conn[k]]
  /\ UNCHANGED <<u, conns, at, got, full>>

-----------------------------------------------------------------------------
(* The servers and the network.  What they do while the worker runs is seen *)
(* as if it came after, when the worker rests.                              *)
Accepts(k) ==
  /\ Idle /\ conn[k].st = "connecting"
  /\ \E s \in {"open", "refused"} :
       conn' = [conn EXCEPT ![k].st = s, ![k].wnews = TRUE, ![k].rnews = s = "refused"]
  /\ UNCHANGED <<u, conns, cache, exiting, at, got, full>>

Room(k) ==
  /\ Idle /\ conn[k].st = "open" /\ ~conn[k].wready /\ ~conn[k].wnews
  /\ conn' = [conn EXCEPT ![k].wnews = TRUE]
  /\ UNCHANGED <<u, conns, cache, exiting, at, got, full>>

\* the next piece of the answer; a server may answer before it read the body
Answer(k) ==
  /\ Idle /\ conn[k].st = "open" /\ ~conn[k].fin /\ conn[k].srv # Nobody
  /\ \E a \in Answers :
       /\ conn[k].rsp \in {<<>>, <<a>>} /\ conn[k].n <= a.body
       /\ conn' = [conn EXCEPT
            ![k].rsp = <<a>>, ![k].n = @ + 1, ![k].rnews = TRUE,
            ![k].inq = Append(@, [to |-> conn[k].srv.to, x |-> conn[k].srv.x,
                                  n |-> conn[k].n, rsp |-> a])]
  /\ UNCHANGED <<u, conns, cache, exiting, at, got, full>>

\* the beginning of a header, which is not parsed yet
AnswerPart(k) ==
  /\ Idle /\ conn[k].st = "open" /\ ~conn[k].fin /\ conn[k].srv # Nobody
  /\ conn[k].rsp = <<>> /\ ~conn[k].rnews
  /\ conn' = [conn EXCEPT ![k].rnews = TRUE]
  /\ UNCHANGED <<u, conns, cache, exiting, at, got, full>>

ServerCloses(k) ==
  /\ Idle /\ conn[k].st = "open" /\ ~conn[k].fin
  /\ conn' = [conn EXCEPT ![k].fin = TRUE, ![k].rnews = TRUE]
  /\ UNCHANGED <<u, conns, cache, exiting, at, got, full>>

-----------------------------------------------------------------------------
Worker ==
  \/ ConnectBusy \/ ConnectCached \/ ConnectNew \/ ConnectFails
  \/ SendError \/ SendPart \/ SendWaits \/ SendDone \/ SendHandler
  \/ HeaderFails \/ HeaderAgain \/ ProcessHeader
  \/ RespondFails \/ SendResponsePipe \/ SendResponseDirect \/ RespondInMemory
  \/ PipeTimeout \/ ProcessUpstream \/ DirectTimeout \/ DirectWrites \/ DirectReads
  \/ BodyInMemory \/ NextUpstream \/ FinalizeRequest

Timers(k) == ReadTimeout(k) \/ WriteTimeout(k)
ClientOf(i) == ClientWritable(i) \/ ReadRequest(i)

Next ==
  \/ Worker
  \/ \E i \in Requests : InitRequest(i) \/ ClientOf(i) \/ ClientLeaves(i)
  \/ \E k \in Conns : ReadEvent(k) \/ WriteEvent(k) \/ Timers(k)
                      \/ Accepts(k) \/ Room(k) \/ Answer(k) \/ AnswerPart(k) \/ ServerCloses(k)
  \/ Exiting

(* The worker runs what it was called for; timers expire; the client's      *)
(* socket has a timer of its own in every state in which it is waited for.  *)
Spec ==
  /\ Init /\ [][Next]_vars
  /\ WF_vars(Worker)
  /\ SF_vars(\E k \in Conns : Timers(k))
  /\ SF_vars(\E i \in Requests : ClientOf(i))

-----------------------------------------------------------------------------
(* The requests, connections and peers are what their types say. *)
TypeOK ==
  /\ \A i \in Requests :
       /\ u[i].peer \in Peers \cup {None} /\ u[i].conn \in Conns \cup {None}
       /\ u[i].left \in 0..2 /\ u[i].tries \in 0..Cardinality(Peers)
       /\ u[i].st \in {"new", "running", "done"}
  /\ \A k \in Conns : conn[k].st \in {"closed", "connecting", "open", "refused"}
  /\ conns \in [Peers -> Nat]
  /\ cache \in Seq(Conns) /\ Len(cache) <= CacheMax

(* peer->conns is the number of requests that hold the peer, on every path: *)
(* retries, timeouts, clients that leave, connections that are kept.        *)
ConnsExact ==
  \A p \in Peers : conns[p] = Cardinality({i \in Requests : u[i].peer = p})

(* Every open connection is in exactly one place, the keepalive cache or a  *)
(* running request, and what is referred to is open.                        *)
OneHolder ==
  /\ \A k \in Conns :
       LET holders == Cardinality(Owner(k)) + Cardinality({j \in 1..Len(cache) : cache[j] = k}) IN
       holders = IF conn[k].st = "closed" THEN 0 ELSE 1
  /\ exiting => cache = <<>>

(* An idle connection is between two requests: the server read the request  *)
(* to its end and the answer was read to its end.                           *)
IdleAtBoundary ==
  \A j \in 1..Len(cache) :
    LET c == conn[cache[j]] IN
    /\ c.need = 0 /\ c.inq = <<>> /\ c.n = 1 + c.rsp[1].body
    /\ ~c.rtimer /\ ~c.wtimer /\ ~c.rtimedout /\ ~c.wtimedout

(* What a client got is the beginning of the answer to its own request in   *)
(* one attempt, and the whole of it when the request ended well.  Left out  *)
(* is the end of a request that was passed on again after its response had  *)
(* begun (see DummyMeansSent): the header of the next answer may be thrown  *)
(* away after its length was taken for that of what the client still gets.  *)
OwnResponse ==
  \A i \in Requests :
    /\ \A n \in 1..Len(got[i]) :
         got[i][n].to = i /\ got[i][n].x = got[i][1].x /\ got[i][n].n = n - 1
    /\ at = [f |-> "finalize", i |-> i, v |-> "0"] /\ u[i].kind.mode # "memory"
       /\ ~u[i].down /\ ~u[i].again
         => got[i] # <<>> /\ (got[i][1].rsp.framed => Len(got[i]) = 1 + got[i][1].rsp.body)

(* A request that is not idempotent reaches at most one server, and a       *)
(* request with a body that is not buffered too.                            *)
AtMostOnce ==
  \A i \in Requests :
    (~u[i].kind.idempotent /\ "NON_IDEMPOTENT" \notin NextOn) \/ (u[i].kind.body /\ u[i].kind.unbuffered)
      => Cardinality(u[i].served) <= 1

(* What the comment at the test of u->header_sent says: the request has     *)
(* been sent to the server, so nothing is left to do on a write event.      *)
DummyMeansSent ==
  \A i \in Requests : u[i].weh = "dummy" => u[i].request_sent

(* Every request ends, whatever servers and client do: some timer runs      *)
(* whenever the worker waits (but see DummyMeansSent).                      *)
EventuallyDone ==
  \A i \in Requests : u[i].st = "running" ~> (u[i].st = "done" \/ u[i].again)

(* Peers are counted and connections have one holder, which leaves them in  *)
(* the cache only between two requests.                                     *)
HoldersExact == TypeOK /\ ConnsExact /\ OneHolder /\ IdleAtBoundary


=============================================================================
