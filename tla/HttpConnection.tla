--------------------------- MODULE HttpConnection ---------------------------
(***************************************************************************)
(* One client connection of the HTTP module (http/ngx_http_request.c and    *)
(* http/ngx_http_request_body.c): waiting for a request, the request line   *)
(* and the headers with their buffers, the request body that a handler      *)
(* reads or discards, the end of a request, and then keepalive, pipelined   *)
(* requests, the lingering close or the close.                              *)
(*                                                                          *)
(* The worker is single-threaded.  stack holds the functions it still has   *)
(* to run, the one that runs now first; with an empty stack it is in        *)
(* epoll_wait() and the next event is taken.  rc is the last value a        *)
(* function returned.  The sockets are edge-triggered (epoll): edge is a    *)
(* readiness the kernel has not reported yet, c.ready what the worker       *)
(* remembers of the last report.                                            *)
(*                                                                          *)
(* The stream of the client is a sequence of units: the parts of a request  *)
(* line, header lines, the empty line that ends a head, units of a body.    *)
(* A unit says what the client meant by it; the code never looks at the     *)
(* kind of a body unit, it counts.                                          *)
(***************************************************************************)
EXTENDS Integers, Sequences

CONSTANTS
  Scripts,            \* what a client may send: sequences of requests
  HeaderBuffer,       \* client_header_buffer_size, in units
  LargeBuffer,        \* the size of a large header buffer
  LargeBuffers,       \* the number of large header buffers
  MaxBody,            \* client_max_body_size
  KeepaliveRequests,  \* keepalive_requests
  Pieces,             \* in how many pieces an answer may be sent
  Faults              \* how many system calls and allocations may fail

ASSUME HttpConnectionAssumption ==
  /\ HeaderBuffer \in Nat \ {0} /\ LargeBuffer \in Nat \ {0}
  /\ LargeBuffers \in Nat /\ MaxBody \in Nat
  /\ KeepaliveRequests \in Nat /\ Pieces \in Nat \ {0} /\ Faults \in Nat

(* The request line has a unit at least; bad says where a request is wrong. *)
ASSUME ScriptsAssumption ==
  \A s \in Scripts :
    s \in Seq([line : Nat \ {0}, hdrs : Nat, body : Nat \cup {-1}, chunked : BOOLEAN,
              ka : BOOLEAN, bad : {"no", "line", "head"}])

VARIABLES
  script,   \* the requests of this client
  todo,     \* the units the client has not sent yet
  peer,     \* the client's end: "open", "fin" or "reset"
  net,      \* the units in the socket buffer
  edge,     \* a report of epoll about the read side is due
  c,        \* the connection
  r,        \* the request in c->data
  buf,      \* r->header_in between pos and last
  room,     \* r->header_in->end - r->header_in->last
  stack, rc,
  exiting,  \* ngx_exiting
  faults    \* the failures so far

client == <<script, todo, peer>>
vars == <<client, net, edge, c, r, buf, room, stack, rc, exiting, faults>>

-----------------------------------------------------------------------------
(* A request of the client: [line, hdrs, body, chunked, ka, bad].  line is  *)
(* the number of units of the request line, body -1 when there is none.     *)
Unit(k, q) == [k |-> k, q |-> q]
Body(q) == script[q].body
Size(n) == IF n < 0 THEN 0 ELSE n

Units(s, q) ==
  [i \in 1..(s[q].line + s[q].hdrs + 1 + Size(s[q].body)) |->
     CASE i < s[q].line                     -> Unit("part", q)
       [] i = s[q].line                     -> Unit("line", q)
       [] i \in (s[q].line + 1)..(s[q].line + s[q].hdrs) -> Unit("hdr", q)
       [] i = s[q].line + s[q].hdrs + 1     -> Unit("head", q)
       [] OTHER                             -> Unit("body", q)]

Stream(s) == LET f[q \in 0..Len(s)] == IF q = 0 THEN <<>> ELSE f[q - 1] \o Units(s, q)
             IN f[Len(s)]

(* ngx_http_create_request() *)
NewRequest ==
  [live |-> TRUE, q |-> 0, count |-> 1, state |-> 0, keepalive |-> FALSE,
   lingering_close |-> FALSE, lingering_time |-> "none", discard_body |-> FALSE,
   reading_body |-> FALSE, request_body |-> FALSE, no_buffering |-> FALSE,
   rest |-> -1, reh |-> "block", weh |-> "none", answer |-> "now", later |-> FALSE,
   posted |-> FALSE, sent |-> 0]

NoRequest == [NewRequest EXCEPT !.live = FALSE, !.count = 0]

(* ngx_http_init_connection(): nothing was readable at accept(). *)
NewConnection ==
  [open |-> TRUE, handler |-> "wait", rtimer |-> TRUE, wtimer |-> FALSE,
   rtimedout |-> FALSE, wtimedout |-> FALSE, posted |-> FALSE, ready |-> FALSE,
   reusable |-> TRUE, idle |-> FALSE, close |-> FALSE, error |-> FALSE,
   eof |-> FALSE, buffered |-> FALSE, nbusy |-> 0, nfree |-> 0, large |-> FALSE,
   requests |-> 0]

Init ==
  /\ script \in Scripts
  /\ todo = Stream(script) /\ peer = "open" /\ net = <<>> /\ edge = FALSE
  /\ c = NewConnection /\ r = NoRequest /\ buf = <<>> /\ room = HeaderBuffer
  /\ stack = <<>> /\ rc = "OK" /\ exiting = FALSE /\ faults = 0

-----------------------------------------------------------------------------
(* The stack: return, or go on with other functions in place of this one. *)
Top(f) == stack # <<>> /\ Head(stack) = f
Return == stack' = Tail(stack)
Call(fs) == stack' = fs \o Tail(stack)

(* A call that may fail, and what the code does then. *)
Fails == faults < Faults /\ faults' = faults + 1
Works == UNCHANGED faults

Min2(a, b) == IF a < b THEN a ELSE b
First(s, n) == SubSeq(s, 1, n)
Rest(s, n) == SubSeq(s, n + 1, Len(s))

(* recv() of ngx_unix_recv(): data when there is some, else the end of the  *)
(* stream, an error, or NGX_AGAIN.                                          *)
Recv == IF net # <<>> THEN "data"
        ELSE CASE peer = "open" -> "again" [] peer = "fin" -> "eof"
               [] peer = "reset" -> "error"

(* What recv() leaves in the connection. *)
AfterRecv(con) ==
  IF Recv = "data" THEN con
  ELSE [con EXCEPT !.ready = FALSE, !.eof = (@ \/ Recv = "eof")]

-----------------------------------------------------------------------------
(* The client and the kernel.  They move at any time, but only recv() sees  *)
(* it: it is enough that they move while the worker waits and before the    *)
(* functions that call recv() once more.                                    *)
Visible ==
  stack # <<>> => Head(stack) \in {"line", "headers", "do_read", "read_discarded"}

ClientSends ==
  /\ Visible /\ peer = "open" /\ todo # <<>>
  /\ net' = Append(net, Head(todo)) /\ todo' = Tail(todo)
  /\ edge' = TRUE
  /\ UNCHANGED <<script, peer, c, r, buf, room, stack, rc, exiting, faults>>

ClientCloses(how) ==
  /\ Visible
  /\ peer = "open" \/ (peer = "fin" /\ how = "reset")
  /\ peer' = how
  /\ net' = IF how = "reset" THEN <<>> ELSE net
  /\ edge' = TRUE
  /\ UNCHANGED <<script, todo, c, r, buf, room, stack, rc, exiting, faults>>

-----------------------------------------------------------------------------
(* The events of the worker. *)
AtRest == stack = <<>> /\ c.open

Readable ==
  /\ AtRest /\ edge
  /\ edge' = FALSE /\ c' = [c EXCEPT !.ready = TRUE]
  /\ stack' = <<c.handler>>
  /\ UNCHANGED <<client, net, r, buf, room, rc, exiting, faults>>

PostedEvent ==
  /\ AtRest /\ c.posted
  /\ c' = [c EXCEPT !.posted = FALSE]
  /\ stack' = <<c.handler>>
  /\ UNCHANGED <<client, net, edge, r, buf, room, rc, exiting, faults>>

ReadTimer ==
  /\ AtRest /\ c.rtimer
  /\ c' = [c EXCEPT !.rtimer = FALSE, !.rtimedout = TRUE]
  /\ stack' = <<c.handler>>
  /\ UNCHANGED <<client, net, edge, r, buf, room, rc, exiting, faults>>

(* The write handler is ngx_http_empty_handler() except for a request. *)
Writable ==
  /\ AtRest /\ c.buffered /\ c.handler = "request"
  /\ stack' = <<"write", "posted">>
  /\ UNCHANGED <<client, net, edge, c, r, buf, room, rc, exiting, faults>>

WriteTimer ==
  /\ AtRest /\ c.wtimer
  /\ c' = [c EXCEPT !.wtimer = FALSE, !.wtimedout = TRUE]
  /\ stack' = IF c.handler = "request" THEN <<"write", "posted">> ELSE <<>>
  /\ UNCHANGED <<client, net, edge, r, buf, room, rc, exiting, faults>>

(* ngx_drain_connections() of the pool takes a reusable connection. *)
DrainConnection ==
  /\ AtRest /\ c.reusable /\ faults < Faults
  /\ faults' = faults + 1
  /\ c' = [c EXCEPT !.close = TRUE]
  /\ stack' = <<c.handler>>
  /\ UNCHANGED <<client, net, edge, r, buf, room, rc, exiting>>

(* The worker leaves (ngx_worker_process_cycle()): idle connections go.     *)
Exit ==
  /\ stack = <<>> /\ ~exiting /\ exiting' = TRUE
  /\ IF c.open /\ c.idle
     THEN c' = [c EXCEPT !.close = TRUE] /\ stack' = <<c.handler>>
     ELSE UNCHANGED <<c, stack>>
  /\ UNCHANGED <<client, net, edge, r, buf, room, rc, faults>>

(* ngx_http_upstream, in place of any content handler that answers later:   *)
(* the whole answer is there, or it could not be got.                       *)
LaterDone ==
  /\ AtRest /\ r.later
  /\ r' = [r EXCEPT !.later = FALSE]
  /\ \/ stack' = <<"output", "finalize", "posted">> /\ UNCHANGED rc
     \/ stack' = <<"finalize", "posted">> /\ rc' = "502"
  /\ UNCHANGED <<client, net, edge, c, buf, room, exiting, faults>>

(* r->lingering_time seconds have passed. *)
LingeringTimePasses ==
  /\ AtRest /\ r.live /\ r.lingering_time = "set"
  /\ r' = [r EXCEPT !.lingering_time = "passed"]
  /\ UNCHANGED <<client, net, edge, c, buf, room, stack, rc, exiting, faults>>

-----------------------------------------------------------------------------
(* The end of a connection and of a request. *)

(* ngx_http_close_connection() *)
CloseConnection ==
  /\ Top("close_connection")
  /\ c' = [NewConnection EXCEPT !.open = FALSE, !.rtimer = FALSE, !.reusable = FALSE]
  /\ r' = NoRequest /\ buf' = <<>> /\ stack' = <<>> /\ edge' = FALSE
  /\ UNCHANGED <<client, net, room, rc, exiting, faults>>

(* ngx_http_close_request() with ngx_http_free_request() *)
CloseRequest ==
  /\ Top("close_request")
  /\ r' = [r EXCEPT !.count = @ - 1, !.live = (r.count # 1)]
  /\ IF r.count # 1 THEN Return ELSE Call(<<"close_connection">>)
  /\ UNCHANGED <<client, net, edge, c, buf, room, rc, exiting, faults>>

(* ngx_http_terminate_request(): a request that has a write handler is      *)
(* closed by a posted request, when the functions that run have returned.   *)
TerminateRequest ==
  /\ Top("terminate")
  /\ IF r.weh # "none"
     THEN r' = [r EXCEPT !.weh = "terminate", !.posted = TRUE] /\ Return
     ELSE UNCHANGED r /\ Call(<<"close_request">>)
  /\ UNCHANGED <<client, net, edge, c, buf, room, rc, exiting, faults>>

(* ngx_http_run_posted_requests(), ngx_http_terminate_handler() *)
RunPostedRequests ==
  /\ Top("posted")
  /\ IF r.live /\ r.posted
     THEN r' = [r EXCEPT !.posted = FALSE, !.count = 1] /\ Call(<<"close_request">>)
     ELSE UNCHANGED r /\ Return
  /\ UNCHANGED <<client, net, edge, c, buf, room, rc, exiting, faults>>

Special == {"400", "404", "413", "414", "494", "500", "502"}
NoKeepalive == {"400", "413", "414", "500"}

(* ngx_http_finalize_request() *)
FinalizeDone ==
  /\ Top("finalize") /\ rc = "DONE"
  /\ Call(<<"finalize_connection">>)
  /\ UNCHANGED <<client, net, edge, c, r, buf, room, rc, exiting, faults>>

FinalizeError ==
  /\ Top("finalize") /\ rc # "DONE" /\ (rc \in {"ERROR", "408", "499"} \/ c.error)
  /\ Call(<<"terminate">>)
  /\ UNCHANGED <<client, net, edge, c, r, buf, room, rc, exiting, faults>>

(* ... a special response: ngx_http_special_response_handler() discards the *)
(* body, sends the page and the request is finalized once more.             *)
FinalizeSpecial ==
  /\ Top("finalize") /\ rc \in Special /\ ~c.error
  /\ c' = [c EXCEPT !.rtimer = FALSE, !.wtimer = FALSE, !.handler = "request"]
  /\ r' = [r EXCEPT !.keepalive = @ /\ rc \notin NoKeepalive,
                    !.lingering_close = @ /\ rc # "400"]
  /\ Call(<<"discard", "special", "output", "finalize">>)
  /\ UNCHANGED <<client, net, edge, buf, room, rc, exiting, faults>>

SpecialResponse ==
  /\ Top("special")
  /\ r' = [r EXCEPT !.keepalive = @ /\ rc = "OK"]
  /\ Return
  /\ UNCHANGED <<client, net, edge, c, buf, room, rc, exiting, faults>>

(* ... output is left (ngx_http_set_write_handler()) *)
FinalizeBuffered ==
  /\ Top("finalize") /\ rc \in {"OK", "AGAIN"} /\ ~c.error /\ c.buffered
  /\ r' = [r EXCEPT !.reh = IF r.discard_body THEN "discarded" ELSE "test",
                    !.weh = "writer"]
  /\ c' = [c EXCEPT !.wtimer = TRUE]
  /\ Return
  /\ UNCHANGED <<client, net, edge, buf, room, rc, exiting, faults>>

(* ... everything was sent *)
FinalizeComplete ==
  /\ Top("finalize") /\ rc \in {"OK", "AGAIN"} /\ ~c.error /\ ~c.buffered
  /\ r' = [r EXCEPT !.weh = "empty"]
  /\ c' = [c EXCEPT !.rtimer = FALSE, !.wtimer = FALSE]
  /\ Call(IF c.eof THEN <<"close_request">> ELSE <<"finalize_connection">>)
  /\ UNCHANGED <<client, net, edge, buf, room, rc, exiting, faults>>

(* ngx_http_finalize_connection(): somebody else still uses the request *)
FinalizeConnectionShared ==
  /\ Top("finalize_connection") /\ r.count # 1
  /\ IF r.discard_body
     THEN /\ r' = [r EXCEPT !.reh = "discarded",
                            !.lingering_time = IF @ = "none" THEN "set" ELSE @]
          /\ c' = [c EXCEPT !.rtimer = TRUE]
     ELSE UNCHANGED <<r, c>>
  /\ Call(<<"close_request">>)
  /\ UNCHANGED <<client, net, edge, buf, room, rc, exiting, faults>>

(* Mutant: a body that was not read to its end does not end the connection. *)
KeepsUnread == r

(* A body that is still being read cannot be followed by a request. *)
AfterReading ==
  IF r.reading_body THEN [r EXCEPT !.keepalive = FALSE, !.lingering_close = TRUE]
                    ELSE r

FinalizeConnectionLast ==
  /\ Top("finalize_connection") /\ r.count = 1
  /\ r' = AfterReading
  /\ Call(IF r'.keepalive /\ ~exiting THEN <<"set_keepalive">>
          ELSE IF r'.lingering_close \/ buf # <<>> \/ c.ready THEN <<"set_lingering">>
          ELSE <<"close_request">>)
  /\ UNCHANGED <<client, net, edge, c, buf, room, rc, exiting, faults>>

-----------------------------------------------------------------------------
(* ngx_http_set_keepalive().  A body that is still discarded holds a second *)
(* reference, so its branch for r->discard_body has no action: no state has *)
(* one and gets here.  The buffer holds the beginning of the next request:  *)
(* a large one stays as the first busy one, the others are free             *)
SetKeepalivePipelined ==
  /\ Top("set_keepalive") /\ ~r.discard_body /\ buf # <<>>
  /\ r' = NewRequest
  /\ c' = [c EXCEPT !.handler = "line", !.rtimer = FALSE, !.posted = TRUE,
                    !.nfree = IF c.large THEN @ + c.nbusy - 1 ELSE @,
                    !.nbusy = IF c.large THEN 1 ELSE @,
                    !.requests = @ + 1]
  /\ stack' = <<>>
  /\ UNCHANGED <<client, net, edge, buf, room, rc, exiting, faults>>

(* Mutant: the readiness seen before is forgotten. *)
SetKeepaliveIdleSilently ==
  /\ Top("set_keepalive") /\ ~r.discard_body /\ buf = <<>>
  /\ r' = NoRequest /\ room' = HeaderBuffer
  /\ c' = [c EXCEPT !.handler = "keepalive", !.nfree = 0, !.nbusy = 0, !.large = FALSE,
                    !.idle = TRUE, !.reusable = TRUE, !.rtimer = TRUE]
  /\ stack' = <<>>
  /\ UNCHANGED <<client, net, edge, buf, rc, exiting, faults>>

(* ... nothing is there: the buffers are freed and the connection is idle *)
SetKeepaliveIdle ==
  /\ Top("set_keepalive") /\ ~r.discard_body /\ buf = <<>>
  /\ r' = NoRequest /\ room' = HeaderBuffer
  /\ c' = [c EXCEPT !.handler = "keepalive", !.nfree = 0, !.nbusy = 0, !.large = FALSE,
                    !.idle = TRUE, !.reusable = TRUE, !.rtimer = TRUE,
                    !.posted = c.ready]
  /\ stack' = <<>>
  /\ UNCHANGED <<client, net, edge, buf, rc, exiting, faults>>

(* ngx_http_keepalive_handler() *)
KeepaliveHandler ==
  /\ Top("keepalive")
  /\ IF c.rtimedout \/ c.close \/ Recv \in {"eof", "error"}
     THEN /\ Call(<<"close_connection">>)
          /\ UNCHANGED <<c, r, buf, net, room>>
     ELSE IF Recv = "again"
     THEN c' = AfterRecv(c) /\ Return /\ UNCHANGED <<r, buf, net, room>>
     ELSE /\ LET n == Min2(HeaderBuffer, Len(net))
             IN buf' = First(net, n) /\ net' = Rest(net, n) /\ room' = HeaderBuffer - n
          /\ r' = NewRequest
          /\ c' = [c EXCEPT !.idle = FALSE, !.reusable = FALSE, !.rtimer = FALSE,
                            !.handler = "line", !.requests = @ + 1]
          /\ Call(<<"line">>)
  /\ UNCHANGED <<client, edge, rc, exiting, faults>>

(* ngx_http_set_lingering_close() *)
SetLingeringClose ==
  /\ Top("set_lingering")
  /\ r' = [r EXCEPT !.lingering_time = "set"]
  /\ c' = [c EXCEPT !.handler = "lingering", !.rtimer = TRUE]
  /\ \/ Works /\ IF c.ready THEN Call(<<"lingering">>) ELSE Return
     \/ Fails /\ Call(<<"close_request">>)
  /\ UNCHANGED <<client, net, edge, buf, room, rc, exiting>>

(* Mutant: as long as the client is there, the timer is set anew. *)
LingeringCloseHandlerPatient ==
  /\ Top("lingering")
  /\ IF peer # "open"
     THEN UNCHANGED c /\ Call(<<"close_request">>)
     ELSE c' = [c EXCEPT !.ready = FALSE, !.rtimer = TRUE] /\ Return
  /\ net' = <<>>
  /\ UNCHANGED <<client, edge, r, buf, room, rc, exiting, faults>>

(* ngx_http_lingering_close_handler(): what comes is read and thrown away   *)
(* until recv() says NGX_AGAIN                                              *)
LingeringCloseHandler ==
  /\ Top("lingering")
  /\ IF c.rtimedout \/ r.lingering_time = "passed" \/ peer # "open"
     THEN UNCHANGED c /\ Call(<<"close_request">>)
     ELSE c' = [c EXCEPT !.ready = FALSE, !.rtimer = TRUE] /\ Return
  /\ net' = <<>>
  /\ UNCHANGED <<client, edge, r, buf, room, rc, exiting, faults>>

-----------------------------------------------------------------------------
(* Reading the head of a request. *)

(* ngx_http_wait_request_handler() *)
WaitRequestHandler ==
  /\ Top("wait")
  /\ IF c.rtimedout \/ c.close \/ Recv \in {"eof", "error"}
     THEN Call(<<"close_connection">>) /\ UNCHANGED <<c, r, buf, net, room>>
     ELSE IF Recv = "again"
     THEN /\ c' = [AfterRecv(c) EXCEPT !.rtimer = TRUE, !.reusable = (@ \/ ~c.rtimer)]
          /\ Return /\ UNCHANGED <<r, buf, net, room>>
     ELSE /\ LET n == Min2(HeaderBuffer, Len(net))
             IN buf' = First(net, n) /\ net' = Rest(net, n) /\ room' = HeaderBuffer - n
          /\ r' = NewRequest
          /\ c' = [c EXCEPT !.reusable = FALSE, !.handler = "line", !.requests = @ + 1]
          /\ Call(<<"line">>)
  /\ UNCHANGED <<client, edge, rc, exiting, faults>>

(* ngx_http_process_request_line() and ngx_http_process_request_headers()   *)
(* look at the timer first ...                                              *)
HeadTimedOut ==
  /\ Top("line") \/ Top("headers")
  /\ c.rtimedout
  /\ Call(<<"close_request">>)
  /\ UNCHANGED <<client, net, edge, c, r, buf, room, rc, exiting, faults>>

(* ... and take a large buffer when the one they use is full and read       *)
(* (ngx_http_alloc_large_header_buffer()): the part of a line that is       *)
(* already parsed goes along.                                               *)
HeadFull == buf = <<>> /\ room = 0
Carried == r.state

(* A large buffer is free, or another one may be allocated. *)
LargeLeft == c.nfree > 0 \/ c.nbusy < LargeBuffers

AllocLargeHeaderBuffer ==
  /\ Top("line") \/ Top("headers")
  /\ ~c.rtimedout /\ HeadFull
  /\ IF Top("line") /\ Carried = 0
     THEN /\ room' = IF c.large THEN LargeBuffer ELSE HeaderBuffer
          /\ UNCHANGED <<c, r, rc, stack>>
     ELSE IF (Carried # 0 /\ Carried >= LargeBuffer) \/ ~LargeLeft
     THEN /\ rc' = IF Top("line") THEN "414" ELSE "494"
          /\ r' = [r EXCEPT !.lingering_close = (@ \/ Top("headers"))]
          /\ Call(<<"finalize">>)
          /\ UNCHANGED <<c, room>>
     ELSE /\ c' = [c EXCEPT !.nfree = IF @ > 0 THEN @ - 1 ELSE 0, !.nbusy = @ + 1,
                            !.large = TRUE]
          /\ room' = LargeBuffer - Carried
          /\ UNCHANGED <<r, rc, stack>>
  /\ UNCHANGED <<client, net, edge, buf, exiting, faults>>

(* ngx_http_read_request_header() *)
ReadRequestHeader ==
  /\ Top("line") \/ Top("headers")
  /\ ~c.rtimedout /\ buf = <<>> /\ room > 0
  /\ IF c.ready /\ Recv = "data"
     THEN /\ LET n == Min2(room, Len(net))
             IN buf' = First(net, n) /\ net' = Rest(net, n) /\ room' = room - n
          /\ UNCHANGED <<c, rc, stack>>
     ELSE IF c.ready /\ Recv \in {"eof", "error"}
     THEN /\ c' = [AfterRecv(c) EXCEPT !.error = TRUE]
          /\ rc' = "400" /\ Call(<<"finalize">>)
          /\ UNCHANGED <<buf, net, room>>
     ELSE /\ c' = [c EXCEPT !.ready = FALSE, !.rtimer = TRUE]
          /\ Return
          /\ UNCHANGED <<buf, net, room, rc>>
  /\ UNCHANGED <<client, edge, r, exiting, faults>>

(* ngx_http_parse_request_line(): any unit is taken for a part of the line; *)
(* a unit that is none, or a line that is wrong, is refused.                *)
ParseRequestLine ==
  /\ Top("line") /\ ~c.rtimedout /\ buf # <<>>
  /\ LET u == Head(buf)
     IN CASE u.k = "part" ->
               r' = [r EXCEPT !.state = @ + 1] /\ UNCHANGED <<c, rc, stack>>
          [] u.k = "line" /\ script[u.q].bad # "line" ->
               /\ r' = [r EXCEPT !.state = 0, !.q = u.q]
               /\ c' = [c EXCEPT !.handler = "headers"]
               /\ Call(<<"headers">>) /\ UNCHANGED rc
          [] OTHER -> rc' = "400" /\ Call(<<"finalize">>) /\ UNCHANGED <<c, r>>
  /\ buf' = Tail(buf)
  /\ UNCHANGED <<client, net, edge, room, exiting, faults>>

(* ngx_http_parse_header_line(), ngx_http_process_request_header() *)
ParseHeaderLine ==
  /\ Top("headers") /\ ~c.rtimedout /\ buf # <<>>
  /\ LET u == Head(buf)
     IN CASE u.k = "hdr" -> UNCHANGED <<rc, stack>>
          [] u.k = "head" /\ script[u.q].bad # "head" ->
               Call(<<"process_request">>) /\ UNCHANGED rc
          [] OTHER -> rc' = "400" /\ Call(<<"finalize">>)
  /\ buf' = Tail(buf)
  /\ UNCHANGED <<client, net, edge, c, r, room, exiting, faults>>

(* ngx_http_process_request(), ngx_http_handler() and the check of the      *)
(* length of the body in ngx_http_core_find_config_phase()                  *)
ProcessRequest ==
  /\ Top("process_request")
  /\ c' = [c EXCEPT !.rtimer = FALSE, !.handler = "request"]
  /\ r' = [r EXCEPT !.reh = "block", !.weh = "phases",
                    !.keepalive = script[r.q].ka /\ c.requests < KeepaliveRequests,
                    !.lingering_close = Body(r.q) > 0,
                    !.rest = Body(r.q)]
  /\ IF Body(r.q) > MaxBody /\ ~script[r.q].chunked
     THEN Call(<<"discard", "too_large", "finalize", "posted">>)
     ELSE Call(<<"content", "posted">>)
  /\ UNCHANGED <<client, net, edge, buf, room, rc, exiting, faults>>

TooLarge ==
  /\ Top("too_large")
  /\ rc' = "413" /\ Return
  /\ UNCHANGED <<client, net, edge, c, r, buf, room, exiting, faults>>

(* ngx_http_request_handler() of a read event *)
ReadEventHandler ==
  /\ Top("request")
  /\ Call(<<r.reh, "posted">>)
  /\ UNCHANGED <<client, net, edge, c, r, buf, room, rc, exiting, faults>>

(* ... ngx_http_block_reading(): nothing, with edge-triggered events *)
BlockReading ==
  /\ Top("block")
  /\ Return
  /\ UNCHANGED <<client, net, edge, c, r, buf, room, rc, exiting, faults>>

(* ... ngx_http_test_reading(), and ngx_http_upstream_check_broken_         *)
(* connection() while the answer is awaited: one unit is looked at          *)
TestReading ==
  /\ Top("test") \/ Top("broken")
  /\ IF Recv \in {"eof", "error"}
     THEN /\ c' = [c EXCEPT !.eof = TRUE, !.error = TRUE]
          /\ r' = [r EXCEPT !.later = FALSE]
          /\ rc' = "499" /\ Call(<<"finalize">>)
     ELSE UNCHANGED <<c, r, rc>> /\ Return
  /\ UNCHANGED <<client, net, edge, buf, room, exiting, faults>>

-----------------------------------------------------------------------------
(* The content handlers, by what they do with the body and when they answer *)

(* static files, return, autoindex: the body is discarded *)
ContentDiscards ==
  /\ Top("content")
  /\ Call(<<"discard", "unless_failed", "output", "finalize">>)
  /\ UNCHANGED <<client, net, edge, c, r, buf, room, rc, exiting, faults>>

UnlessFailed ==
  /\ Top("unless_failed")
  /\ stack' = IF rc = "OK" THEN Tail(stack) ELSE Tail(Tail(stack))
  /\ UNCHANGED <<client, net, edge, c, r, buf, room, rc, exiting, faults>>

(* dav answers when it has the body; proxy asks an upstream server, also    *)
(* while the body is still read (proxy_request_buffering off)               *)
ContentReads(how) ==
  /\ Top("content")
  /\ r' = [r EXCEPT !.answer = how, !.no_buffering = (how = "unbuffered")]
  /\ Call(<<"read_body", "read_done", "finalize">>)
  /\ UNCHANGED <<client, net, edge, c, buf, room, rc, exiting, faults>>

(* a handler that refuses *)
ContentRefuses(code) ==
  /\ Top("content")
  /\ rc' = code /\ Call(<<"finalize">>)
  /\ UNCHANGED <<client, net, edge, c, r, buf, room, exiting, faults>>

(* The handlers end with: if (rc >= NGX_HTTP_SPECIAL_RESPONSE) return rc;   *)
(* return NGX_DONE;                                                         *)
ReadDone ==
  /\ Top("read_done")
  /\ rc' = IF rc \in Special THEN rc ELSE "DONE"
  /\ Return
  /\ UNCHANGED <<client, net, edge, c, r, buf, room, exiting, faults>>

(* ngx_http_output_filter() down to ngx_http_write_filter(): everything is  *)
(* sent, or the socket takes a piece, or send() fails                       *)
Output ==
  /\ Top("output")
  /\ \/ c' = [c EXCEPT !.buffered = FALSE] /\ rc' = "OK" /\ Works /\ UNCHANGED r
     \/ /\ r.sent < Pieces - 1 /\ r' = [r EXCEPT !.sent = @ + 1]
        /\ c' = [c EXCEPT !.buffered = TRUE] /\ rc' = "AGAIN" /\ Works
     \/ c' = [c EXCEPT !.error = TRUE] /\ rc' = "ERROR" /\ Fails /\ UNCHANGED r
  /\ Return
  /\ UNCHANGED <<client, net, edge, buf, room, exiting>>

(* ngx_http_request_handler() of a write event, with ngx_http_writer() *)
Writer ==
  /\ Top("write") /\ r.weh = "writer"
  /\ IF c.wtimedout
     THEN rc' = "408" /\ Call(<<"finalize">>)
     ELSE UNCHANGED rc /\ Call(<<"output", "written">>)
  /\ UNCHANGED <<client, net, edge, c, r, buf, room, exiting, faults>>

Written ==
  /\ Top("written")
  /\ IF rc # "ERROR" /\ c.buffered
     THEN c' = [c EXCEPT !.wtimer = TRUE] /\ Return /\ UNCHANGED r
     ELSE /\ r' = [r EXCEPT !.weh = IF rc = "ERROR" THEN @ ELSE "empty"]
          /\ Call(<<"finalize">>) /\ UNCHANGED c
  /\ UNCHANGED <<client, net, edge, buf, room, rc, exiting, faults>>

-----------------------------------------------------------------------------
(* ngx_http_read_client_request_body() *)
NoBody == r.rest < 0

ReadClientRequestBody ==
  /\ Top("read_body")
  /\ \/ /\ Works
        /\ LET n == IF NoBody THEN 0 ELSE Min2(r.rest, Len(buf))
               done == NoBody \/ r.rest = n
           IN /\ buf' = Rest(buf, n)
              /\ r' = [r EXCEPT !.count = @ + 1, !.request_body = TRUE, !.rest = @ - n,
                                !.no_buffering = @ /\ ~done,
                                !.reh = IF done THEN @ ELSE "body",
                                !.weh = IF done THEN @ ELSE "empty"]
              /\ Call(IF done THEN <<"post_handler", "body_ok">>
                              ELSE <<"do_read", "body_done">>)
              /\ UNCHANGED rc
     \/ Fails /\ rc' = "500" /\ Return /\ UNCHANGED <<r, buf>>
  /\ UNCHANGED <<client, net, edge, c, room, exiting>>

BodyOk ==
  /\ Top("body_ok")
  /\ rc' = "OK" /\ Return
  /\ UNCHANGED <<client, net, edge, c, r, buf, room, exiting, faults>>

(* ... its end, after done: *)
BodyDone ==
  /\ Top("body_done")
  /\ LET unbuffered == r.no_buffering /\ rc \in {"OK", "AGAIN"}
     IN /\ r' = [r EXCEPT !.no_buffering = @ /\ rc # "OK",
                          !.reading_body = @ \/ (unbuffered /\ rc = "AGAIN"),
                          !.reh = IF unbuffered THEN "block" ELSE @,
                          !.count = IF rc \in Special THEN @ - 1 ELSE @]
        /\ Call(IF unbuffered THEN <<"post_handler", "body_ok">> ELSE <<>>)
  /\ UNCHANGED <<client, net, edge, c, buf, room, rc, exiting, faults>>

(* The units recv() hands out until it says NGX_AGAIN: it is never asked    *)
(* for more than the rest of the body.                                      *)
BodyUnits == Min2(r.rest, Len(net))

(* ngx_http_do_read_client_request_body(): a buffer that is full is written *)
(* to a temporary file, which may fail                                      *)
DoReadClientRequestBody ==
  /\ Top("do_read")
  /\ LET n == BodyUnits
     IN /\ net' = Rest(net, n)
        /\ \/ /\ Fails /\ n > 0
              /\ r' = [r EXCEPT !.rest = @ - n]
              /\ rc' = "500" /\ Return /\ UNCHANGED c
           \/ /\ Works /\ r.rest <= n
              /\ r' = [r EXCEPT !.rest = 0, !.reh = IF r.no_buffering THEN @ ELSE "block"]
              /\ c' = [c EXCEPT !.rtimer = FALSE]
              /\ rc' = "OK"
              /\ Call(IF r.no_buffering THEN <<>> ELSE <<"post_handler", "body_ok">>)
           \/ /\ Works /\ r.rest > n
              /\ r' = [r EXCEPT !.rest = @ - n]
              /\ IF peer = "open"
                 THEN rc' = "AGAIN" /\ c' = [c EXCEPT !.ready = FALSE, !.rtimer = TRUE]
                 ELSE /\ rc' = "400"
                      /\ c' = [c EXCEPT !.ready = FALSE, !.error = TRUE,
                                        !.eof = (@ \/ peer = "fin")]
              /\ Return
  /\ UNCHANGED <<client, edge, buf, room, exiting>>

(* ngx_http_read_client_request_body_handler() *)
ReadBodyHandler ==
  /\ Top("body")
  /\ IF c.rtimedout
     THEN rc' = "408" /\ Call(<<"finalize">>)
     ELSE UNCHANGED rc /\ Call(<<"do_read", "if_failed">>)
  /\ UNCHANGED <<client, net, edge, c, r, buf, room, exiting, faults>>

IfFailed ==
  /\ Top("if_failed")
  /\ Call(IF rc \in Special THEN <<"finalize">> ELSE <<>>)
  /\ UNCHANGED <<client, net, edge, c, r, buf, room, rc, exiting, faults>>

(* The handler that was waiting for the body answers at once, ... *)
PostHandlerAnswers ==
  /\ Top("post_handler") /\ r.answer = "now"
  /\ \/ Call(<<"output", "finalize">>) /\ UNCHANGED rc
     \/ Call(<<"finalize">>) /\ rc' = "500"
  /\ UNCHANGED <<client, net, edge, c, r, buf, room, exiting, faults>>

(* ... or starts an upstream request: ngx_http_upstream_init() *)
PostHandlerUpstream ==
  /\ Top("post_handler") /\ r.answer # "now"
  /\ c' = [c EXCEPT !.rtimer = FALSE]
  /\ r' = [r EXCEPT !.later = TRUE, !.weh = "broken", !.reh = "broken"]
  /\ Return
  /\ UNCHANGED <<client, net, edge, buf, room, rc, exiting, faults>>

(* The upstream server is connected and takes the request while the body is *)
(* still read: ngx_http_upstream_send_request_body()                        *)
UpstreamSendsRequest ==
  /\ AtRest /\ r.later /\ r.no_buffering /\ r.reh = "broken" /\ r.reading_body
  /\ r' = [r EXCEPT !.reh = "unbuffered"]
  /\ stack' = <<"do_read", "unbuffered_done", "posted">>
  /\ UNCHANGED <<client, net, edge, c, buf, room, rc, exiting, faults>>

(* ngx_http_upstream_read_request_handler() with                            *)
(* ngx_http_read_unbuffered_request_body()                                  *)
ReadUnbufferedRequestBody ==
  /\ Top("unbuffered")
  /\ IF c.rtimedout
     THEN /\ rc' = "408" /\ r' = [r EXCEPT !.later = FALSE]
          /\ Call(<<"finalize">>)
     ELSE UNCHANGED <<r, rc>> /\ Call(<<"do_read", "unbuffered_done">>)
  /\ UNCHANGED <<client, net, edge, c, buf, room, exiting, faults>>

UnbufferedDone ==
  /\ Top("unbuffered_done")
  /\ r' = [r EXCEPT !.reading_body = @ /\ rc # "OK",
                    !.reh = IF rc = "OK" THEN "broken" ELSE @,
                    !.later = @ /\ rc \notin Special]
  /\ Call(IF rc \in Special THEN <<"finalize">> ELSE <<>>)
  /\ UNCHANGED <<client, net, edge, c, buf, room, rc, exiting, faults>>

-----------------------------------------------------------------------------
(* ngx_http_discard_request_body() *)
DiscardRequestBody ==
  /\ Top("discard")
  /\ \/ /\ r.discard_body \/ r.request_body
        /\ rc' = "OK" /\ Return /\ Works /\ UNCHANGED <<c, r, buf>>
     \/ /\ ~(r.discard_body \/ r.request_body)
        /\ Fails /\ rc' = "500" /\ Return /\ UNCHANGED <<c, r, buf>>
     \/ /\ ~(r.discard_body \/ r.request_body) /\ Works
        /\ c' = [c EXCEPT !.rtimer = FALSE]
        /\ LET n == IF r.rest <= 0 THEN 0 ELSE Min2(r.rest, Len(buf))
           IN /\ buf' = Rest(buf, n)
              /\ r' = [r EXCEPT !.rest = @ - n]
              /\ IF r.rest - n <= 0
                 THEN rc' = "OK" /\ Return
                 ELSE UNCHANGED rc /\ Call(<<"read_discarded", "discard_rest">>)
  /\ UNCHANGED <<client, net, edge, room, exiting>>

(* ngx_http_read_discarded_request_body(), with the filter it feeds *)
ReadDiscardedRequestBody ==
  /\ Top("read_discarded")
  /\ LET n == IF c.ready THEN BodyUnits ELSE 0
     IN /\ net' = Rest(net, n)
        /\ r' = [r EXCEPT !.rest = @ - n, !.reh = IF r.rest = n THEN "block" ELSE @]
        /\ IF r.rest <= n \/ (c.ready /\ peer # "open")
           THEN /\ rc' = "OK"
                /\ c' = IF r.rest <= n THEN c
                        ELSE [c EXCEPT !.ready = FALSE, !.eof = (@ \/ peer = "fin"),
                                       !.error = (@ \/ peer = "reset")]
           ELSE rc' = "AGAIN" /\ c' = [c EXCEPT !.ready = FALSE]
  /\ Return
  /\ UNCHANGED <<client, edge, buf, room, exiting, faults>>

DiscardRest ==
  /\ Top("discard_rest")
  /\ r' = IF rc = "OK" THEN [r EXCEPT !.lingering_close = FALSE]
          ELSE [r EXCEPT !.reh = "discarded", !.count = @ + 1, !.discard_body = TRUE]
  /\ rc' = "OK" /\ Return
  /\ UNCHANGED <<client, net, edge, c, buf, room, exiting, faults>>

(* ngx_http_discarded_request_body_handler() *)
DiscardedRequestBodyHandler ==
  /\ Top("discarded")
  /\ CASE c.rtimedout ->
             /\ c' = [c EXCEPT !.error = TRUE]
             /\ rc' = "ERROR" /\ Call(<<"finalize">>) /\ UNCHANGED r
       [] ~c.rtimedout /\ r.lingering_time = "passed" ->
             /\ r' = [r EXCEPT !.discard_body = FALSE, !.lingering_close = FALSE]
             /\ rc' = "ERROR" /\ Call(<<"finalize">>) /\ UNCHANGED c
       [] OTHER ->
             Call(<<"read_discarded", "discarded_done">>) /\ UNCHANGED <<c, r, rc>>
  /\ UNCHANGED <<client, net, edge, buf, room, exiting, faults>>

DiscardedDone ==
  /\ Top("discarded_done")
  /\ IF rc = "OK"
     THEN /\ r' = [r EXCEPT !.discard_body = FALSE, !.lingering_close = FALSE]
          /\ rc' = "DONE" /\ Call(<<"finalize">>) /\ UNCHANGED c
     ELSE /\ c' = [c EXCEPT !.rtimer = @ \/ r.lingering_time = "set"]
          /\ Return /\ UNCHANGED <<r, rc>>
  /\ UNCHANGED <<client, net, edge, buf, room, exiting, faults>>

-----------------------------------------------------------------------------
Events ==
  \/ Readable \/ PostedEvent \/ ReadTimer \/ Writable \/ WriteTimer
  \/ LaterDone \/ UpstreamSendsRequest \/ LingeringTimePasses

ReadsHead ==
  \/ WaitRequestHandler \/ HeadTimedOut \/ AllocLargeHeaderBuffer
  \/ ReadRequestHeader \/ ParseRequestLine \/ ParseHeaderLine

HandlesRequest ==
  \/ ProcessRequest \/ TooLarge \/ ReadEventHandler \/ BlockReading \/ TestReading
  \/ ContentDiscards \/ UnlessFailed \/ ReadDone \/ Output
  \/ \E how \in {"now", "later", "unbuffered"} : ContentReads(how)
  \/ \E code \in {"404", "500"} : ContentRefuses(code)
  \/ Writer \/ Written

HandlesBody ==
  \/ ReadClientRequestBody \/ BodyOk \/ BodyDone \/ DoReadClientRequestBody
  \/ ReadBodyHandler \/ IfFailed \/ PostHandlerAnswers \/ PostHandlerUpstream
  \/ ReadUnbufferedRequestBody \/ UnbufferedDone
  \/ DiscardRequestBody \/ ReadDiscardedRequestBody \/ DiscardRest
  \/ DiscardedRequestBodyHandler \/ DiscardedDone

EndsRequest ==
  \/ CloseConnection \/ CloseRequest \/ TerminateRequest \/ RunPostedRequests
  \/ FinalizeDone \/ FinalizeError \/ FinalizeSpecial \/ SpecialResponse
  \/ FinalizeBuffered \/ FinalizeComplete
  \/ FinalizeConnectionShared \/ FinalizeConnectionLast
  \/ SetKeepalivePipelined \/ SetKeepaliveIdle
  \/ KeepaliveHandler \/ SetLingeringClose \/ LingeringCloseHandler

(* A function of the worker runs. *)
Runs == ReadsHead \/ HandlesRequest \/ HandlesBody \/ EndsRequest

Done == ~c.open /\ stack = <<>> /\ UNCHANGED vars

Next ==
  \/ ClientSends \/ \E how \in {"fin", "reset"} : ClientCloses(how)
  \/ Events \/ DrainConnection \/ Exit \/ Runs \/ Done

(* The worker goes on, reports and timers are handled, an upstream request  *)
(* ends (it has timeouts of its own).  Nothing is asked of the client.      *)
Spec ==
  /\ Init /\ [][Next]_vars
  /\ WF_vars(Runs) /\ WF_vars(Readable) /\ WF_vars(PostedEvent)
  /\ WF_vars(ReadTimer) /\ WF_vars(WriteTimer) /\ WF_vars(LaterDone)

-----------------------------------------------------------------------------
Readers == {"wait", "line", "headers", "request", "keepalive", "lingering"}

(* The connection, the request and the buffers have their types. *)
TypeOK ==
  /\ c.handler \in Readers /\ r.count \in 0..3
  /\ room \in 0..(HeaderBuffer + LargeBuffer) /\ Len(buf) + room <= HeaderBuffer + LargeBuffer
  /\ c.nbusy + c.nfree <= LargeBuffers
  /\ r.lingering_time \in {"none", "set", "passed"} /\ faults \in 0..Faults
  /\ r.reh \in {"block", "body", "discarded", "test", "broken", "unbuffered"}
  /\ r.weh \in {"none", "phases", "writer", "empty", "broken", "terminate"}

(* What the client wrote and nobody has looked at yet. *)
Unread == buf \o net \o (IF peer = "open" THEN todo ELSE <<>>)
NextIs(ks) == Unread # <<>> => Head(Unread).k \in ks

(* The bytes of a body are never taken for a request and the bytes of a     *)
(* request never for a body: whenever the worker is about to parse a        *)
(* request line, the first byte nobody has looked at begins one, and while  *)
(* it reads a body, exactly r.rest units of it are left.                    *)
FramingKept ==
  c.open /\ peer # "reset" =>
    /\ c.handler \in {"wait", "keepalive", "line"} /\ stack = <<>> => NextIs({"part", "line"})
    /\ c.handler = "headers" /\ stack = <<>> => NextIs({"hdr", "head"})
    /\ r.live /\ r.rest > 0 /\ c.handler = "request" =>
         \A i \in 1..Min2(r.rest, Len(Unread)) : Unread[i] = Unit("body", r.q)

(* What brings the worker back to the connection: a timer, an event in the  *)
(* queue, or an upstream request, which has timers of its own.              *)
Attended == c.rtimer \/ c.wtimer \/ c.posted \/ r.later

(* The one state in which it is: the client closed its end before the body  *)
(* was complete, and the discarding that a first call took for finished was *)
(* begun again by the special response.                                     *)
Forgotten == AtRest /\ c.eof /\ r.discard_body /\ r.weh = "empty"

(* In every other state an open connection at rest is attended. *)
AbandonedOnlyAtEof == AtRest => Attended \/ Forgotten

(* With edge-triggered events bytes that arrived are reported once.  When   *)
(* the worker rests and its handler is one that would read, either a report *)
(* is due or there is nothing to read.                                      *)
NoLostEdge ==
  AtRest /\ (net # <<>> \/ peer # "open")
    /\ (c.handler # "request" \/ r.reh \in {"body", "discarded", "unbuffered"})
    => edge \/ c.posted \/ c.eof \/ c.error

(* The count of references is exact at rest: the request is held by the     *)
(* answer that is still to come or to be sent and by a body that is still   *)
(* discarded, and by nothing else.                                          *)
CountExact ==
  AtRest /\ r.live /\ c.handler = "request" =>
    r.count = (IF r.discard_body THEN 1 ELSE 0)
            + (IF r.later \/ r.reh = "body" \/ r.weh = "writer" THEN 1 ELSE 0)

(* Every connection is closed in the end, whatever the client does: by the  *)
(* client, after its last request, or by a timer (or it is Forgotten).      *)
EventuallyClosed == <>(~c.open \/ Forgotten)

(* Whenever the worker rests, the connection has something that ends it,    *)
(* nothing that arrived is forgotten and the references are counted.        *)
RestSound == TypeOK /\ AbandonedOnlyAtEof /\ NoLostEdge /\ CountExact


=============================================================================
