------------------------------ MODULE Request ------------------------------
(***************************************************************************)
(* An HTTP request and its subrequests from the content handler to the last *)
(* byte (http/ngx_http_request.c, ngx_http_core_module.c, the postpone, the *)
(* copy and the write filter): subrequests that run at the same time and    *)
(* whose output appears in the order of the document, posted requests, the  *)
(* references that keep the main request, asynchronous file reads, upstream *)
(* requests with their cleanup, error pages, and the abnormal end.          *)
(*                                                                          *)
(* As in HttpConnection, stack holds what the worker still has to run and   *)
(* rc the last value returned; a frame is [f, r, v]: a function, its        *)
(* request and an argument.                                                 *)
(***************************************************************************)
EXTENDS Integers, SequencesExt

CONSTANTS
  N,        \* the requests are 1..N and 1 is the main request
  Plans,    \* what the content handlers do: functions 1..N -> steps
  Blocks    \* how often the client's socket may be full

ASSUME RequestAssumption == N \in Nat \ {0} /\ Blocks \in Nat

VARIABLES
  plan,      \* the steps of each content handler
  q,         \* the requests
  data,      \* c->data: the request whose output is sent
  count,     \* r->main->count
  blocked,   \* r->main->blocked
  posted,    \* r->main->posted_requests
  out,       \* r->main->out, the chain of the write filter
  c,         \* the connection: open, error, eof, gone (the client), timers
  sent,      \* what the client got
  doc,       \* what each request produced, in order (history)
  stack, rc,
  full,      \* how often the socket was full
  freed,     \* how often the main request was freed (history)
  ended      \* how the abnormal end went (history): "no", "posted", "deferred" by
             \* the request's own read, "crossed" by the read of another request

vars == <<plan, q, data, count, blocked, posted, out, c, sent, doc, stack, rc, full, freed, ended>>

Ids == 1..N
Main == 1
None == 0
Page == 99
NoItem == <<>>

\* an item of output: the k-th buffer of request i, or the place of subrequest i
Item(i, k) == <<i, k>>
Place(i) == <<i, 0>>
IsPlace(d) == d[2] = 0
Frame(f, i, v) == [f |-> f, r |-> i, v |-> v]

NewRequest(p) ==
  [made |-> TRUE, parent |-> p, weh |-> "handler", postponed |-> <<>>, cin |-> <<>>,
   read |-> FALSE, aio |-> FALSE, up |-> FALSE, next |-> 0, testing |-> FALSE,
   redirected |-> FALSE, done |-> FALSE]

Init ==
  /\ plan \in Plans
  /\ q = [i \in Ids |-> IF i = Main THEN [NewRequest(None) EXCEPT !.weh = "empty"]
                        ELSE [NewRequest(None) EXCEPT !.made = FALSE]]
  /\ data = Main /\ count = 1 /\ blocked = 0 /\ posted = <<>> /\ out = <<>>
  /\ c = [open |-> TRUE, error |-> FALSE, eof |-> FALSE, gone |-> FALSE,
          wtimer |-> FALSE, wtimedout |-> FALSE, buffered |-> FALSE]
  /\ sent = <<>> /\ doc = [i \in Ids |-> <<>>]
  /\ stack = <<Frame("run", Main, 1), Frame("posted", Main, 0)>> /\ rc = "OK"
  /\ full = 0 /\ freed = 0 /\ ended = "no"

-----------------------------------------------------------------------------
Top(f) == stack # <<>> /\ Head(stack).f = f
R == Head(stack).r
V == Head(stack).v
Return == stack' = Tail(stack)
Call(fs) == stack' = fs \o Tail(stack)
Finalize(i, v) == Frame("finalize", i, v)

(* ngx_http_post_request() *)
PostRequest(p, i) == Append(p, i)

-----------------------------------------------------------------------------
(* The content handler of a request, step by step. *)
Steps(i) == plan[i]
Step == Steps(R)[V]

\* the k-th buffer of request i in the document
InDocument(i, k) == IF Steps(i)[k].do = "sub" THEN Place(Steps(i)[k].of) ELSE Item(i, k)

(* ... it hands a buffer to the filters: memory, a file that a thread must  *)
(* read, or a directive that includes a subrequest                          *)
HandlerOutputs ==
  /\ Top("run") /\ V <= Len(Steps(R)) /\ rc # "ERROR" /\ Step.do \in {"out", "file", "sub"}
  /\ doc' = [doc EXCEPT ![R] = Append(@, InDocument(R, V))]
  /\ Call(<<Frame("copy", R, Item(R, V)), Frame("run", R, V + 1)>>)
  /\ UNCHANGED <<plan, q, data, count, blocked, posted, out, c, sent, rc, full, freed, ended>>

(* ... it starts an upstream request and returns NGX_DONE: the reference of *)
(* ngx_http_read_client_request_body() is dropped by the NGX_DONE           *)
HandlerStartsUpstream ==
  /\ Top("run") /\ V <= Len(Steps(R)) /\ rc # "ERROR" /\ Step.do = "up"
  /\ q' = [q EXCEPT ![R].up = TRUE, ![R].weh = "up", ![R].next = V + 1]
  /\ count' = count + 1
  /\ Call(<<Finalize(R, "DONE")>>)
  /\ UNCHANGED <<plan, data, blocked, posted, out, c, sent, doc, rc, full, freed, ended>>

(* ... it ends: ngx_http_core_content_phase() finalizes with what it        *)
(* returned                                                                 *)
HandlerReturns ==
  /\ Top("run")
  /\ \/ /\ rc = "ERROR" /\ Call(<<Finalize(R, "ERROR")>>)
     \/ /\ rc # "ERROR" /\ V > Len(Steps(R)) /\ Call(<<Finalize(R, "OK")>>)
     \/ /\ rc # "ERROR" /\ V <= Len(Steps(R)) /\ Step.do \in {"404", "ERROR"}
        /\ Call(<<Finalize(R, Step.do)>>)
  /\ rc' = "OK"
  /\ UNCHANGED <<plan, q, data, count, blocked, posted, out, c, sent, doc, full, freed, ended>>

-----------------------------------------------------------------------------
(* The copy filter: buffers of a file wait for the thread that reads them,  *)
(* and what follows waits behind them.                                      *)
IsFile(i, d) == d[2] # Page /\ Steps(i)[d[2]].do = "file"

IsInclude(i, d) == d[2] # Page /\ Steps(i)[d[2]].do = "sub"

(* ngx_http_copy_filter() takes a buffer, or goes on with those it has *)
CopyFilter ==
  /\ Top("copy")
  /\ q' = [q EXCEPT ![R].cin = IF V = NoItem THEN @ ELSE Append(@, V)]
  /\ Call(<<Frame("chain", R, q'[R].cin = <<>>)>>)
  /\ UNCHANGED <<plan, data, count, blocked, posted, out, c, sent, doc, rc, full, freed, ended>>

(* ngx_output_chain(): a read is under way *)
ChainBusy ==
  /\ Top("chain") /\ q[R].aio
  /\ rc' = "AGAIN" /\ Return
  /\ UNCHANGED <<plan, q, data, count, blocked, posted, out, c, sent, doc, full, freed, ended>>

(* ... the next buffer is of a file: ngx_http_copy_thread_handler() *)
ChainReads ==
  /\ Top("chain") /\ ~q[R].aio /\ q[R].cin # <<>>
  /\ IsFile(R, Head(q[R].cin)) /\ ~q[R].read
  /\ blocked' = blocked + 1 /\ q' = [q EXCEPT ![R].aio = TRUE]
  /\ rc' = "AGAIN" /\ Return
  /\ UNCHANGED <<plan, data, count, posted, out, c, sent, doc, full, freed, ended>>

(* ... a buffer that is in memory goes on *)
ChainPasses ==
  /\ Top("chain") /\ ~q[R].aio /\ q[R].cin # <<>>
  /\ IsFile(R, Head(q[R].cin)) => q[R].read
  /\ q' = [q EXCEPT ![R].cin = Tail(@), ![R].read = FALSE]
  /\ Call(<<Frame(IF IsInclude(R, Head(q[R].cin)) THEN "subrequest" ELSE "postpone",
                  R, Head(q[R].cin)), Frame("chain", R, FALSE)>>)
  /\ UNCHANGED <<plan, data, count, blocked, posted, out, c, sent, doc, rc, full, freed, ended>>

(* ... nothing is left; with nothing from the start the filters below are   *)
(* called for what they still hold                                          *)
ChainEnds ==
  /\ Top("chain") /\ ~q[R].aio /\ q[R].cin = <<>>
  /\ Call(IF V THEN <<Frame("postpone", R, NoItem)>> ELSE <<>>)
  /\ UNCHANGED <<plan, q, data, count, blocked, posted, out, c, sent, doc, rc, full, freed, ended>>

(* ngx_http_copy_thread_event_handler(): the write handler of the           *)
(* connection, that is of the request in c->data                            *)
AioDone(i) ==
  /\ stack = <<>> /\ c.open /\ q[i].aio
  /\ q' = [q EXCEPT ![i].aio = FALSE, ![i].read = TRUE]
  /\ blocked' = blocked - 1
  /\ stack' = <<Frame("weh", data, 0), Frame("posted", Main, 0)>>
  /\ rc' = "OK"
  /\ UNCHANGED <<plan, data, count, posted, out, c, sent, doc, full, freed, ended>>

-----------------------------------------------------------------------------
Included == Steps(R)[V[2]].of

(* A filter below the copy filter meets the directive and creates the       *)
(* subrequest: ngx_http_subrequest()                                        *)
Subrequest ==
  /\ Top("subrequest")
  /\ data' = IF data = R /\ q[R].postponed = <<>> THEN Included ELSE data
  /\ q' = [q EXCEPT ![R].postponed = Append(@, Place(Included)),
                    ![Included] = NewRequest(R)]
  /\ count' = count + 1
  /\ posted' = PostRequest(posted, Included)
  /\ Return
  /\ UNCHANGED <<plan, blocked, out, c, sent, doc, rc, full, freed, ended>>

(* ngx_http_postpone_filter_add(): to the last entry if that is not a       *)
(* subrequest; an entry holds one buffer here, so the order is the same     *)
PostponeAdd(p, d) == Append(p, d)

(* Mutant: a request that is not in turn sends at once. *)
PostponeOtherSends ==
  /\ Top("postpone") /\ R # data
  /\ Call(IF V = NoItem THEN <<>> ELSE <<Frame("write", Main, V)>>)
  /\ UNCHANGED <<plan, q, data, count, blocked, posted, out, c, sent, doc, rc, full, freed, ended>>

(* ngx_http_postpone_filter(): not this request's turn *)
PostponeOther ==
  /\ Top("postpone") /\ R # data
  /\ q' = [q EXCEPT ![R].postponed = IF V = NoItem THEN @ ELSE PostponeAdd(@, V)]
  /\ rc' = "OK" /\ Return
  /\ UNCHANGED <<plan, data, count, blocked, posted, out, c, sent, doc, full, freed, ended>>

(* ... nothing is before it *)
PostponeNothing ==
  /\ Top("postpone") /\ R = data /\ q[R].postponed = <<>>
  /\ Call(IF V # NoItem \/ c.buffered THEN <<Frame("write", Main, V)>> ELSE <<>>)
  /\ rc' = "OK"
  /\ UNCHANGED <<plan, q, data, count, blocked, posted, out, c, sent, doc, full, freed, ended>>

(* ... what it produced before goes first, up to the next subrequest, which *)
(* is then in turn and is posted                                            *)
PostponeDrains ==
  /\ Top("postpone") /\ R = data /\ q[R].postponed # <<>>
  /\ LET p == IF V = NoItem THEN q[R].postponed ELSE PostponeAdd(q[R].postponed, V)
     IN IF IsPlace(Head(p))
        THEN /\ q' = [q EXCEPT ![R].postponed = Tail(p)]
             /\ data' = Head(p)[1]
             /\ posted' = PostRequest(posted, Head(p)[1])
             /\ rc' = "OK" /\ Return
        ELSE /\ q' = [q EXCEPT ![R].postponed = p]
             /\ Call(<<Frame("write", Main, Head(p)), Frame("drain", R, NoItem)>>)
             /\ UNCHANGED <<data, posted, rc>>
  /\ UNCHANGED <<plan, count, blocked, out, c, sent, doc, full, freed, ended>>

DrainGoesOn ==
  /\ Top("drain")
  /\ IF rc = "ERROR"
     THEN Return /\ UNCHANGED <<q, rc>>
     ELSE /\ q' = [q EXCEPT ![R].postponed = Tail(@)]
          /\ Call(IF Len(q[R].postponed) > 1 THEN <<Frame("postpone", R, NoItem)>> ELSE <<>>)
          /\ rc' = "OK"
  /\ UNCHANGED <<plan, data, count, blocked, posted, out, c, sent, doc, full, freed, ended>>

(* ngx_http_write_filter(): the socket takes everything, or a part, or      *)
(* send() fails because the client is gone                                  *)
WriteFilter ==
  /\ Top("write")
  /\ LET chain == IF V = NoItem THEN out ELSE Append(out, V)
     IN \/ /\ c.error \/ c.gone
           /\ c' = [c EXCEPT !.error = TRUE] /\ rc' = "ERROR"
           /\ UNCHANGED <<out, sent, full>>
        \/ /\ ~c.error /\ ~c.gone
           /\ out' = <<>> /\ sent' = sent \o chain
           /\ c' = [c EXCEPT !.buffered = FALSE] /\ rc' = "OK" /\ UNCHANGED full
        \/ /\ ~c.error /\ ~c.gone /\ full < Blocks /\ full' = full + 1 /\ chain # <<>>
           /\ out' = chain
           /\ c' = [c EXCEPT !.buffered = TRUE] /\ rc' = "AGAIN" /\ UNCHANGED sent
  /\ Return
  /\ UNCHANGED <<plan, q, data, count, blocked, posted, doc, freed, ended>>

-----------------------------------------------------------------------------
(* The events of the worker at rest. *)
AtRest == stack = <<>> /\ c.open

WriteEvent ==
  /\ AtRest /\ c.buffered
  /\ stack' = <<Frame("weh", data, 0), Frame("posted", Main, 0)>> /\ rc' = "OK"
  /\ UNCHANGED <<plan, q, data, count, blocked, posted, out, c, sent, doc, full, freed, ended>>

WriteTimer ==
  /\ AtRest /\ c.wtimer
  /\ c' = [c EXCEPT !.wtimer = FALSE, !.wtimedout = TRUE]
  /\ stack' = <<Frame("weh", data, 0), Frame("posted", Main, 0)>> /\ rc' = "OK"
  /\ UNCHANGED <<plan, q, data, count, blocked, posted, out, sent, doc, full, freed, ended>>

ClientLeaves ==
  /\ AtRest /\ ~c.gone
  /\ c' = [c EXCEPT !.gone = TRUE]
  /\ UNCHANGED <<plan, q, data, count, blocked, posted, out, sent, doc, stack, rc, full, freed, ended>>

(* The read event of the connection: ngx_http_test_reading() once a writer  *)
(* was set, ngx_http_upstream_check_broken_connection() of an upstream      *)
(* request, which finalizes with NGX_DONE if the upstream request has been  *)
(* finalized already; the other read handlers do nothing.                   *)
TestReading ==
  /\ AtRest /\ c.gone /\ ~c.eof /\ (q[data].testing \/ q[data].weh = "up")
  /\ c' = [c EXCEPT !.eof = TRUE, !.error = TRUE]
  /\ q' = [q EXCEPT ![data].up = FALSE]
  /\ stack' = <<Finalize(data, IF q[data].testing \/ q[data].up THEN "499" ELSE "DONE"),
                Frame("posted", Main, 0)>>
  /\ rc' = "OK"
  /\ UNCHANGED <<plan, data, count, blocked, posted, out, sent, doc, full, freed, ended>>

(* The upstream server sends the next part, or the last one was sent.       *)
UpstreamEvent(i) ==
  /\ AtRest /\ q[i].up
  /\ LET k == q[i].next
     IN IF k <= Len(Steps(i))
        THEN /\ doc' = [doc EXCEPT ![i] = Append(@, InDocument(i, k))]
             /\ q' = [q EXCEPT ![i].next = k + 1]
             /\ stack' = <<Frame("copy", i, Item(i, k)), Frame("upout", i, 0),
                           Frame("posted", Main, 0)>>
        ELSE /\ q' = [q EXCEPT ![i].up = FALSE]
             /\ stack' = <<Finalize(i, "OK"), Frame("posted", Main, 0)>>
             /\ UNCHANGED doc
  /\ rc' = "OK"
  /\ UNCHANGED <<plan, data, count, blocked, posted, out, c, sent, full, freed, ended>>

(* ngx_http_upstream_process_request(): the client cannot be written to;    *)
(* the pipe sets the write timer of the connection if it is its turn        *)
UpstreamOutput ==
  /\ Top("upout")
  /\ IF rc = "ERROR"
     THEN /\ q' = [q EXCEPT ![R].up = FALSE]
          /\ Call(IF q[R].up THEN <<Finalize(R, "ERROR")>> ELSE <<>>)
          /\ UNCHANGED c
     ELSE /\ c' = [c EXCEPT !.wtimer = IF data = R THEN c.buffered ELSE @]
          /\ Return /\ UNCHANGED q
  /\ rc' = "OK"
  /\ UNCHANGED <<plan, data, count, blocked, posted, out, sent, doc, full, freed, ended>>

-----------------------------------------------------------------------------
(* r->write_event_handler(r) *)
WriteEventHandler ==
  /\ Top("weh")
  /\ Call(CASE q[R].weh = "handler"   -> <<Frame("run", R, 1)>>
            [] q[R].weh = "writer"    -> <<Frame("writer", R, 0)>>
            [] q[R].weh = "finalizer" -> <<Finalize(R, "OK")>>
            [] q[R].weh = "terminate" -> <<Frame("terminate_handler", R, 0)>>
            [] q[R].weh = "up"        -> <<Frame("downstream", R, 0)>>
            [] q[R].weh = "empty"     -> <<>>)
  /\ q' = [q EXCEPT ![R].weh = IF @ = "handler" THEN "empty" ELSE @]
  /\ UNCHANGED <<plan, data, count, blocked, posted, out, c, sent, doc, rc, full, freed, ended>>

(* ngx_http_upstream_process_downstream() *)
ProcessDownstream ==
  /\ Top("downstream")
  /\ Call(IF c.wtimedout THEN <<Frame("upout", R, 0)>>
          ELSE <<Frame("copy", R, NoItem), Frame("upout", R, 0)>>)
  /\ rc' = IF c.wtimedout THEN "ERROR" ELSE rc
  /\ UNCHANGED <<plan, q, data, count, blocked, posted, out, c, sent, doc, full, freed, ended>>

(* ngx_http_writer() *)
Writer ==
  /\ Top("writer")
  /\ CASE c.wtimedout -> Call(<<Finalize(R, "408")>>)
       [] ~c.wtimedout /\ q[R].aio -> Return
       [] OTHER -> Call(<<Frame("copy", R, NoItem), Frame("written", R, 0)>>)
  /\ UNCHANGED <<plan, q, data, count, blocked, posted, out, c, sent, doc, rc, full, freed, ended>>

Buffered(i) == q[i].cin # <<>> \/ q[i].aio

Written ==
  /\ Top("written")
  /\ rc' = "OK"
  /\ CASE rc = "ERROR" -> Call(<<Finalize(R, "ERROR")>>) /\ UNCHANGED <<q, c>>
       [] rc # "ERROR" /\ (Buffered(R) \/ q[R].postponed # <<>> \/ (R = Main /\ c.buffered)) ->
            c' = [c EXCEPT !.wtimer = TRUE] /\ Return /\ UNCHANGED q
       [] OTHER -> /\ q' = [q EXCEPT ![R].weh = "empty"]
                   /\ Call(<<Finalize(R, "OK")>>) /\ UNCHANGED c
  /\ UNCHANGED <<plan, data, count, blocked, posted, out, sent, doc, full, freed, ended>>

(* ngx_http_run_posted_requests() *)
RunPostedRequests ==
  /\ Top("posted")
  /\ IF c.open /\ posted # <<>>
     THEN /\ posted' = Tail(posted)
          /\ Call(<<Frame("weh", Head(posted), 0), Frame("posted", Main, 0)>>)
          /\ rc' = "OK"
     ELSE Return /\ UNCHANGED <<posted, rc>>
  /\ UNCHANGED <<plan, q, data, count, blocked, out, c, sent, doc, full, freed, ended>>

-----------------------------------------------------------------------------
(* ngx_http_finalize_request() *)
FinalizeDone ==
  /\ Top("finalize") /\ V = "DONE"
  /\ Call(<<Frame("finalize_connection", R, 0)>>)
  /\ UNCHANGED <<plan, q, data, count, blocked, posted, out, c, sent, doc, rc, full, freed, ended>>

Fatal(v) == v \in {"ERROR", "408", "499"} \/ c.error

FinalizeFatal ==
  /\ Top("finalize") /\ V # "DONE" /\ Fatal(V)
  /\ q' = [q EXCEPT ![R].weh = IF blocked > 0 THEN "finalizer" ELSE @]
  /\ Call(<<Frame("terminate", R, 0)>>)
  /\ UNCHANGED <<plan, data, count, blocked, posted, out, c, sent, doc, rc, full, freed, ended>>

(* ... a special response: an error page of the location by an internal     *)
(* redirect (ngx_http_send_error_page(), ngx_http_internal_redirect()), ... *)
FinalizeRedirects ==
  /\ Top("finalize") /\ V = "404" /\ ~c.error /\ ~q[R].redirected
  /\ c' = [c EXCEPT !.wtimer = @ /\ R # Main]
  /\ q' = [q EXCEPT ![R].redirected = TRUE, ![R].weh = "empty"]
  /\ count' = count + 1
  /\ doc' = [doc EXCEPT ![R] = Append(@, Item(R, Page))]
  /\ Call(<<Frame("copy", R, Item(R, Page)), Frame("ended", R, 0), Finalize(R, "DONE")>>)
  /\ UNCHANGED <<plan, data, blocked, posted, out, sent, rc, full, freed, ended>>

(* ... or the page of ngx_http_send_special_response() *)
FinalizeSpecial ==
  /\ Top("finalize") /\ V = "404" /\ ~c.error
  /\ c' = [c EXCEPT !.wtimer = @ /\ R # Main]
  /\ doc' = [doc EXCEPT ![R] = Append(@, Item(R, Page))]
  /\ Call(<<Frame("copy", R, Item(R, Page)), Frame("ended", R, 0)>>)
  /\ UNCHANGED <<plan, q, data, count, blocked, posted, out, sent, rc, full, freed, ended>>

Ended ==
  /\ Top("ended")
  /\ Call(<<Finalize(R, IF rc = "ERROR" THEN "ERROR" ELSE "OK")>>)
  /\ rc' = "OK"
  /\ UNCHANGED <<plan, q, data, count, blocked, posted, out, c, sent, doc, full, freed, ended>>

(* ngx_http_set_write_handler() *)
SetWriteHandler(i) ==
  /\ q' = [q EXCEPT ![i].weh = "writer", ![i].testing = TRUE]
  /\ c' = [c EXCEPT !.wtimer = TRUE]

Fine(v) == v = "OK" /\ ~c.error

(* ... a subrequest that has output left *)
FinalizeSubBuffered ==
  /\ Top("finalize") /\ Fine(V) /\ R # Main
  /\ Buffered(R) \/ q[R].postponed # <<>>
  /\ SetWriteHandler(R)
  /\ Return
  /\ UNCHANGED <<plan, data, count, blocked, posted, out, sent, doc, rc, full, freed, ended>>

(* Mutant: the parent is not woken up. *)
FinalizeSubActiveSilently ==
  /\ Top("finalize") /\ Fine(V) /\ R # Main /\ R = data
  /\ ~Buffered(R) /\ q[R].postponed = <<>>
  /\ count' = count - 1
  /\ LET p == q[R].parent
     IN /\ q' = [q EXCEPT ![R].done = TRUE,
                          ![p].postponed = IF @ # <<>> /\ Head(@) = Place(R) THEN Tail(@) ELSE @]
        /\ data' = p
  /\ Return
  /\ UNCHANGED <<plan, blocked, posted, out, c, sent, doc, rc, full, freed, ended>>

(* ... a subrequest in turn is done, and the parent goes on *)
FinalizeSubActive ==
  /\ Top("finalize") /\ Fine(V) /\ R # Main /\ R = data
  /\ ~Buffered(R) /\ q[R].postponed = <<>>
  /\ count' = count - 1
  /\ LET p == q[R].parent
     IN /\ q' = [q EXCEPT ![R].done = TRUE,
                          ![p].postponed = IF @ # <<>> /\ Head(@) = Place(R) THEN Tail(@) ELSE @]
        /\ data' = p
        /\ posted' = PostRequest(posted, p)
  /\ Return
  /\ UNCHANGED <<plan, blocked, out, c, sent, doc, rc, full, freed, ended>>

(* ... a subrequest that is not in turn is finalized again when it is *)
FinalizeSubWaits ==
  /\ Top("finalize") /\ Fine(V) /\ R # Main /\ R # data
  /\ ~Buffered(R) /\ q[R].postponed = <<>>
  /\ q' = [q EXCEPT ![R].weh = "finalizer"]
  /\ posted' = PostRequest(posted, q[R].parent)
  /\ Return
  /\ UNCHANGED <<plan, data, count, blocked, out, c, sent, doc, rc, full, freed, ended>>

MainUnsent == Buffered(Main) \/ c.buffered \/ q[Main].postponed # <<>> \/ blocked > 0

(* ... the main request has output left *)
FinalizeMainBuffered ==
  /\ Top("finalize") /\ Fine(V) /\ R = Main
  /\ MainUnsent
  /\ SetWriteHandler(R)
  /\ Return
  /\ UNCHANGED <<plan, data, count, blocked, posted, out, sent, doc, rc, full, freed, ended>>

(* ... everything was sent.  That the request is in turn now is what the    *)
(* alert "http finalize non-active request" relies on: there is no step for *)
(* another case.                                                            *)
FinalizeMainComplete ==
  /\ Top("finalize") /\ Fine(V) /\ R = Main /\ R = data
  /\ ~MainUnsent
  /\ q' = [q EXCEPT ![R].weh = "empty", ![R].done = TRUE]
  /\ c' = [c EXCEPT !.wtimer = FALSE]
  /\ Call(<<Frame("finalize_connection", R, 0)>>)
  /\ UNCHANGED <<plan, data, count, blocked, posted, out, sent, doc, rc, full, freed, ended>>

(* ngx_http_finalize_connection(): the last reference ends the request; the *)
(* connection is kept, lingers or is closed (HttpConnection)                *)
FinalizeConnection ==
  /\ Top("finalize_connection")
  /\ IF count # 1
     THEN Call(<<Frame("close_request", Main, 0)>>) /\ UNCHANGED <<freed, c>>
     ELSE /\ freed' = freed + 1 /\ c' = [c EXCEPT !.open = FALSE] /\ Return
  /\ UNCHANGED <<plan, q, data, count, blocked, posted, out, sent, doc, rc, full, ended>>

(* ngx_http_close_request() *)
CloseRequest ==
  /\ Top("close_request")
  /\ count' = count - 1
  /\ IF count' # 0 \/ blocked > 0
     THEN UNCHANGED <<freed, c>>
     ELSE freed' = freed + 1 /\ c' = [c EXCEPT !.open = FALSE]
  /\ Return
  /\ UNCHANGED <<plan, q, data, blocked, posted, out, sent, doc, rc, full, ended>>

(* ngx_http_terminate_request(): the cleanups end the upstream requests,    *)
(* each with NGX_DONE (ngx_http_upstream_cleanup()), ...                    *)
\* Mutant: an upstream request registers no cleanup.
NoUps == {}

Ups == {i \in Ids : q[i].up}

TerminateCleanup ==
  /\ Top("terminate") /\ Ups # {}
  /\ \E i \in Ups :
       /\ q' = [q EXCEPT ![i].up = FALSE]
       /\ stack' = <<Finalize(i, "DONE")>> \o stack
  /\ UNCHANGED <<plan, data, count, blocked, posted, out, c, sent, doc, rc, full, freed, ended>>

(* ... then the request is closed by a posted request, unless a read is     *)
(* under way                                                                *)
TerminateRequest ==
  /\ Top("terminate") /\ Ups = {}
  /\ IF blocked > 0
     THEN /\ ended' = IF ended = "crossed" \/ \E i \in Ids \ {R} : q[i].aio
                       THEN "crossed" ELSE "deferred"
          /\ UNCHANGED <<q, posted>>
     ELSE /\ posted' = <<Main>> /\ q' = [q EXCEPT ![Main].weh = "terminate"]
          /\ ended' = IF ended = "crossed" THEN "crossed" ELSE "posted"
  /\ Return
  /\ UNCHANGED <<plan, data, count, blocked, out, c, sent, doc, rc, full, freed>>

(* ngx_http_terminate_handler() *)
TerminateHandler ==
  /\ Top("terminate_handler")
  /\ count' = 1
  /\ Call(<<Frame("close_request", Main, 0)>>)
  /\ UNCHANGED <<plan, q, data, blocked, posted, out, c, sent, doc, rc, full, freed, ended>>

-----------------------------------------------------------------------------
Runs ==
  \/ HandlerOutputs \/ Subrequest \/ HandlerStartsUpstream \/ HandlerReturns
  \/ CopyFilter \/ ChainBusy \/ ChainReads \/ ChainPasses \/ ChainEnds
  \/ PostponeOther \/ PostponeNothing \/ PostponeDrains \/ DrainGoesOn \/ WriteFilter
  \/ UpstreamOutput \/ WriteEventHandler \/ ProcessDownstream \/ Writer \/ Written
  \/ RunPostedRequests
  \/ FinalizeDone \/ FinalizeFatal \/ FinalizeRedirects \/ FinalizeSpecial \/ Ended
  \/ FinalizeSubBuffered \/ FinalizeSubActive \/ FinalizeSubWaits
  \/ FinalizeMainBuffered \/ FinalizeMainComplete
  \/ FinalizeConnection \/ CloseRequest
  \/ TerminateCleanup \/ TerminateRequest \/ TerminateHandler

(* The request is over, or nothing wakes it up any more (see NeverHangs).   *)
Closed == stack = <<>> /\ (~c.open \/ ended = "crossed") /\ UNCHANGED vars

Next ==
  \/ Runs
  \/ WriteEvent \/ WriteTimer \/ ClientLeaves \/ TestReading
  \/ \E i \in Ids : AioDone(i) \/ UpstreamEvent(i)
  \/ Closed

(* The worker runs, threads finish their reads, upstream servers answer and *)
(* timers expire; a client need not read what it asked for.                 *)
Fairness ==
  /\ WF_vars(Runs) /\ SF_vars(WriteTimer)
  /\ SF_vars(\E i \in Ids : AioDone(i)) /\ SF_vars(\E i \in Ids : UpstreamEvent(i))

Spec == Init /\ [][Next]_vars /\ Fairness

-----------------------------------------------------------------------------
TypeOK ==
  /\ data \in Ids /\ count \in Nat /\ blocked \in Nat /\ full \in 0..Blocks /\ freed \in Nat
  /\ \A k \in DOMAIN posted : posted[k] \in Ids
  /\ \A i \in Ids : q[i].parent \in 0..N /\ q[i].weh \in
       {"handler", "writer", "finalizer", "terminate", "up", "empty"}

(* The document: each request's output with the output of a subrequest at   *)
(* the place where it was created.                                          *)
Document[i \in Ids] ==
  FlattenSeq([k \in DOMAIN doc[i] |-> IF IsPlace(doc[i][k]) THEN Document[doc[i][k][1]]
                                      ELSE <<doc[i][k]>>])

(* The client gets the document from its start and in its order, whatever   *)
(* the order in which the subrequests, the threads and the upstream servers *)
(* produce it.                                                              *)
OutputOrder == IsPrefix(sent \o out, Document[Main])

(* A request that ends normally has sent its whole document.                *)
OutputComplete == ~c.open /\ q[Main].done => sent = Document[Main]

(* Until the abnormal end resets it, the count of the main request is its   *)
(* own reference and one of every subrequest that is not done.              *)
CountExact ==
  stack = <<>> /\ c.open /\ ended = "no" =>
    count = 1 + Cardinality({i \in Ids \ {Main} : q[i].made /\ ~q[i].done})

(* The main request is freed once, after its last asynchronous operation,   *)
(* and nothing but the test of c->destroyed runs after that.                *)
FreedLast ==
  /\ freed <= 1
  /\ ~c.open => /\ blocked = 0 /\ \A i \in Ids : ~q[i].aio /\ ~q[i].up
                /\ \A k \in DOMAIN stack : stack[k].f = "posted"

(* Every request ends, even if the client reads nothing or left, unless it  *)
(* is terminated while another of its requests waits for a thread.          *)
EventuallyFreed == <>(~c.open \/ ended = "crossed")

(* Every request ends, whichever of its requests waits for a thread.        *)
NeverHangs == <>(~c.open)

(* The client gets the document, in its order, and the whole of it. *)
DocumentKept == OutputOrder /\ OutputComplete

(* The main request counts its subrequests and is freed after all of them.  *)
FreedExact == TypeOK /\ CountExact /\ FreedLast


=============================================================================
