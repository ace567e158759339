-------------------------------- MODULE Http2 --------------------------------
(* What an HTTP/2 connection sends: the queue of output frames, the windows  *)
(* of the connection and of its streams, the queues of streams that wait for *)
(* a window or for the socket, and the end of streams and of the connection  *)
(* (ngx_http_v2.c and ngx_http_v2_filter_module.c).                          *)
(*                                                                           *)
(* Lengths are in units of the smallest frame; a header has length 0, as it  *)
(* takes nothing from a window.  The priorities of streams are fixed (the    *)
(* tree is in Http2Tree), limit_rate and TLS buffers are left out, a request *)
(* has no body (Http2Body).                                                  *)
EXTENDS Integers, Sequences, SequencesExt, FiniteSets

CONSTANTS
  Sids,       \* stream identifiers
  Rank,       \* node->rank of each
  Bodies,     \* lengths of responses, 0 for a response without a body
  FrameSize,  \* the longest frame
  MaxWindow,  \* NGX_HTTP_V2_MAX_WINDOW
  Initial,    \* NGX_HTTP_V2_DEFAULT_WINDOW
  Grants,     \* what a WINDOW_UPDATE may grant
  Settings,   \* values of SETTINGS_INITIAL_WINDOW_SIZE
  MaxFrames   \* how many of these frames a client sends

VARIABLES
  h2c,     \* the connection, with its streams and its queues
  work,    \* the calls of the worker that are not finished
  client   \* the client: gone, frames sent, windows granted

vars == <<h2c, work, client>>

NoStream ==
  [live |-> FALSE, body |-> 0, later |-> FALSE, window |-> 0, queued |-> 0, handled |-> FALSE,
   blocked |-> FALSE, exhausted |-> FALSE, out_closed |-> FALSE, rst_sent |-> FALSE,
   error |-> FALSE, timer |-> FALSE, wh |-> "request", sent |-> 0]

Init ==
  /\ h2c = [open |-> TRUE, error |-> FALSE, wready |-> TRUE, wtimer |-> FALSE, wposted |-> FALSE,
            rtimer |-> TRUE, rposted |-> FALSE, rh |-> "read", wh |-> "write",
            incomplete |-> FALSE, window |-> Initial, init_window |-> Initial,
            blocked |-> FALSE, processing |-> 0, waiting |-> <<>>, posted |-> <<>>,
            out |-> <<>>, streams |-> [s \in Sids |-> NoStream]]
  /\ work = <<>>
  /\ client = [gone |-> FALSE, frames |-> 0, granted |-> Initial,
               limit |-> [s \in Sids |-> 0], opened |-> {}, got |-> 0]

AtRest == work = <<>>
Top(f) == work # <<>> /\ Head(work).f = f
W == Head(work)
Item(f, s) == [f |-> f, s |-> s, ok |-> TRUE, delta |-> 0]
Return == work' = Tail(work)
Call(items) == work' = items \o Tail(work)
Min2(a, b) == IF a < b THEN a ELSE b

-----------------------------------------------------------------------------
(* The queue of output frames; its first frame is h2c->last_out, the one    *)
(* that is sent last.                                                       *)

Frame(s, len, blocked, fin) == [s |-> s, len |-> len, blocked |-> blocked, fin |-> fin]
Control == Frame(0, 0, FALSE, FALSE)
Insert(q, stops(_), f) ==
  LET n == SelectInSeq(q, stops)
      k == IF n = 0 THEN Len(q) ELSE n - 1
  IN SubSeq(q, 1, k) \o <<f>> \o SubSeq(q, k + 1, Len(q))

Without(q, s) == SelectSeq(q, LAMBDA t : t # s)
Lengths(fs) == FoldLeft(LAMBDA n, f : n + f.len, 0, fs)

(* ngx_http_v2_queue_frame() *)
QueueFrame(q, f) ==
  Insert(q, LAMBDA g : g.blocked \/ g.s = 0 \/ Rank[g.s] <= Rank[f.s], f)

(* ngx_http_v2_queue_blocked_frame() *)
QueueBlockedFrame(q, f) == Insert(q, LAMBDA g : g.blocked \/ g.s = 0, f)

(* ngx_http_v2_send_rst_stream() and the other control frames *)
SendControl(H) == [H EXCEPT !.out = QueueBlockedFrame(@, Control)]

(* Mutant: a stream that is on a queue is posted once more. *)
PostableAlways(H, s) == ~H.streams[s].blocked /\ ~H.streams[s].exhausted

(* ngx_http_v2_handle_stream(): posted if it is on no queue and waits       *)
(* neither for its own call to end nor for its window                       *)
Postable(H, s) ==
  ~H.streams[s].handled /\ ~H.streams[s].blocked /\ ~H.streams[s].exhausted

(* ngx_http_v2_headers_frame_handler(), ngx_http_v2_data_frame_handler()    *)
(* and ngx_http_v2_handle_frame() of the frames fs, which were sent, and of *)
(* the streams in begun, of which a part of a frame was                     *)
FramesSent(H, fs, begun) ==
  LET of(s) == SelectSeq(fs, LAMBDA f : f.s = s)
      touched == SelectSeq([k \in 1..Len(fs) |-> fs[k].s] \o begun, LAMBDA s : s # 0)
      posted == FoldLeft(LAMBDA q, s : IF s \in Range(q) \/ ~Postable(H, s) THEN q ELSE Append(q, s),
                         <<>>, touched)
  IN [H EXCEPT !.posted = @ \o posted,
               !.streams = [s \in Sids |->
                  [H.streams[s] EXCEPT !.sent = @ + Lengths(of(s)),
                                       !.out_closed = @ \/ \E f \in Range(of(s)) : f.fin,
                                       !.queued = @ - Len(of(s)),
                                       !.handled = @ \/ s \in Range(posted)]]]

(* ngx_http_v2_send_output_queue() when the socket takes n frames; moved    *)
(* says that some buffers of the next frame were sent too                   *)
OutputSent(H, n, moved) ==
  LET fs == Reverse(H.out)
      rest == SubSeq(fs, n + 1, Len(fs))
  IN [FramesSent(H, SubSeq(fs, 1, n), IF moved THEN <<rest[1].s>> ELSE <<>>) EXCEPT
        !.out = IF rest = <<>> THEN <<>> ELSE Reverse([rest EXCEPT ![1].blocked = TRUE]),
        !.wready = @ /\ rest = <<>>, !.wtimer = rest # <<>>]

(* ... and when it fails: the list of frames was being turned round *)
OutputFailed(H) ==
  [H EXCEPT !.error = TRUE, !.wposted = @ \/ ~H.blocked,
            !.out = IF @ = <<>> THEN @ ELSE <<Head(@)>>]

AfterSend(s, ok) == [Item("after_send", s) EXCEPT !.ok = ok]

SendOutputQueue ==
  /\ Top("send")
  /\ \/ /\ h2c.error \/ ~h2c.wready
        /\ UNCHANGED h2c /\ Call(<<AfterSend(W.s, ~h2c.error)>>)
        /\ UNCHANGED client
     \/ /\ ~h2c.error /\ h2c.wready /\ client.gone
        /\ h2c' = OutputFailed(h2c) /\ Call(<<AfterSend(W.s, FALSE)>>)
        /\ UNCHANGED client
     \/ /\ ~h2c.error /\ h2c.wready /\ ~client.gone
        /\ \E n \in 0..Len(h2c.out), moved \in BOOLEAN :
             /\ moved => n < Len(h2c.out) /\ LET f == Reverse(h2c.out)[n + 1]
                                             IN f.s # 0 /\ f.len > 0
             /\ h2c' = OutputSent(h2c, n, moved)
             /\ client' = [client EXCEPT !.got = @ + Lengths(SubSeq(Reverse(h2c.out), 1, n))]
        /\ Call(<<AfterSend(W.s, TRUE)>>)

-----------------------------------------------------------------------------
(* The end of a stream. *)

(* ngx_http_v2_filter_cleanup(): frames that are not begun are dropped, and *)
(* their window is for others                                               *)
FilterCleanup(H, s) ==
  LET mine(f) == f.s = s /\ ~f.blocked
      dropped == IF H.streams[s].queued = 0 THEN <<>> ELSE SelectSeq(H.out, mine)
      window == Lengths(dropped)
      wakes == H.window = 0 /\ window > 0
      waiting == Without(H.waiting, s)
  IN [H EXCEPT !.streams[s].handled = FALSE,
               !.streams[s].queued = @ - Len(dropped),
               !.out = IF dropped = <<>> THEN @ ELSE SelectSeq(@, LAMBDA f : ~mine(f)),
               !.posted = Without(@, s) \o (IF wakes THEN waiting ELSE <<>>),
               !.waiting = IF wakes THEN <<>> ELSE waiting,
               !.window = @ + window]

(* ngx_http_v2_close_stream(): not before its last frame has left; a stream *)
(* that was not ended is reset, and with the last stream the connection is  *)
(* looked at                                                                *)
CloseStream(H, s) ==
  IF H.streams[s].queued > 0 THEN [H EXCEPT !.streams[s].wh = "close"]
  ELSE LET reset == ~H.streams[s].rst_sent /\ ~H.error /\ ~H.streams[s].out_closed
           G == FilterCleanup(IF reset THEN SendControl(H) ELSE H, s)
           last == G.processing = 1 /\ ~G.blocked
       IN [G EXCEPT !.streams[s] = NoStream, !.processing = @ - 1,
                    !.rh = IF last THEN "handle" ELSE @, !.rposted = @ \/ last]

(* ngx_http_terminate_request() and ngx_http_close_request() for a stream *)
TerminateRequest ==
  /\ Top("terminate")
  /\ \E H \in {FilterCleanup(h2c, W.s)} : h2c' = CloseStream(H, W.s)
  /\ Return
  /\ UNCHANGED client

(* ngx_http_v2_close_stream_handler() *)
CloseStreamHandler ==
  /\ Top("close")
  /\ h2c' = CloseStream(h2c, W.s) /\ Return
  /\ UNCHANGED client

(* ngx_http_v2_terminate_stream(), before it calls the handler of the       *)
(* request                                                                  *)
ResetStream(H, s) ==
  [SendControl(H) EXCEPT !.streams[s].rst_sent = TRUE, !.streams[s].error = TRUE]

-----------------------------------------------------------------------------
(* What a stream sends. *)

(* ngx_http_v2_waiting_queue() *)
WaitingQueue(H, s) ==
  IF H.streams[s].handled THEN H
  ELSE LET n == SelectLastInSeq(H.waiting, LAMBDA t : Rank[t] <= Rank[s])
       IN [H EXCEPT !.streams[s].handled = TRUE,
                    !.waiting = SubSeq(@, 1, n) \o <<s>> \o SubSeq(@, n + 1, Len(@))]

(* ngx_http_v2_flow_control() *)
Declined(H, s) == H.streams[s].window <= 0 \/ H.window = 0
FlowControl(H, s) ==
  IF H.streams[s].window <= 0 THEN [H EXCEPT !.streams[s].exhausted = TRUE]
  ELSE IF H.window = 0 THEN WaitingQueue(H, s) ELSE H

(* ngx_http_v2_create_headers_frame() and the end of                        *)
(* ngx_http_v2_header_filter()                                              *)
HeaderFilter ==
  /\ Top("header")
  /\ h2c' = [h2c EXCEPT !.out = QueueBlockedFrame(@, Frame(W.s, 0, TRUE, h2c.streams[W.s].body = 0)),
                        !.streams[W.s].queued = 1, !.streams[W.s].later = FALSE,
                        !.streams[W.s].blocked = TRUE]
  /\ Call(<<Item("send", W.s), Item("writer", W.s)>>)
  /\ UNCHANGED client

(* The frames of ngx_http_v2_send_chain(), made by                          *)
(* ngx_http_v2_filter_get_data_frame(): as long as both windows allow       *)
DataFrames(H, s) ==
  LET total == Min2(Min2(H.window, H.streams[s].window), H.streams[s].body)
      count == (total + FrameSize - 1) \div FrameSize
      length(k) == IF k < count THEN FrameSize ELSE total - FrameSize * (count - 1)
      fs == [k \in 1..count |-> Frame(s, length(k), FALSE, k = count /\ total = H.streams[s].body)]
  IN [H EXCEPT !.out = FoldLeft(QueueFrame, @, fs),
               !.window = @ - total,
               !.streams[s].window = @ - total,
               !.streams[s].body = @ - total,
               !.streams[s].queued = @ + count,
               !.streams[s].blocked = TRUE]

(* ngx_http_writer(), or the first call of the output filters: an error     *)
(* ends the request, and so does the last frame that was sent               *)
Writer ==
  /\ Top("writer")
  /\ LET s == W.s
         st == h2c.streams[s]
     IN \/ /\ ~st.live \/ st.later
           /\ UNCHANGED h2c /\ Return
        \/ /\ st.live /\ ~st.later /\ st.error
           /\ UNCHANGED h2c /\ Call(<<Item("terminate", s)>>)
        \/ /\ st.live /\ ~st.later /\ ~st.error /\ st.body = 0
           /\ h2c' = IF st.queued > 0 THEN [h2c EXCEPT !.streams[s].timer = TRUE]
                     ELSE CloseStream(h2c, s)
           /\ Return
        \/ /\ st.live /\ ~st.later /\ ~st.error /\ st.body > 0 /\ Declined(h2c, s)
           /\ h2c' = [FlowControl(h2c, s) EXCEPT !.streams[s].timer = TRUE] /\ Return
        \/ /\ st.live /\ ~st.later /\ ~st.error /\ st.body > 0 /\ ~Declined(h2c, s)
           /\ h2c' = DataFrames(h2c, s)
           /\ Call(<<Item("send", s), Item("writer", s)>>)
  /\ UNCHANGED client

(* The end of ngx_http_v2_filter_send(), and of the callers that send for   *)
(* the connection: 0 is finalized on an error, -1 does not look             *)
AfterSending ==
  /\ Top("after_send")
  /\ IF W.s > 0
     THEN /\ h2c' = [h2c EXCEPT !.streams[W.s].error = @ \/ ~W.ok, !.streams[W.s].blocked = ~W.ok]
          /\ Return
     ELSE /\ IF W.ok \/ W.s = -1 THEN Return ELSE work' = <<Item("finalize", 0)>>
          /\ UNCHANGED h2c
  /\ UNCHANGED client

-----------------------------------------------------------------------------
(* The handlers of the connection.  A frame is read when the worker waits   *)
(* or has just read another one.                                            *)

Reads == work \in {<<>>, <<Item("read_end", 0)>>} /\ h2c.open /\ h2c.rh \in {"read", "idle"}
Busy(H) == [H EXCEPT !.blocked = TRUE, !.rh = "read", !.wh = "write", !.incomplete = FALSE]
ReadThen(items) == work' = items \o <<Item("read_end", 0)>>

\* the client's frames are bounded
Spends == client.frames < MaxFrames /\ ~client.gone

(* ngx_http_v2_state_headers() and ngx_http_v2_create_stream(): the request *)
(* answers at once, or later when its upstream server does                  *)
OpenStream(s) ==
  /\ Reads /\ ~client.gone /\ s \notin client.opened
  /\ \E n \in Bodies, later \in BOOLEAN :
       /\ h2c' = [Busy(h2c) EXCEPT !.processing = @ + 1,
                    !.streams[s] = [NoStream EXCEPT !.live = TRUE, !.body = n, !.later = later,
                                                    !.window = h2c.init_window]]
       /\ ReadThen(IF later THEN <<>> ELSE <<Item("header", s)>>)
  /\ client' = [client EXCEPT !.opened = @ \cup {s}, !.limit[s] = h2c.init_window]

(* ngx_http_v2_state_rst_stream(): the read handler of the request ends it, *)
(* or leaves it to its upstream server                                      *)
RstStream(s) ==
  /\ Reads /\ Spends
  /\ LET H == Busy(h2c)
         G == [H EXCEPT !.streams[s].out_closed = TRUE, !.streams[s].error = TRUE]
     IN IF ~H.streams[s].live THEN h2c' = H /\ ReadThen(<<>>)
        ELSE /\ h2c' = G
             /\ \/ ReadThen(<<Item("terminate", s)>>)
                \/ H.streams[s].later /\ ReadThen(<<>>)
  /\ client' = [client EXCEPT !.frames = @ + 1]

(* The write handler of a stream's connection. *)
WriteHandlerOf(s) == IF h2c.streams[s].wh = "close" THEN Item("close", s) ELSE Item("writer", s)

(* ngx_http_v2_state_window_update() for a stream, *)
StreamWindowUpdate(s) ==
  /\ Reads /\ Spends
  /\ \E n \in Grants :
       LET H == Busy(h2c)
           st == H.streams[s]
           fits == st.live /\ n <= MaxWindow - st.window
       IN /\ \/ ~st.live /\ h2c' = H /\ ReadThen(<<>>)
             \/ st.live /\ ~fits /\ h2c' = ResetStream(H, s) /\ ReadThen(<<Item("terminate", s)>>)
             \/ /\ fits
                /\ h2c' = [H EXCEPT !.streams[s].window = @ + n, !.streams[s].exhausted = FALSE]
                /\ ReadThen(IF st.exhausted THEN <<WriteHandlerOf(s)>> ELSE <<>>)
          /\ client' = [client EXCEPT !.frames = @ + 1, !.limit[s] = IF fits THEN @ + n ELSE @]

(* ... and for the connection: the streams that wait are called in turn *)
WindowUpdate ==
  /\ Reads /\ Spends
  /\ \E n \in Grants :
       IF n > MaxWindow - h2c.window
       THEN /\ h2c' = Busy(h2c) /\ work' = <<Item("finalize", 0)>>
            /\ client' = [client EXCEPT !.frames = @ + 1]
       ELSE /\ h2c' = [Busy(h2c) EXCEPT !.window = @ + n]
            /\ ReadThen(<<Item("waiting", 0)>>)
            /\ client' = [client EXCEPT !.frames = @ + 1, !.granted = @ + n]

CallWaiting ==
  /\ Top("waiting")
  /\ IF h2c.waiting = <<>> \/ h2c.window = 0 THEN Return /\ UNCHANGED h2c
     ELSE LET s == Head(h2c.waiting)
          IN /\ h2c' = [h2c EXCEPT !.waiting = Tail(@), !.streams[s].handled = FALSE]
             /\ work' = <<WriteHandlerOf(s)>> \o work
  /\ UNCHANGED client

(* ngx_http_v2_state_settings_params(), with the acknowledgement, *)
SettingsFrame ==
  /\ Reads /\ Spends
  /\ \E value \in Settings :
       LET delta == value - h2c.init_window
           live == {s \in Sids : h2c.streams[s].live}
       IN /\ h2c' = [SendControl(Busy(h2c)) EXCEPT !.init_window = value]
          /\ ReadThen([k \in 1..Cardinality(live) |->
                         [Item("adjust", SetToSeq(live)[k]) EXCEPT !.delta = delta]])
          /\ client' = [client EXCEPT !.frames = @ + 1,
                          !.limit = [s \in Sids |-> IF s \in live THEN @[s] + delta ELSE @[s]]]

(* ... then ngx_http_v2_adjust_windows(): a stream that was exhausted and   *)
(* is not any more is called                                                *)
AdjustWindow ==
  /\ Top("adjust")
  /\ LET s == W.s
         st == h2c.streams[s]
         window == st.window + W.delta
     IN \/ ~st.live /\ UNCHANGED h2c /\ Return
        \/ /\ st.live /\ W.delta > 0 /\ window > MaxWindow
           /\ h2c' = ResetStream(h2c, s) /\ Call(<<Item("terminate", s)>>)
        \/ /\ st.live /\ (W.delta <= 0 \/ window <= MaxWindow)
           /\ h2c' = [h2c EXCEPT !.streams[s].window = window,
                                 !.streams[s].exhausted = @ /\ window <= 0]
           /\ Call(IF st.exhausted /\ window > 0 THEN <<WriteHandlerOf(s)>> ELSE <<>>)
  /\ UNCHANGED client

(* ... a part of a frame, ngx_http_v2_state_save() *)
ReadPart ==
  /\ Reads /\ Spends
  /\ h2c' = [Busy(h2c) EXCEPT !.incomplete = TRUE]
  /\ ReadThen(<<>>)
  /\ client' = [client EXCEPT !.frames = @ + 1]

(* ... the end of the stream of bytes, or an error of recv() *)
ReadFails ==
  /\ Reads /\ client.gone
  /\ h2c' = [Busy(h2c) EXCEPT !.error = TRUE]
  /\ work' = <<Item("finalize", 0)>>
  /\ UNCHANGED client

(* the end of ngx_http_v2_read_handler() *)
ReadEnd ==
  /\ Top("read_end")
  /\ work' = (IF h2c.out # <<>> THEN <<Item("send", 0)>> ELSE <<>>) \o <<Item("read_done", 0)>>
  /\ UNCHANGED <<h2c, client>>

ReadDone ==
  /\ Top("read_done")
  /\ h2c' = [h2c EXCEPT !.blocked = FALSE, !.rtimer = @ /\ h2c.processing = 0]
  /\ Call(IF h2c.processing > 0 THEN <<>> ELSE <<Item("handle", 0)>>)
  /\ UNCHANGED client

(* ngx_http_v2_write_handler() *)
WriteHandler(H) ==
  /\ h2c' = [H EXCEPT !.blocked = TRUE]
  /\ work' = <<Item("send", 0), Item("posted", 0), Item("write_done", 0)>>

WriteEvent ==
  /\ AtRest /\ h2c.open /\ ~h2c.wready
  /\ IF h2c.wh = "write" THEN WriteHandler([h2c EXCEPT !.wready = TRUE])
     ELSE h2c' = [h2c EXCEPT !.wready = TRUE] /\ UNCHANGED work
  /\ UNCHANGED client

PostedWrite ==
  /\ AtRest /\ h2c.open /\ h2c.wposted
  /\ IF h2c.wh = "write" THEN WriteHandler([h2c EXCEPT !.wposted = FALSE])
     ELSE h2c' = [h2c EXCEPT !.wposted = FALSE] /\ UNCHANGED work
  /\ UNCHANGED client

CallPosted ==
  /\ Top("posted")
  /\ IF h2c.posted = <<>> THEN Return /\ UNCHANGED h2c
     ELSE LET s == Head(h2c.posted)
          IN /\ h2c' = [h2c EXCEPT !.posted = Tail(@), !.streams[s].handled = FALSE]
             /\ work' = <<WriteHandlerOf(s)>> \o work
  /\ UNCHANGED client

WriteDone ==
  /\ Top("write_done")
  /\ h2c' = [h2c EXCEPT !.blocked = FALSE]
  /\ Call(<<Item("handle", 0)>>)
  /\ UNCHANGED client

WriteTimeout ==
  /\ AtRest /\ h2c.open /\ h2c.wtimer
  /\ h2c' = [h2c EXCEPT !.wtimer = FALSE, !.error = TRUE]
  /\ work' = IF h2c.wh = "write" THEN <<Item("finalize", 0)>> ELSE <<>>
  /\ UNCHANGED client

Close(H) == [H EXCEPT !.open = FALSE, !.rtimer = FALSE, !.wtimer = FALSE, !.rposted = FALSE,
                      !.wposted = FALSE]

(* ngx_http_v2_handle_connection() *)
HandleConnection ==
  /\ Top("handle")
  /\ h2c' = CASE h2c.out # <<>> \/ h2c.processing > 0 -> h2c
              [] h2c.out = <<>> /\ h2c.processing = 0 /\ h2c.error -> Close(h2c)
              [] h2c.out = <<>> /\ h2c.processing = 0 /\ ~h2c.error /\ h2c.incomplete
                   -> [h2c EXCEPT !.rtimer = TRUE]
              [] OTHER -> [h2c EXCEPT !.rh = "idle", !.wh = "empty", !.wtimer = FALSE,
                                      !.rtimer = TRUE]
  /\ Return
  /\ UNCHANGED client

(* ngx_http_v2_handle_connection_handler(); the read event may be ready *)
HandleConnectionHandler ==
  /\ AtRest /\ h2c.open /\ h2c.rposted
  /\ h2c' = [h2c EXCEPT !.rposted = FALSE, !.rh = "read"]
  /\ work' = (IF h2c.out # <<>> THEN <<Item("send", 0)>> ELSE <<>>) \o <<Item("handle", 0)>>
  /\ UNCHANGED client

(* the timer of the read event: of an idle connection, or of one in the     *)
(* middle of a frame                                                        *)
ReadTimeout ==
  /\ AtRest /\ h2c.open /\ h2c.rtimer
  /\ h2c' = [h2c EXCEPT !.rtimer = FALSE]
  /\ work' = IF h2c.rh \in {"read", "idle"} THEN <<Item("finalize", 0)>> ELSE <<>>
  /\ UNCHANGED client

(* ngx_http_v2_finalize_connection(): GOAWAY, *)
FinalizeConnection ==
  /\ Top("finalize")
  /\ h2c' = [(IF h2c.error THEN h2c ELSE SendControl(h2c)) EXCEPT !.blocked = TRUE]
  /\ work' = (IF h2c.error THEN <<>> ELSE <<Item("send", -1)>>) \o <<Item("finalize_streams", 0)>>
  /\ UNCHANGED client

(* ... then the streams are told, *)
FinalizeStreams ==
  /\ Top("finalize_streams")
  /\ h2c' = [h2c EXCEPT !.error = TRUE, !.rh = "empty", !.wh = "empty", !.out = <<>>]
  /\ work' = [k \in 1..Cardinality(Sids) |-> Item("finalize_stream", SetToSeq(Sids)[k])]
               \o <<Item("finalize_end", 0)>>
  /\ UNCHANGED client

(* Mutant: the frames that are dropped stay counted. *)
FinalizeStreamCounted ==
  /\ Top("finalize_stream")
  /\ LET s == W.s
         st == h2c.streams[s]
     IN \/ ~st.live /\ UNCHANGED h2c /\ Return
        \/ /\ st.live
           /\ h2c' = [h2c EXCEPT !.streams[s].handled = FALSE, !.streams[s].error = TRUE]
           /\ \/ Call(<<IF st.queued > 0 /\ st.wh = "close" THEN Item("close", s)
                        ELSE Item("terminate", s)>>)
              \/ st.later /\ Return
  /\ UNCHANGED client

(* by the handler that waits; a request that is answered later may not look *)
FinalizeStream ==
  /\ Top("finalize_stream")
  /\ LET s == W.s
         st == h2c.streams[s]
     IN \/ ~st.live /\ UNCHANGED h2c /\ Return
        \/ /\ st.live
           /\ h2c' = [h2c EXCEPT !.streams[s].handled = FALSE, !.streams[s].error = TRUE,
                                 !.streams[s].queued = 0]
           /\ \/ Call(<<IF st.queued > 0 /\ st.wh = "close" THEN Item("close", s)
                        ELSE Item("terminate", s)>>)
              \/ st.later /\ Return
  /\ UNCHANGED client

FinalizeEnd ==
  /\ Top("finalize_end")
  /\ \E E \in {[h2c EXCEPT !.blocked = FALSE]} :
       h2c' = IF E.processing > 0 THEN E ELSE Close(E)
  /\ Return
  /\ UNCHANGED client

-----------------------------------------------------------------------------
(* The requests and the client. *)

(* an upstream server answers a request *)
Respond(s) ==
  /\ AtRest /\ h2c.open /\ h2c.streams[s].live /\ h2c.streams[s].later
  /\ work' = <<Item("header", s)>>
  /\ UNCHANGED <<h2c, client>>

(* the timer of a stream: send_timeout in ngx_http_writer(), and in         *)
(* ngx_http_v2_close_stream_handler()                                       *)
StreamTimeout(s) ==
  /\ AtRest /\ h2c.open /\ h2c.streams[s].live /\ h2c.streams[s].timer
  /\ h2c' = [h2c EXCEPT !.streams[s].timer = FALSE]
  /\ work' = <<Item(IF h2c.streams[s].wh = "close" THEN "close" ELSE "terminate", s)>>
  /\ UNCHANGED client

Leave ==
  /\ AtRest /\ ~client.gone
  /\ client' = [client EXCEPT !.gone = TRUE]
  /\ UNCHANGED <<h2c, work>>

Worker ==
  \/ SendOutputQueue \/ HeaderFilter \/ Writer \/ AfterSending \/ CloseStreamHandler
  \/ CallWaiting \/ ReadEnd \/ ReadDone \/ CallPosted \/ WriteDone \/ HandleConnection
  \/ FinalizeConnection \/ FinalizeStreams \/ FinalizeStream \/ FinalizeEnd
  \/ TerminateRequest \/ AdjustWindow \/ PostedWrite \/ HandleConnectionHandler

Timers == ReadTimeout \/ WriteTimeout

Next ==
  \/ Worker \/ Timers \/ WriteEvent \/ WindowUpdate \/ SettingsFrame \/ ReadPart \/ ReadFails
  \/ Leave
  \/ \E s \in Sids : OpenStream(s) \/ RstStream(s) \/ StreamWindowUpdate(s) \/ Respond(s)
                     \/ StreamTimeout(s)

(* The worker runs, upstream servers answer or time out, timers ring. *)
Fairness ==
  /\ WF_vars(Worker) /\ WF_vars(ReadFails) /\ SF_vars(Timers)
  /\ \A s \in Sids : WF_vars(Respond(s)) /\ SF_vars(StreamTimeout(s))

Spec == Init /\ [][Next]_vars /\ Fairness

-----------------------------------------------------------------------------
Of(s) == SelectSeq(h2c.out, LAMBDA f : f.s = s)

(* Both windows are what the client granted less what it got and what is    *)
(* queued for it, whatever was dropped, reset or adjusted on the way.       *)
WindowsExact ==
  AtRest /\ ~h2c.error =>
    /\ h2c.window >= 0 /\ h2c.window + Lengths(h2c.out) + client.got = client.granted
    /\ \A s \in Sids : LET st == h2c.streams[s]
                       IN st.live /\ st.wh = "request" =>
                            st.window + Lengths(Of(s)) + st.sent = client.limit[s]

(* A stream is on one queue at most, exactly when it is marked, and counts  *)
(* its frames; a stream that is gone is nowhere.                            *)
QueuesTrue ==
  ~h2c.error =>
    /\ \A s \in Sids :
         /\ Len(SelectSeq(h2c.posted \o h2c.waiting, LAMBDA t : t = s))
              = IF h2c.streams[s].handled THEN 1 ELSE 0
         /\ h2c.streams[s].queued = Len(Of(s))
    /\ h2c.processing = Cardinality({s \in Sids : h2c.streams[s].live})

(* Nothing is forgotten: when the worker rests a stream with something to   *)
(* send waits for the socket that is full, for the window of its own or for *)
(* that of the connection; frames of streams and posted streams wait for    *)
(* the socket.  A reset that a timer or the write handler queued may wait   *)
(* for the next event, and a connection without streams that holds one has  *)
(* no timer.                                                                *)
NoStall ==
  AtRest /\ h2c.open /\ ~h2c.error =>
    /\ h2c.posted # <<>> \/ (\E f \in Range(h2c.out) : f.s # 0) => ~h2c.wready /\ h2c.wtimer
    /\ \A s \in Sids : LET st == h2c.streams[s] IN
         st.live /\ ~st.later /\ st.wh = "request" =>
           \/ st.queued > 0 \/ s \in Range(h2c.posted)
           \/ st.exhausted /\ st.window <= 0
           \/ s \in Range(h2c.waiting) /\ h2c.window = 0
    /\ h2c.processing = 0 => h2c.rtimer \/ h2c.wtimer \/ h2c.rposted \/ h2c.out # <<>>

SendSound == WindowsExact /\ QueuesTrue /\ NoStall

(* The states in which a stream is never closed: its request is over, and   *)
(* its last frame was sent while the stream was still marked exhausted, or  *)
(* its header was queued after the connection had been finalized.           *)
Leaked(s) ==
  LET st == h2c.streams[s]
  IN st.live /\ st.wh = "close" /\ ~st.timer
     /\ ((st.exhausted /\ st.queued = 0) \/ (h2c.rh = "empty" /\ Of(s) # <<>>))

=============================================================================
