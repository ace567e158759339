----------------------------- MODULE Http2Body -----------------------------
(* The body of a request on an HTTP/2 stream (http/v2/ngx_http_v2.c): DATA   *)
(* frames arrive in pieces and are buffered, saved piece by piece, or passed *)
(* to an upstream server as they come, when the window that is granted is    *)
(* the room in the buffer.                                                   *)
(*                                                                           *)
(* One stream.  Window updates are on their way to the client for a while.   *)
(* The client counts the padding of a frame against its windows, as RFC 7540 *)
(* says; the code does not.                                                  *)
EXTENDS Integers, FiniteSets

CONSTANTS
  Body,        \* length of the body the client has
  Declared,    \* values of Content-Length; -1 stands for none
  BufferSize,  \* client_body_buffer_size
  MaxWindow,   \* NGX_HTTP_V2_MAX_WINDOW
  MaxSize,     \* client_max_body_size
  Paddings,    \* lengths of padding
  MaxPadded    \* how much padding a client sends

VARIABLES
  stream,  \* the stream and its request body
  frame,   \* h2c->state: the frame that is being read
  conn,    \* h2c->recv_window
  client

vars == <<stream, frame, conn, client>>

NoFrame == [is |-> FALSE, mine |-> FALSE, length |-> 0, padding |-> 0, skip |-> FALSE]

Init ==
  /\ \E n \in Declared \cup {-1} :
       stream = [state |-> "new", declared |-> n, unbuffered |-> FALSE, window |-> 0,
                 free |-> FALSE, in_closed |-> FALSE, skip |-> FALSE, rest |-> TRUE,
                 cap |-> 0, sync |-> FALSE, used |-> 0, fill |-> 0, busy |-> 0,
                 received |-> 0, timer |-> FALSE, posted |-> FALSE,
                 sending |-> FALSE, timedout |-> FALSE]
  /\ frame = NoFrame
  /\ conn = MaxWindow
  /\ client = [left |-> Body, window |-> 0, updates |-> 0, conn |-> MaxWindow,
               conn_updates |-> 0, padded |-> 0, rude |-> FALSE, ended |-> FALSE, strayed |-> FALSE]

Min2(a, b) == IF a < b THEN a ELSE b
Ended(S, how) == [S EXCEPT !.state = how, !.skip = TRUE, !.timer = FALSE, !.posted = FALSE]
Failed(S) == Ended(S, "failed")

(* ngx_http_v2_filter_request_body() *)
Filter(S) ==
  LET got == S.received + S.fill
      limit == IF S.declared = -1 THEN MaxSize ELSE S.declared
  IN IF S.fill = 0 /\ S.rest THEN S
     ELSE IF (S.fill > 0 /\ got > limit) \/ (~S.rest /\ S.declared # -1 /\ S.declared # got)
     THEN Failed(S)
     ELSE [S EXCEPT !.received = got, !.busy = @ + S.fill, !.fill = 0]

(* ngx_http_v2_process_request_body() *)
ProcessRequestBody(S, size, last) ==
  IF S.state = "new" THEN S
  ELSE IF size > 0 /\ ~S.sync /\ S.used + size > S.cap THEN Failed(S)
  ELSE LET T == [S EXCEPT !.fill = @ + size, !.used = IF S.sync THEN @ ELSE @ + size]
       IN IF last
          THEN LET L == [T EXCEPT !.rest = FALSE, !.timer = FALSE]
               IN IF S.unbuffered THEN [L EXCEPT !.posted = TRUE]
                  ELSE IF Filter(L).state = "failed" THEN Filter(L)
                  ELSE [Filter(L) EXCEPT !.state = "done"]
          ELSE IF size = 0 THEN S
          ELSE IF S.unbuffered THEN [T EXCEPT !.timer = TRUE, !.posted = TRUE]
          ELSE IF S.sync THEN Filter([T EXCEPT !.timer = TRUE]) ELSE [T EXCEPT !.timer = TRUE]

(* ngx_http_v2_read_request_body(): the window is opened *)
ReadRequestBody(unbuffered) ==
  /\ stream.state = "new"
  /\ LET n == stream.declared
         direct == unbuffered /\ ~stream.in_closed
         len == IF ~direct THEN n
                ELSE Min2(IF n < 0 \/ n > BufferSize THEN BufferSize ELSE n, MaxWindow)
         kept == len >= 0 /\ len <= BufferSize
         S == [stream EXCEPT !.state = "reading", !.unbuffered = direct, !.sync = ~kept,
                             !.cap = IF kept THEN len ELSE 0]
         window == IF len = 0 THEN 0 ELSE IF direct THEN len ELSE MaxWindow
     IN IF stream.skip THEN stream' = [stream EXCEPT !.state = "done"] /\ UNCHANGED client
        ELSE IF stream.in_closed
        THEN stream' = ProcessRequestBody(S, 0, TRUE) /\ UNCHANGED client
        ELSE /\ stream' = [S EXCEPT !.window = window, !.free = len # 0 /\ ~direct, !.timer = TRUE]
             /\ client' = [client EXCEPT !.updates = @ + window]
  /\ UNCHANGED <<frame, conn>>

(* ngx_http_discard_request_body(), before the body is read *)
Discard ==
  /\ stream.state = "new" /\ ~stream.skip
  /\ stream' = [stream EXCEPT !.skip = TRUE]
  /\ UNCHANGED <<frame, conn, client>>

(* ngx_http_v2_state_data() *)
StateData(n, padding, fin) ==
  /\ ~frame.is /\ ~client.ended
  /\ LET rude == n + padding > Min2(client.window, client.conn)
         refill == conn - n < MaxWindow \div 4
         over == n > stream.window
         again == stream.free /\ stream.window - n < MaxWindow \div 4
         gone == stream.state \in {"done", "failed", "late"}
         back == IF ~gone /\ ~over /\ again THEN MaxWindow - (stream.window - n) ELSE 0
     IN /\ n <= client.left /\ (fin => n = client.left) /\ n <= conn
        /\ client.padded + padding <= MaxPadded /\ (n + padding > 0 \/ fin)
        /\ rude => ~client.rude
        /\ conn' = IF refill THEN MaxWindow ELSE conn - n
        /\ stream' = IF gone THEN stream
                     ELSE IF over THEN Failed(stream)
                     ELSE [stream EXCEPT !.window = @ - n + back, !.in_closed = fin]
        /\ frame' = [is |-> TRUE, mine |-> ~gone /\ ~over, length |-> n, padding |-> padding,
                     skip |-> gone \/ over]
        /\ client' = [client EXCEPT !.left = @ - n, !.window = @ - n - padding,
                        !.conn = @ - n - padding, !.updates = @ + back,
                        !.conn_updates = IF refill THEN @ + MaxWindow - (conn - n) ELSE @,
                        !.padded = @ + padding, !.rude = @ \/ rude, !.ended = fin]

(* the end of a frame: ngx_http_v2_state_complete(), or the padding is left *)
Rest(length) ==
  IF length > 0 THEN [frame EXCEPT !.length = length]
  ELSE IF frame.padding > 0 THEN [frame EXCEPT !.length = frame.padding, !.padding = 0, !.skip = TRUE]
  ELSE NoFrame

(* ngx_http_v2_state_read_data() of a piece *)
StateReadData(size) ==
  /\ frame.is /\ ~frame.skip /\ size <= frame.length
  /\ IF stream.skip
     THEN frame' = [frame EXCEPT !.skip = TRUE, !.length = @ + frame.padding, !.padding = 0]
          /\ UNCHANGED stream
     ELSE /\ stream' = ProcessRequestBody(stream, size, size = frame.length /\ stream.in_closed)
          /\ frame' = Rest(frame.length - size)
  /\ UNCHANGED <<conn, client>>

(* ngx_http_v2_state_skip() *)
StateSkip(size) ==
  /\ frame.is /\ frame.skip /\ size <= frame.length + frame.padding
  /\ LET left == frame.length + frame.padding - size
     IN frame' = IF left > 0 THEN [frame EXCEPT !.length = left, !.padding = 0] ELSE NoFrame
  /\ UNCHANGED <<stream, conn, client>>

(* Mutant: the rest of the frame that is being read is granted again. *)
RoomWithoutFrame == stream.cap

(* the room in the buffer for which no frame is under way, in               *)
(* ngx_http_v2_read_unbuffered_request_body()                               *)
Room == stream.cap - (IF frame.is /\ frame.mine THEN frame.length ELSE 0)

(* ngx_http_v2_read_unbuffered_request_body(); taken says that the upstream *)
(* server took what it had been given.  A timer that rang before counts     *)
(* only if the client may send.                                             *)
ReadUnbuffered(taken) ==
  LET S == [stream EXCEPT !.posted = FALSE, !.sending = TRUE, !.timedout = FALSE,
                          !.busy = IF taken THEN 0 ELSE @]
      F == Filter(S)
      \* a padding under way is taken for data
      stray == frame.is /\ frame.mine /\ frame.skip
  IN /\ CASE stream.timedout /\ stream.window > 0 ->
              stream' = Ended(stream, "late") /\ UNCHANGED client
         [] F.state = "failed" -> stream' = F /\ UNCHANGED client
         [] ~F.rest /\ F.state # "failed" ->
              stream' = [F EXCEPT !.state = "done"] /\ UNCHANGED client
         [] F.rest /\ F.state # "failed" /\ F.busy > 0 -> stream' = F /\ UNCHANGED client
         [] OTHER ->
              /\ stream' = [F EXCEPT !.used = 0, !.window = Room,
                                     !.timer = @ \/ (Room # F.window /\ F.window = 0)]
              /\ client' = [client EXCEPT !.updates = @ + Room - F.window, !.strayed = @ \/ stray]
     /\ UNCHANGED <<frame, conn>>

Direct == stream.state = "reading" /\ stream.unbuffered

(* ngx_http_upstream_send_request(): when the upstream server is connected, *)
(* when it took what it was given, ...                                      *)
SendRequest ==
  /\ Direct /\ (stream.sending => stream.busy > 0)
  /\ ReadUnbuffered(stream.busy > 0)

(* ... and from ngx_http_upstream_read_request_handler(), which is not set  *)
(* before the first of these calls: until then events of the client are     *)
(* ignored by ngx_http_block_reading()                                      *)
ReadRequestHandler ==
  /\ Direct /\ stream.posted
  /\ IF stream.sending THEN ReadUnbuffered(FALSE)
     ELSE stream' = [stream EXCEPT !.posted = FALSE] /\ UNCHANGED <<frame, conn, client>>

(* the timer of the body: ngx_http_v2_read_client_request_body_handler(),   *)
(* ngx_http_upstream_read_request_handler() or ngx_http_block_reading()     *)
BodyTimeout ==
  /\ stream.state = "reading" /\ stream.timer
  /\ stream' = IF stream.unbuffered /\ ~stream.sending
               THEN [stream EXCEPT !.timer = FALSE, !.timedout = TRUE]
               ELSE Ended(stream, "late")
  /\ UNCHANGED <<frame, conn, client>>

(* the updates reach the client *)
Updates ==
  /\ client.updates # 0 \/ client.conn_updates > 0
  /\ client' = [client EXCEPT !.window = @ + client.updates, !.updates = 0,
                              !.conn = @ + client.conn_updates, !.conn_updates = 0]
  /\ UNCHANGED <<stream, frame, conn>>

Reads == \E n \in 0..Body : StateReadData(n) \/ StateSkip(n)

Next ==
  \/ \E b \in BOOLEAN : ReadRequestBody(b)
  \/ Discard
  \/ \E n \in 0..Body, p \in Paddings, fin \in BOOLEAN : StateData(n, p, fin)
  \/ Reads \/ Updates \/ BodyTimeout \/ SendRequest \/ ReadRequestHandler

(* Timers ring, posted events are handled and the upstream server reads. *)
Fairness == SF_vars(BodyTimeout) /\ WF_vars(ReadRequestHandler) /\ WF_vars(SendRequest)

Spec == Init /\ [][Next]_vars /\ Fairness

-----------------------------------------------------------------------------
(* The window the server counts with is what the client may send, with the  *)
(* updates under way, and the padding, which only one of them counts; a     *)
(* client that keeps to its windows never overruns the buffer, and no byte  *)
(* of the body is lost or passed twice.  Padding that is under way when the *)
(* window is computed is taken for data: then the window is not exact any   *)
(* more (strayed).  A body that keeps to its length and to the limits is    *)
(* never refused.                                                           *)
BodySound ==
  ~client.strayed =>
    /\ stream.state = "reading" /\ ~client.rude =>
         /\ stream.window = client.window + client.updates + client.padded
         /\ stream.unbuffered => stream.used + (IF frame.skip THEN 0 ELSE frame.length)
                                   + stream.window <= stream.cap
    /\ stream.state = "reading" /\ ~frame.skip =>
         stream.received + stream.fill + frame.length + client.left = Body
    /\ stream.declared \in {-1, Body} /\ Body <= MaxSize /\ ~client.rude => stream.state # "failed"

(* The timer rang while the upstream server was being connected, and did    *)
(* not count, as the frame that is on its way has filled the window: no     *)
(* timer is left.                                                           *)
Unwatched == Direct /\ stream.sending /\ ~stream.timer /\ stream.window = 0 /\ frame.is

=============================================================================
