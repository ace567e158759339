------------------------ MODULE HttpConnectionProofs ------------------------
(***************************************************************************)
(* Whenever the worker rests, the connection has something that ends it,    *)
(* nothing that arrived is forgotten and the references to the request are  *)
(* counted exactly: RestSound.  The bytes of a body are never taken for a   *)
(* request nor those of a request for a body: FramingKept.  Both for every  *)
(* script of the client, every size of the buffers, every number of pieces  *)
(* of an answer and of failures.                                            *)
(*                                                                          *)
(* The properties speak of the states in which the stack is empty.  The     *)
(* invariants that carry them there have a clause for every function the    *)
(* worker can be in.  IInv: what the rest of the stack is then, what the    *)
(* request and the connection look like, and what the count will be when    *)
(* the functions below it have returned.  FInv: what follows in the text    *)
(* of the client, and that a body is read to its end before the connection  *)
(* is used again.                                                           *)
(***************************************************************************)
EXTENDS HttpConnection, SequenceTheorems, WellFoundedInduction, TLAPS

CFields ==
  {"open", "handler", "rtimer", "wtimer", "rtimedout", "wtimedout", "posted", "ready",
   "reusable", "idle", "close", "error", "eof", "buffered", "nbusy", "nfree", "large",
   "requests"}
RFields ==
  {"live", "q", "count", "state", "keepalive", "lingering_close", "lingering_time",
   "discard_body", "reading_body", "request_body", "no_buffering", "rest", "reh", "weh",
   "answer", "later", "posted", "sent"}
Requests ==
  [line : Nat \ {0}, hdrs : Nat, body : Nat \cup {-1}, chunked : BOOLEAN, ka : BOOLEAN,
   bad : {"no", "line", "head"}]
UnitSet == [k : {"part", "line", "hdr", "head", "body"}, q : 1..Len(script)]

Handlers == {"block", "body", "discarded", "test", "broken", "unbuffered"}
Names ==
  Readers \cup Handlers \cup
  {"posted", "body_ok", "read_done", "finalize", "if_failed", "body_done", "process_request",
   "write", "written", "output", "special", "discard", "read_discarded", "discard_rest",
   "discarded_done", "too_large", "unless_failed", "content", "read_body", "do_read",
   "unbuffered_done", "post_handler", "terminate", "finalize_connection", "set_keepalive",
   "set_lingering", "close_request", "close_connection"}
Stacks == Seq(Names)

(* A function on top of the others. *)
Push(f, t) == <<f>> \o t
Num(b) == IF b THEN 1 ELSE 0

(* Where the functions that end a request return to: the event loop, a      *)
(* request handler, or the functions that read the body, in which case the  *)
(* count has one reference more to come (Owed).                             *)
K0 == <<>>
K1 == Push("posted", K0)
Tail1 == Push("finalize", K1)
Tail2 == Push("read_done", Tail1)
K2 == Push("body_ok", Tail2)
K3 == Push("body_ok", Push("if_failed", K1))
K4 == Push("body_ok", Push("body_done", Tail2))
Konts == {K0, K1, K2, K3, K4}
Owed(k) == IF k \in {K2, K4} THEN 1 ELSE 0

Chain(k) == Push("output", Push("finalize", k))
Refusals == {Push("too_large", Tail1), Push("unless_failed", Chain(K1))}
Discards == Refusals \cup {Push("special", Chain(K1))}

-----------------------------------------------------------------------------
(* The answer is still to come or to be sent. *)
Answering == r.later \/ r.reh = "body" \/ r.weh = "writer"
Serving == c.handler = "request" /\ r.live /\ ~r.posted
Counted == r.count = Num(r.discard_body) + Num(Answering) /\ r.count >= 1
Guard == c.rtimer \/ c.rtimedout \/ c.eof

(* What is remembered as ready has nothing more to report. *)
Dry == c.ready => c.eof \/ c.error

Ctx(k) ==
  /\ k \in Konts
  /\ k \in {K2, K3, K4} => r.request_body
  /\ k = K4 => ~r.no_buffering

(* The handlers of a request agree with what it waits for. *)
Watched ==
  /\ r.weh # "none"
  /\ r.weh = "writer" => ~r.later /\ r.reh \notin {"body", "unbuffered"}
  /\ r.reh = "body" => r.request_body /\ ~r.no_buffering
  /\ r.reh = "unbuffered" => r.request_body /\ r.no_buffering
  /\ r.later => r.request_body /\ r.reh \in {"broken", "unbuffered"}
  /\ r.discard_body => ~r.request_body /\ r.reh = "discarded" /\ r.weh \in {"writer", "empty"}

(* ... with a timer, and what could be read was read. *)
Timed ==
  /\ r.weh = "writer" => c.wtimer
  /\ r.reh = "body" => c.rtimer
  /\ r.reh \in {"body", "discarded", "unbuffered"} => Dry
Guarded == r.discard_body /\ r.weh = "empty" => c.rtimer \/ c.eof

(* What holds of the request when the functions above k have returned and n *)
(* references are left.                                                     *)
Terminated(k, n) ==
  /\ k # K0 /\ r.live /\ r.posted /\ r.weh = "terminate" /\ c.handler = "request"
  /\ n \in (1 + Owed(k))..(2 + Owed(k))
Held(k, n) ==
  /\ Serving /\ Watched /\ Timed
  /\ n = Num(r.discard_body) + Num(Answering) + Owed(k) /\ n >= 1
Lingers(k, n) ==
  /\ c.handler = "lingering" /\ r.live /\ ~r.posted /\ ~r.later /\ r.weh # "none"
  /\ n = 1 /\ Owed(k) = 0 /\ c.rtimer /\ Dry
Half(k, n) == Terminated(k, n) \/ Held(k, n)
Returned(k, n) == Terminated(k, n) \/ (Held(k, n) /\ Guarded) \/ Lingers(k, n)

(* A request whose head is read. *)
Fresh ==
  /\ r.live /\ r.count = 1 /\ ~r.posted /\ ~r.later /\ ~r.discard_body /\ ~r.request_body
  /\ r.weh = "none" /\ r.reh = "block" /\ r.rest = -1

(* A request that is answered by the functions above k. *)
Pending(k) ==
  /\ Ctx(k) /\ r.live /\ ~r.posted /\ ~r.later
  /\ r.count = 1 + Num(r.discard_body) + Owed(k)
  /\ k = K0 <=> r.weh = "none"
  /\ k = K0 => Fresh
  /\ r.reh \in {"body", "unbuffered"} => r.request_body /\ Owed(k) = 0
  /\ r.reh = "discarded" => Dry
  /\ r.discard_body => ~r.request_body /\ r.reh = "discarded"
Answered(k) == Pending(k) /\ c.handler = "request"
Unasked == Answered(K1) /\ ~r.discard_body /\ ~r.request_body

(* The event loop. *)
Idle ==
  /\ c.handler \in {"wait", "keepalive"} /\ r = NoRequest /\ c.rtimer
  /\ Dry \/ c.posted
Reading ==
  /\ c.handler \in {"line", "headers"} /\ Fresh
  /\ c.rtimer \/ c.posted
  /\ Dry \/ c.posted
  /\ c.handler = "headers" => r.q \in 1..Len(script)
AtLoop == ~c.open \/ Idle \/ Reading \/ Returned(K0, r.count)

-----------------------------------------------------------------------------
(* The clause of every function: t is the stack below it. *)
InWait(f, t) ==
  t = K0 /\ r = NoRequest /\ c.handler = f /\ (f = "keepalive" => c.rtimer \/ c.rtimedout)
InHead(f, t) ==
  /\ t = K0 /\ Fresh /\ c.handler = (IF f = "line" THEN "line" ELSE "headers")
  /\ f # "line" => r.q \in 1..Len(script)
InRequest(t) ==
  /\ t = K0 /\ Serving /\ Watched /\ Counted
  /\ r.weh = "writer" => c.wtimer
  /\ r.reh = "body" => c.rtimer \/ c.rtimedout
  /\ r.discard_body /\ r.weh = "empty" => Guard
InReader(f, t) ==
  /\ t = K1 /\ Serving /\ Watched /\ Counted /\ r.reh = f
  /\ r.weh = "writer" => c.wtimer
  /\ f = "discarded" /\ r.discard_body /\ r.weh = "empty" => Guard
InWrite(t) ==
  /\ t = K1 /\ Serving /\ Watched /\ Counted
  /\ r.reh \in {"body", "discarded", "unbuffered"} => Dry
Writing ==
  /\ Serving /\ Watched /\ r.weh = "writer" /\ r.count = Num(r.discard_body) + 1
  /\ r.reh \in {"body", "discarded", "unbuffered"} => Dry
InWritten(t) ==
  t = K1 /\ Writing /\ rc \in {"OK", "AGAIN", "ERROR"} /\ (rc = "OK" => ~c.buffered)
InOutput(t) ==
  \/ \E k \in Konts : t = Push("finalize", k) /\ Answered(k)
  \/ t = Push("written", K1) /\ Writing
InSpecial(t) == \E k \in Konts : t = Chain(k) /\ Answered(k)
InDiscard(t) ==
  \/ \E k \in Konts : t = Push("special", Chain(k)) /\ Answered(k)
  \/ t \in Refusals /\ Unasked
InReadDiscarded(t) ==
  \/ /\ t = Push("discarded_done", K1) /\ Serving /\ Watched /\ Counted
     /\ r.reh = "discarded" /\ Guarded /\ (r.weh = "writer" => c.wtimer)
  \/ \E x \in Discards : t = Push("discard_rest", x) /\ Unasked /\ r.rest >= 0
InDiscardRest(t) == t \in Discards /\ Unasked /\ r.rest >= 0 /\ (rc = "OK" \/ ~c.ready)
InDiscardedDone(t) ==
  /\ t = K1 /\ Serving /\ Counted /\ Guarded
  /\ r.weh # "none" /\ (r.weh = "writer" => c.wtimer) /\ ~r.later
  /\ r.reh \in {"block", "discarded"}
  /\ r.reh = "discarded" => Dry
  /\ r.reh = "block" => rc = "OK"
  /\ r.discard_body => ~r.request_body /\ r.weh \in {"writer", "empty"}
InTooLarge(t) == t = Tail1 /\ Answered(K1)
InUnlessFailed(t) == t = Chain(K1) /\ Answered(K1) /\ rc \in {"OK", "500"}
InContent(t) == t = K1 /\ Unasked /\ r.reh = "block" /\ r.weh = "phases"
InReadBody(t) == t = Tail2 /\ Unasked /\ r.reh = "block" /\ r.weh = "phases"
InReadDone(t) ==
  t = Tail1 /\ IF rc \in Special THEN Answered(K1) ELSE Ctx(K2) /\ Returned(K2, r.count)
BodyLeft == Serving /\ r.request_body /\ ~r.discard_body
InBodyDone(t) ==
  /\ t = Tail2 /\ r.request_body
  /\ \/ rc = "OK" /\ ~r.no_buffering /\ Returned(K2, r.count)
     \/ /\ BodyLeft /\ ~r.later /\ r.reh = "body" /\ r.weh = "empty" /\ r.count = 2
        /\ rc \in {"OK", "AGAIN", "400", "500"} /\ (rc = "OK" => r.no_buffering)
        /\ rc = "AGAIN" => Dry /\ c.rtimer
Unbuffered ==
  /\ BodyLeft /\ r.later /\ r.reh = "unbuffered" /\ r.no_buffering
  /\ r.weh \notin {"none", "writer"} /\ r.count = 1
InDoRead(t) ==
  \/ /\ t = Push("body_done", Tail2) /\ BodyLeft
     /\ ~r.later /\ r.reh = "body" /\ r.weh = "empty" /\ r.count = 2
  \/ /\ t = Push("if_failed", K1) /\ BodyLeft
     /\ ~r.later /\ r.reh = "body" /\ ~r.no_buffering
     /\ r.weh \notin {"none", "writer"} /\ r.count = 1
  \/ t = Push("unbuffered_done", K1) /\ Unbuffered
InIfFailed(t) ==
  t = K1 /\ IF rc \in Special THEN Answered(K1) ELSE Ctx(K1) /\ Returned(K1, r.count)
InUnbufferedDone(t) == t = K1 /\ Unbuffered /\ (rc \notin Special /\ rc # "OK" => Dry)
InPostHandler(t) == t \in {K2, K3, K4} /\ Answered(t) /\ r.reh = "block" /\ r.request_body
InBodyOk(t) ==
  \E k \in {K2, K3, K4} : Push("body_ok", t) = k /\ Ctx(k) /\ Returned(k, r.count)
InPosted(t) == t = K0 /\ Returned(K1, r.count)
InFinalize(t) ==
  /\ Ctx(t) /\ r.live
  /\ IF rc = "DONE"
     THEN /\ t = K1
          /\ IF r.count = 1 THEN ~r.later /\ ~r.posted /\ r.weh # "none"
                            ELSE Half(K1, r.count - 1)
     ELSE /\ ~r.posted /\ (t = K0 <=> r.weh = "none") /\ (t = K0 => r.count = 1)
          /\ r.count \in (1 + Owed(t))..(2 + Owed(t))
          /\ c.error \/ rc \in {"ERROR", "408", "499"} \/ Pending(t)
          /\ t # K0 \/ rc \notin Special => c.handler = "request"
InTerminate(t) ==
  /\ Ctx(t) /\ r.live /\ ~r.posted /\ (t = K0 <=> r.weh = "none") /\ (t = K0 => r.count = 1)
  /\ r.count \in (1 + Owed(t))..(2 + Owed(t)) /\ (t # K0 => c.handler = "request")
Alone(t) ==
  Ctx(t) /\ r.live /\ r.count = 1 /\ ~r.later /\ ~r.posted /\ Owed(t) = 0 /\ r.weh # "none"
InFinalizeConnection(t) ==
  Alone(t) \/ (Ctx(t) /\ r.count # 1 /\ t # K0 /\ Half(t, r.count - 1))
InLast(t) == Alone(t)
InLingering(t) == Alone(t) /\ c.handler = "lingering"
InCloseRequest(t) ==
  Ctx(t) /\ r.live /\ r.count >= 1 /\ (r.count # 1 => t # K0 /\ Returned(t, r.count - 1))

Facts(f, t) ==
  /\ f \in {"wait", "keepalive"} => InWait(f, t)
  /\ f \in {"line", "headers", "process_request"} => InHead(f, t)
  /\ f = "request" => InRequest(t)
  /\ f \in Handlers => InReader(f, t)
  /\ f = "write" => InWrite(t)
  /\ f = "written" => InWritten(t)
  /\ f = "output" => InOutput(t)
  /\ f = "special" => InSpecial(t)
  /\ f = "discard" => InDiscard(t)
  /\ f = "read_discarded" => InReadDiscarded(t)
  /\ f = "discard_rest" => InDiscardRest(t)
  /\ f = "discarded_done" => InDiscardedDone(t)
  /\ f = "too_large" => InTooLarge(t)
  /\ f = "unless_failed" => InUnlessFailed(t)
  /\ f = "content" => InContent(t)
  /\ f = "read_body" => InReadBody(t)
  /\ f = "read_done" => InReadDone(t)
  /\ f = "body_done" => InBodyDone(t)
  /\ f = "do_read" => InDoRead(t)
  /\ f = "if_failed" => InIfFailed(t)
  /\ f = "unbuffered_done" => InUnbufferedDone(t)
  /\ f = "post_handler" => InPostHandler(t)
  /\ f = "body_ok" => InBodyOk(t)
  /\ f = "posted" => InPosted(t)
  /\ f = "finalize" => InFinalize(t)
  /\ f = "terminate" => InTerminate(t)
  /\ f = "finalize_connection" => InFinalizeConnection(t)
  /\ f \in {"set_keepalive", "set_lingering"} => InLast(t)
  /\ f = "lingering" => InLingering(t)
  /\ f = "close_request" => InCloseRequest(t)

StoreC(d) ==
  /\ DOMAIN d = CFields /\ d.handler \in Readers
  /\ d.nbusy \in Nat /\ d.nfree \in Nat /\ d.nbusy + d.nfree <= LargeBuffers
  /\ d.large => d.nbusy >= 1
StoreR(x) ==
  /\ DOMAIN x = RFields /\ x.count \in 0..3 /\ x.reh \in Handlers
  /\ x.weh \in {"none", "phases", "writer", "empty", "broken", "terminate"}
  /\ x.lingering_time \in {"none", "set", "passed"}
  /\ x.rest \in Int /\ x.state \in Nat
  /\ x.rest < 0 =>
       x.reh \notin {"body", "discarded", "unbuffered"} /\ ~x.reading_body /\ ~x.discard_body
StoreB ==
  /\ buf \in Seq(UnitSet) /\ net \in Seq(UnitSet) /\ todo \in Seq(UnitSet)
  /\ room \in 0..(HeaderBuffer + LargeBuffer) /\ Len(buf) + room <= HeaderBuffer + LargeBuffer
  /\ script \in Seq(Requests) /\ peer \in {"open", "fin", "reset"} /\ faults \in 0..Faults
Store == StoreC(c) /\ StoreR(r) /\ StoreB

(* What arrived is about to be reported, or remembered. *)
Edge == c.open /\ (net # <<>> \/ peer # "open") => edge \/ c.ready \/ c.eof \/ c.error

Shape == IF stack = <<>> THEN AtLoop ELSE c.open /\ Facts(Head(stack), Tail(stack))
IInv == stack \in Stacks /\ Store /\ Edge /\ Shape

-----------------------------------------------------------------------------
(* The stack. *)

LEMMA Pushed ==
  ASSUME NEW f \in Names, NEW t \in Stacks
  PROVE  /\ Push(f, t) \in Stacks /\ Push(f, t) # <<>>
         /\ Head(Push(f, t)) = f /\ Tail(Push(f, t)) = t
<1> DEFINE s == Push(f, t)
<1>1. <<f>> \in Stacks /\ Len(<<f>>) = 1 /\ <<f>>[1] = f
  BY DEF Stacks
<1>2. /\ s \in Stacks /\ Len(s) = 1 + Len(t)
      /\ \A i \in 1..(1 + Len(t)) : s[i] = IF i <= 1 THEN <<f>>[i] ELSE t[i - 1]
  BY <1>1, ConcatProperties DEF Push, Stacks
<1> HIDE DEF s
<1>3. Len(t) \in Nat
  BY DEF Stacks
<1>4. s # <<>> /\ s[1] = f
  BY <1>1, <1>2, <1>3
<1>5. Head(s) = f
  BY <1>2, <1>4 DEF Stacks
<1>6. /\ Tail(s) \in Stacks /\ Len(Tail(s)) = Len(t)
      /\ \A i \in 1..Len(t) : Tail(s)[i] = s[i + 1]
  BY <1>2, <1>3, <1>4, HeadTailProperties DEF Stacks
<1>7. \A i \in 1..Len(t) : Tail(s)[i] = t[i]
  BY <1>2, <1>3, <1>6
<1>8. Tail(s) = t
  BY <1>6, <1>7, SeqEqual DEF Stacks
<1> QED
  BY <1>2, <1>4, <1>5, <1>8 DEF s

(* One more element in front of a tuple. *)
LEMMA InFront ==
  ASSUME NEW f \in Names, NEW s \in Stacks
  PROVE  /\ <<f>> \o s \in Stacks /\ Len(<<f>> \o s) = Len(s) + 1
         /\ \A j \in 1..(Len(s) + 1) : (<<f>> \o s)[j] = IF j = 1 THEN f ELSE s[j - 1]
<1>1. <<f>> \in Stacks /\ Len(<<f>>) = 1 /\ <<f>>[1] = f
  BY DEF Stacks
<1>2. /\ <<f>> \o s \in Stacks /\ Len(<<f>> \o s) = Len(<<f>>) + Len(s)
      /\ \A j \in 1..(Len(<<f>>) + Len(s)) :
            (<<f>> \o s)[j] = IF j <= Len(<<f>>) THEN <<f>>[j] ELSE s[j - Len(<<f>>)]
  BY <1>1, ConcatProperties DEF Stacks
<1> DEFINE u == <<f>> \o s
           n == Len(s)
<1>3. n \in Nat
  BY DEF Stacks
<1> HIDE DEF u, n
<1>4. /\ u \in Stacks /\ Len(u) = 1 + n
      /\ \A j \in 1..(1 + n) : u[j] = IF j <= 1 THEN <<f>>[j] ELSE s[j - 1]
  BY <1>1, <1>2 DEF u, n
<1>5. ASSUME NEW j \in 1..(n + 1) PROVE u[j] = IF j = 1 THEN f ELSE s[j - 1]
  BY <1>1, <1>3, <1>4
<1> QED
  BY <1>3, <1>4, <1>5 DEF u, n

LEMMA Two ==
  ASSUME NEW f \in Names, NEW g \in Names
  PROVE  <<f, g>> \in Stacks /\ <<f>> \o <<g>> = <<f, g>>
<1> DEFINE s == <<g>>
           w == <<f, g>>
           u == <<f>> \o s
<1>1. s \in Stacks /\ Len(s) = 1 /\ s[1] = g
  BY DEF Stacks
<1>2. w \in Stacks /\ Len(w) = 2 /\ w[1] = f /\ w[2] = g
  BY DEF Stacks
<1> HIDE DEF s, w
<1>3. /\ u \in Stacks /\ Len(u) = Len(s) + 1
      /\ \A j \in 1..(Len(s) + 1) : u[j] = IF j = 1 THEN f ELSE s[j - 1]
  BY Zenon, <1>1, InFront
<1> HIDE DEF u
<1>4. Len(u) = 2 /\ u[1] = f /\ u[2] = g
  BY <1>1, <1>3
<1>5. Len(u) = Len(w) /\ \A j \in 1..Len(u) : u[j] = w[j]
  BY <1>2, <1>4
<1>6. u = w
  BY Zenon, <1>2, <1>3, <1>5, SeqEqual DEF Stacks
<1> QED
  BY <1>2, <1>6 DEF u, s, w

LEMMA Three ==
  ASSUME NEW f \in Names, NEW g \in Names, NEW h \in Names
  PROVE  <<f, g, h>> \in Stacks /\ <<f>> \o <<g, h>> = <<f, g, h>>
<1> DEFINE s == <<g, h>>
           w == <<f, g, h>>
           u == <<f>> \o s
<1>1. s \in Stacks /\ Len(s) = 2 /\ s[1] = g /\ s[2] = h
  BY DEF Stacks
<1>2. w \in Stacks /\ Len(w) = 3 /\ w[1] = f /\ w[2] = g /\ w[3] = h
  BY DEF Stacks
<1> HIDE DEF s, w
<1>3. /\ u \in Stacks /\ Len(u) = Len(s) + 1
      /\ \A j \in 1..(Len(s) + 1) : u[j] = IF j = 1 THEN f ELSE s[j - 1]
  BY Zenon, <1>1, InFront
<1> HIDE DEF u
<1>4. Len(u) = 3 /\ u[1] = f /\ u[2] = g /\ u[3] = h
  BY <1>1, <1>3
<1>5. Len(u) = Len(w) /\ \A j \in 1..Len(u) : u[j] = w[j]
  BY <1>2, <1>4
<1>6. u = w
  BY Zenon, <1>2, <1>3, <1>5, SeqEqual DEF Stacks
<1> QED
  BY <1>2, <1>6 DEF u, s, w

LEMMA Four ==
  ASSUME NEW f \in Names, NEW g \in Names, NEW h \in Names, NEW i \in Names
  PROVE  <<f, g, h, i>> \in Stacks /\ <<f>> \o <<g, h, i>> = <<f, g, h, i>>
<1> DEFINE s == <<g, h, i>>
           w == <<f, g, h, i>>
           u == <<f>> \o s
<1>1. s \in Stacks /\ Len(s) = 3 /\ s[1] = g /\ s[2] = h /\ s[3] = i
  BY DEF Stacks
<1>2. w \in Stacks /\ Len(w) = 4 /\ w[1] = f /\ w[2] = g /\ w[3] = h /\ w[4] = i
  BY DEF Stacks
<1> HIDE DEF s, w
<1>3. /\ u \in Stacks /\ Len(u) = Len(s) + 1
      /\ \A j \in 1..(Len(s) + 1) : u[j] = IF j = 1 THEN f ELSE s[j - 1]
  BY Zenon, <1>1, InFront
<1> HIDE DEF u
<1>4. Len(u) = 4 /\ u[1] = f /\ u[2] = g /\ u[3] = h /\ u[4] = i
  BY <1>1, <1>3
<1>5. Len(u) = Len(w) /\ \A j \in 1..Len(u) : u[j] = w[j]
  BY <1>2, <1>4
<1>6. u = w
  BY Zenon, <1>2, <1>3, <1>5, SeqEqual DEF Stacks
<1> QED
  BY <1>2, <1>6 DEF u, s, w

LEMMA Regrouped ==
  ASSUME NEW a \in Stacks, NEW b \in Stacks, NEW t \in Stacks
  PROVE  (a \o b) \o t = a \o (b \o t)
BY SMTT(20), ConcatAssociative DEF Stacks

(* What a call with several functions makes of the stack. *)
LEMMA Call0 == ASSUME NEW t \in Stacks PROVE <<>> \o t = t
BY ConcatEmptySeq DEF Stacks

LEMMA Call2 ==
  ASSUME NEW f \in Names, NEW g \in Names, NEW t \in Stacks
  PROVE  <<f, g>> \o t = Push(f, Push(g, t))
<1> DEFINE a == <<f>>
           b == <<g>>
           ab == <<f, g>>
<1>1. a \in Stacks /\ b \in Stacks
  BY DEF Stacks
<1>2. a \o b = ab
  BY ZenonT(40), Two
<1>3. b \o t = Push(g, t)
  BY DEF Push
<1> HIDE DEF a, b, ab
<1>4. (a \o b) \o t = a \o (b \o t)
  BY Zenon, <1>1, Regrouped
<1>5. ab \o t = a \o Push(g, t)
  BY Zenon, <1>2, <1>3, <1>4
<1> QED
  BY Zenon, <1>5 DEF a, ab, Push

LEMMA Call3 ==
  ASSUME NEW f \in Names, NEW g \in Names, NEW h \in Names, NEW t \in Stacks
  PROVE  <<f, g, h>> \o t = Push(f, Push(g, Push(h, t)))
<1> DEFINE a == <<f>>
           b == <<g, h>>
           ab == <<f, g, h>>
<1>1. a \in Stacks /\ b \in Stacks
  BY Two DEF Stacks
<1>2. a \o b = ab
  BY ZenonT(40), Three
<1>3. b \o t = Push(g, Push(h, t))
  BY Call2
<1> HIDE DEF a, b, ab
<1>4. (a \o b) \o t = a \o (b \o t)
  BY Zenon, <1>1, Regrouped
<1>5. ab \o t = a \o Push(g, Push(h, t))
  BY Zenon, <1>2, <1>3, <1>4
<1> QED
  BY Zenon, <1>5 DEF a, ab, Push

LEMMA Call4 ==
  ASSUME NEW f \in Names, NEW g \in Names, NEW h \in Names, NEW i \in Names, NEW t \in Stacks
  PROVE  <<f, g, h, i>> \o t = Push(f, Push(g, Push(h, Push(i, t))))
<1> DEFINE a == <<f>>
           b == <<g, h, i>>
           ab == <<f, g, h, i>>
<1>1. a \in Stacks /\ b \in Stacks
  BY Three DEF Stacks
<1>2. a \o b = ab
  BY ZenonT(40), Four
<1>3. b \o t = Push(g, Push(h, Push(i, t)))
  BY Call3
<1> HIDE DEF a, b, ab
<1>4. (a \o b) \o t = a \o (b \o t)
  BY Zenon, <1>1, Regrouped
<1>5. ab \o t = a \o Push(g, Push(h, Push(i, t)))
  BY Zenon, <1>2, <1>3, <1>4
<1> QED
  BY Zenon, <1>5 DEF a, ab, Push

LEMMA Frames ==
  /\ K0 \in Stacks /\ K1 \in Stacks /\ Tail1 \in Stacks /\ Tail2 \in Stacks
  /\ K2 \in Stacks /\ K3 \in Stacks /\ K4 \in Stacks
  /\ Push("if_failed", K1) \in Stacks /\ Push("body_done", Tail2) \in Stacks
<1>1. K0 \in Stacks
  BY DEF K0, Stacks
<1>2. /\ "posted" \in Names /\ "finalize" \in Names /\ "read_done" \in Names
      /\ "body_ok" \in Names /\ "if_failed" \in Names /\ "body_done" \in Names
  BY DEF Names
<1>3. K1 \in Stacks
  BY <1>1, <1>2, Pushed DEF K1
<1>4. Tail1 \in Stacks /\ Push("if_failed", K1) \in Stacks
  BY <1>2, <1>3, Pushed DEF Tail1
<1>5. Tail2 \in Stacks
  BY <1>2, <1>4, Pushed DEF Tail2
<1>6. Push("body_done", Tail2) \in Stacks
  BY <1>2, <1>5, Pushed
<1>7. K2 \in Stacks /\ K3 \in Stacks /\ K4 \in Stacks
  BY <1>2, <1>4, <1>5, <1>6, Pushed DEF K2, K3, K4
<1> QED
  BY <1>1, <1>3, <1>4, <1>5, <1>6, <1>7

(* They differ from each other. *)
LEMMA Distinct ==
  /\ K0 # K1 /\ K0 # K2 /\ K0 # K3 /\ K0 # K4 /\ K1 # K2 /\ K1 # K3 /\ K1 # K4
  /\ K2 # K3 /\ K2 # K4 /\ K3 # K4
<1>1. /\ "posted" \in Names /\ "finalize" \in Names /\ "read_done" \in Names
      /\ "body_ok" \in Names /\ "if_failed" \in Names /\ "body_done" \in Names
  BY DEF Names
<1>2. K1 # <<>> /\ Head(K1) = "posted"
  BY <1>1, Frames, Pushed DEF K1
<1>3. /\ K2 # <<>> /\ Head(K2) = "body_ok" /\ Tail(K2) = Tail2
      /\ K3 # <<>> /\ Head(K3) = "body_ok" /\ Tail(K3) = Push("if_failed", K1)
      /\ K4 # <<>> /\ Head(K4) = "body_ok" /\ Tail(K4) = Push("body_done", Tail2)
  BY <1>1, Frames, Pushed DEF K2, K3, K4
<1>4. Head(Tail2) = "read_done"
  BY <1>1, Frames, Pushed DEF Tail2
<1>5. Head(Push("if_failed", K1)) = "if_failed" /\ Head(Push("body_done", Tail2)) = "body_done"
  BY <1>1, Frames, Pushed
<1>6. K0 # K1 /\ K0 # K2 /\ K0 # K3 /\ K0 # K4
  BY <1>2, <1>3 DEF K0
<1>7. K1 # K2 /\ K1 # K3 /\ K1 # K4
  BY <1>2, <1>3
<1>8. K2 # K3 /\ K2 # K4 /\ K3 # K4
  BY <1>3, <1>4, <1>5
<1> QED
  BY <1>6, <1>7, <1>8

LEMMA Owing ==
  Owed(K0) = 0 /\ Owed(K1) = 0 /\ Owed(K2) = 1 /\ Owed(K3) = 0 /\ Owed(K4) = 1
BY Distinct DEF Owed

LEMMA KontIn == ASSUME NEW k \in Konts PROVE k \in Stacks /\ Owed(k) \in 0..1
BY Frames DEF Konts, Owed

LEMMA AreKonts == K0 \in Konts /\ K1 \in Konts /\ K2 \in Konts /\ K3 \in Konts /\ K4 \in Konts
BY DEF Konts

(* The function that runs, and what is below it. *)
LEMMA Running ==
  ASSUME IInv, NEW f, Top(f)
  PROVE  \E t \in Stacks : t = Tail(stack) /\ c.open /\ Facts(f, t)
<1>1. stack # <<>> /\ Head(stack) = f /\ stack \in Stacks /\ Shape
  BY DEF IInv, Top
<1>2. Tail(stack) \in Stacks
  BY <1>1, HeadTailProperties DEF Stacks
<1>3. c.open /\ Facts(f, Tail(stack))
  BY <1>1 DEF Shape
<1> QED
  BY <1>2, <1>3

(* A step to another function. *)
LEMMA Goes ==
  ASSUME NEW f \in Names, NEW t \in Stacks, stack' = Push(f, t),
         c'.open, Facts(f, t)', Store', Edge'
  PROVE  IInv'
<1>1. stack' \in Stacks /\ stack' # <<>> /\ Head(stack') = f /\ Tail(stack') = t
  BY Pushed
<1>2. c'.open /\ Facts(Head(stack), Tail(stack))'
  BY <1>1
<1> QED
  BY <1>1, <1>2 DEF IInv, Shape

(* A step to the event loop. *)
LEMMA Rests ==
  ASSUME stack' = K0, AtLoop', Store', Edge'
  PROVE  IInv'
BY Frames DEF IInv, Shape, K0

(* A return. *)
LEMMA Back ==
  ASSUME NEW k, stack' = k, Ctx(k)', Returned(k, r.count)', c'.open, Store', Edge'
  PROVE  IInv'
<1>1. k \in Konts
  BY DEF Ctx
<1>2. CASE k = K0
  <2>1. AtLoop'
    BY <1>2 DEF AtLoop
  <2> QED
    BY <1>2, <2>1, Rests
<1>3. CASE k = K1
  <2>1. InPosted(K0)'
    BY <1>3 DEF InPosted
  <2>2. Facts("posted", K0)'
    BY <2>1 DEF Facts, Handlers
  <2>3. "posted" \in Names
    BY DEF Names
  <2> QED
    BY <1>3, <2>2, <2>3, Frames, Goes DEF K1
<1>4. CASE k \in {K2, K3, K4}
  <2>1. PICK t \in Stacks : k = Push("body_ok", t)
    BY <1>4, Frames DEF K2, K3, K4
  <2>2. InBodyOk(t)'
    BY <1>4, <2>1 DEF InBodyOk
  <2>3. Facts("body_ok", t)'
    BY <2>2 DEF Facts, Handlers
  <2>4. "body_ok" \in Names
    BY DEF Names
  <2> QED
    BY <2>1, <2>3, <2>4, Goes
<1> QED
  BY <1>1, <1>2, <1>3, <1>4 DEF Konts

-----------------------------------------------------------------------------
(* What a step that leaves the connection and the request alone leaves too. *)
LEMMA Unmoved ==
  ASSUME UNCHANGED <<c, r>>, NEW k, NEW n
  PROVE  /\ Ctx(k)' = Ctx(k) /\ Returned(k, n)' = Returned(k, n) /\ Half(k, n)' = Half(k, n)
         /\ Lingers(k, n)' = Lingers(k, n) /\ Held(k, n)' = Held(k, n)
         /\ Pending(k)' = Pending(k) /\ Answered(k)' = Answered(k) /\ Alone(k)' = Alone(k)
<1>1. Watched' = Watched /\ Timed' = Timed /\ Guarded' = Guarded /\ Dry' = Dry
  BY DEF Watched, Timed, Guarded, Dry
<1>2. Ctx(k)' = Ctx(k)
  BY DEF Ctx
<1>3. Terminated(k, n)' = Terminated(k, n) /\ Lingers(k, n)' = Lingers(k, n)
  BY <1>1 DEF Terminated, Lingers
<1>4. Held(k, n)' = Held(k, n)
  BY <1>1 DEF Held, Serving, Answering
<1>5. Fresh' = Fresh
  BY DEF Fresh
<1>6. Pending(k)' = Pending(k)
  BY <1>1, <1>2, <1>5 DEF Pending
<1>7. Returned(k, n)' = Returned(k, n) /\ Half(k, n)' = Half(k, n)
  BY <1>1, <1>3, <1>4 DEF Returned, Half
<1>8. Answered(k)' = Answered(k)
  BY <1>6 DEF Answered
<1>9. Alone(k)' = Alone(k)
  BY <1>2 DEF Alone
<1> QED
  BY <1>2, <1>3, <1>4, <1>6, <1>7, <1>8, <1>9

LEMMA UnmovedMore ==
  ASSUME UNCHANGED <<c, r>>
  PROVE  /\ Watched' = Watched /\ Timed' = Timed /\ Guarded' = Guarded /\ Dry' = Dry
         /\ Serving' = Serving /\ Counted' = Counted /\ Fresh' = Fresh /\ BodyLeft' = BodyLeft
         /\ Writing' = Writing /\ Unasked' = Unasked /\ Unbuffered' = Unbuffered
<1>1. Watched' = Watched /\ Timed' = Timed /\ Guarded' = Guarded /\ Dry' = Dry
  BY DEF Watched, Timed, Guarded, Dry
<1>2. Serving' = Serving /\ Counted' = Counted /\ Fresh' = Fresh
  BY DEF Serving, Counted, Answering, Fresh
<1>3. BodyLeft' = BodyLeft /\ Unbuffered' = Unbuffered
  BY <1>2 DEF BodyLeft, Unbuffered
<1>4. Writing' = Writing
  BY <1>1, <1>2 DEF Writing
<1>5. Unasked' = Unasked
  BY Unmoved DEF Unasked
<1> QED
  BY <1>1, <1>2, <1>3, <1>4, <1>5

(* The environment touches neither. *)
LEMMA Untouched ==
  ASSUME UNCHANGED <<c, r, rc, script>>, NEW f, NEW t
  PROVE  Facts(f, t)' = Facts(f, t)
<1>1. /\ InWait(f, t)' = InWait(f, t) /\ InHead(f, t)' = InHead(f, t)
      /\ InRequest(t)' = InRequest(t) /\ InReader(f, t)' = InReader(f, t)
  BY UnmovedMore DEF InWait, InHead, InRequest, InReader, Guard
<1>2. /\ InWrite(t)' = InWrite(t) /\ InWritten(t)' = InWritten(t) /\ InOutput(t)' = InOutput(t)
      /\ InSpecial(t)' = InSpecial(t) /\ InDiscard(t)' = InDiscard(t)
  BY Unmoved, UnmovedMore DEF InWrite, InWritten, InOutput, InSpecial, InDiscard
<1>3. /\ InReadDiscarded(t)' = InReadDiscarded(t) /\ InDiscardRest(t)' = InDiscardRest(t)
      /\ InDiscardedDone(t)' = InDiscardedDone(t)
  BY UnmovedMore DEF InReadDiscarded, InDiscardRest, InDiscardedDone
<1>4. /\ InTooLarge(t)' = InTooLarge(t) /\ InUnlessFailed(t)' = InUnlessFailed(t)
      /\ InContent(t)' = InContent(t) /\ InReadBody(t)' = InReadBody(t)
  BY Unmoved, UnmovedMore DEF InTooLarge, InUnlessFailed, InContent, InReadBody
<1>5. InReadDone(t)' = InReadDone(t) /\ InBodyDone(t)' = InBodyDone(t)
  BY Unmoved, UnmovedMore DEF InReadDone, InBodyDone
<1>6. InDoRead(t)' = InDoRead(t) /\ InIfFailed(t)' = InIfFailed(t)
  BY Unmoved, UnmovedMore DEF InDoRead, InIfFailed
<1>7. InUnbufferedDone(t)' = InUnbufferedDone(t) /\ InPostHandler(t)' = InPostHandler(t)
  BY Unmoved, UnmovedMore DEF InUnbufferedDone, InPostHandler
<1>8. InBodyOk(t)' = InBodyOk(t) /\ InPosted(t)' = InPosted(t)
  BY Unmoved DEF InBodyOk, InPosted
<1>9. InFinalize(t)' = InFinalize(t) /\ InTerminate(t)' = InTerminate(t)
  BY Unmoved DEF InFinalize, InTerminate
<1>10. /\ InFinalizeConnection(t)' = InFinalizeConnection(t) /\ InLast(t)' = InLast(t)
       /\ InLingering(t)' = InLingering(t) /\ InCloseRequest(t)' = InCloseRequest(t)
  BY Unmoved DEF InFinalizeConnection, InLast, InLingering, InCloseRequest
<1> QED
  BY <1>1, <1>2, <1>3, <1>4, <1>5, <1>6, <1>7, <1>8, <1>9, <1>10 DEF Facts

LEMMA Elsewhere ==
  ASSUME IInv, UNCHANGED <<c, r, rc, script, stack>>, Store', Edge'
  PROVE  IInv'
<1>1. Facts(Head(stack), Tail(stack))' = Facts(Head(stack), Tail(stack))
  <2> DEFINE f == Head(stack)
             t == Tail(stack)
  <2>1. Facts(Head(stack), Tail(stack))' = Facts(f, t)'
    OBVIOUS
  <2> QED
    BY Untouched
<1>2. AtLoop' = AtLoop
  BY Unmoved, UnmovedMore DEF AtLoop, Idle, Reading
<1> QED
  BY <1>1, <1>2 DEF IInv, Shape

-----------------------------------------------------------------------------
(* The buffers. *)
LEMMA Taken ==
  ASSUME NEW U, NEW s \in Seq(U), NEW n \in 0..Len(s)
  PROVE  /\ First(s, n) \in Seq(U) /\ Len(First(s, n)) = n
         /\ Rest(s, n) \in Seq(U) /\ Len(Rest(s, n)) = Len(s) - n
<1>1. Len(s) \in Nat /\ \A i \in 1..Len(s) : s[i] \in U
  OBVIOUS
<1>2. \A i \in 1..n : s[i] \in U
  BY <1>1
<1>3. First(s, n) \in Seq(U) /\ Len(First(s, n)) = IF 1 <= n THEN n - 1 + 1 ELSE 0
  BY <1>1, <1>2, SubSeqProperties DEF First
<1>4. \A i \in (n + 1)..Len(s) : s[i] \in U
  BY <1>1
<1>5. Rest(s, n) \in Seq(U)
      /\ Len(Rest(s, n)) = IF n + 1 <= Len(s) THEN Len(s) - (n + 1) + 1 ELSE 0
  BY <1>1, <1>4, SubSeqProperties DEF Rest
<1>6. Len(First(s, n)) = n
  BY <1>1, <1>3
<1>7. Len(Rest(s, n)) = Len(s) - n
  BY <1>1, <1>5
<1> QED
  BY <1>3, <1>5, <1>6, <1>7

(* Nothing is left of a sequence, or something was there. *)
LEMMA Empty ==
  ASSUME NEW U, NEW s \in Seq(U)
  PROVE  /\ Len(s) \in Nat /\ (s = <<>> <=> Len(s) = 0)
BY EmptySeq

LEMMA Failing == ASSUME faults \in 0..Faults, Works \/ Fails PROVE faults' \in 0..Faults
BY HttpConnectionAssumption DEF Works, Fails

LEMMA StoreStill ==
  ASSUME StoreB, UNCHANGED <<client, net, buf, room>>, faults' \in 0..Faults
  PROVE  StoreB'
BY DEF StoreB, UnitSet, client

(* The kernel knows what is due. *)
LEMMA EdgeStill ==
  ASSUME Edge, UNCHANGED <<client, net, edge, c>>
  PROVE  Edge'
BY DEF Edge, client

-----------------------------------------------------------------------------
(* The client and the events. *)
LEMMA ClientSendsStep == ASSUME IInv, ClientSends PROVE IInv'
<1>1. UNCHANGED <<c, r, rc, script, stack>> /\ edge'
  BY DEF ClientSends
<1>2. StoreB'
  <2>1. todo # <<>> /\ todo \in Seq(UnitSet) /\ net \in Seq(UnitSet) /\ UnitSet' = UnitSet
    BY <1>1 DEF ClientSends, IInv, Store, StoreB, UnitSet
  <2>2. Tail(todo) \in Seq(UnitSet) /\ Head(todo) \in UnitSet
    BY <2>1, HeadTailProperties
  <2>3. net' \in Seq(UnitSet) /\ todo' \in Seq(UnitSet)
    BY <2>1, <2>2 DEF ClientSends
  <2> QED
    BY <2>1, <2>3 DEF ClientSends, IInv, Store, StoreB
<1>3. Store'
  BY <1>1, <1>2 DEF IInv, Store, StoreC, StoreR
<1>4. Edge'
  BY <1>1 DEF Edge
<1> QED
  BY <1>1, <1>3, <1>4, Elsewhere

LEMMA ClientClosesStep == ASSUME IInv, NEW how \in {"fin", "reset"}, ClientCloses(how) PROVE IInv'
<1>1. UNCHANGED <<c, r, rc, script, stack>> /\ edge'
  BY DEF ClientCloses
<1>2. StoreB'
  <2>1. UnitSet' = UnitSet
    BY <1>1 DEF UnitSet
  <2>2. <<>> \in Seq(UnitSet)
    OBVIOUS
  <2> QED
    BY <2>1, <2>2 DEF ClientCloses, IInv, Store, StoreB
<1>3. Store'
  BY <1>1, <1>2 DEF IInv, Store, StoreC, StoreR
<1>4. Edge'
  BY <1>1 DEF Edge
<1> QED
  BY <1>1, <1>3, <1>4, Elsewhere

(* Two functions on an empty stack. *)
LEMMA Base ==
  ASSUME NEW f \in Names, NEW g \in Names, NEW h \in Names
  PROVE  /\ <<f>> = Push(f, K0) /\ <<f, g>> = Push(f, Push(g, K0))
         /\ <<f, g, h>> = Push(f, Push(g, Push(h, K0)))
<1>0. K0 \in Stacks
  BY Frames
<1>1. <<f>> \in Stacks /\ <<f, g>> \in Stacks /\ <<f, g, h>> \in Stacks
  BY DEF Stacks
<1>2. <<f>> \o K0 = <<f>> /\ <<f, g>> \o K0 = <<f, g>> /\ <<f, g, h>> \o K0 = <<f, g, h>>
  BY <1>1, ConcatEmptySeq DEF K0, Stacks
<1>3. <<f, g>> \o K0 = Push(f, Push(g, K0))
  BY Zenon, <1>0, Call2
<1>4. <<f, g, h>> \o K0 = Push(f, Push(g, Push(h, K0)))
  BY ZenonT(40), <1>0, Call3
<1> QED
  BY <1>2, <1>3, <1>4 DEF Push

LEMMA AtRestIs ==
  ASSUME IInv, AtRest
  PROVE  /\ Idle \/ Reading \/ (Held(K0, r.count) /\ Guarded) \/ Lingers(K0, r.count)
         /\ c.open /\ stack = K0
BY DEF IInv, AtRest, Shape, AtLoop, Returned, Terminated, K0

(* The read handler is called. *)
LEMMA Called ==
  ASSUME IInv, AtRest, UNCHANGED <<r, script>>, c'.open, c'.handler = c.handler,
         c'.wtimer = c.wtimer, c.rtimer => c'.rtimer \/ c'.rtimedout, c.eof => c'.eof,
         stack' = <<c.handler>>, Store', Edge'
  PROVE  IInv'
<1>1. /\ Idle \/ Reading \/ (Held(K0, r.count) /\ Guarded) \/ Lingers(K0, r.count)
  BY AtRestIs
<1>2. c.handler \in Readers /\ c.handler \in Names
  BY DEF IInv, Store, StoreC, Names
<1>3. stack' = Push(c.handler, K0)
  BY <1>2, Base
<1>4. CASE Idle
  <2>1. InWait(c.handler, K0)'
    BY <1>4 DEF Idle, InWait
  <2> QED
    BY <1>2, <1>3, <1>4, <2>1, Goes, Frames DEF Idle, Facts, Handlers
<1>5. CASE Reading
  <2>1. InHead(c.handler, K0)'
    BY <1>5 DEF Reading, InHead, Fresh
  <2> QED
    BY <1>2, <1>3, <1>5, <2>1, Goes, Frames DEF Reading, Facts, Handlers
<1>6. CASE Held(K0, r.count) /\ Guarded
  <2>1. Serving' /\ Watched' /\ Answering' = Answering
    BY <1>6 DEF Held, Serving, Watched, Answering
  <2>2. r.count = Num(r.discard_body) + Num(Answering) + 0 /\ r.count >= 1
    BY <1>6, Owing DEF Held
  <2>3. Counted'
    BY <2>1, <2>2 DEF Counted, Num
  <2>4. /\ r.weh = "writer" => c'.wtimer
        /\ r.reh = "body" => c'.rtimer \/ c'.rtimedout
        /\ r.discard_body /\ r.weh = "empty" => Guard'
    BY <1>6 DEF Held, Timed, Guarded, Guard
  <2>5. InRequest(K0)'
    BY <2>1, <2>3, <2>4 DEF InRequest
  <2>6. c.handler = "request"
    BY <1>6 DEF Held, Serving
  <2>7. Facts("request", K0)'
    BY <2>5 DEF Facts, Handlers
  <2> QED
    BY <1>2, <1>3, <2>6, <2>7, Goes, Frames
<1>7. CASE Lingers(K0, r.count)
  <2>1. InLingering(K0)'
    BY <1>7, AreKonts, Distinct DEF Lingers, InLingering, Alone, Ctx
  <2>2. c.handler = "lingering"
    BY <1>7 DEF Lingers
  <2>3. Facts("lingering", K0)'
    BY <2>1 DEF Facts, Handlers
  <2> QED
    BY <1>2, <1>3, <2>2, <2>3, Goes, Frames
<1> QED
  BY <1>1, <1>4, <1>5, <1>6, <1>7

LEMMA ReadableStep == ASSUME IInv, Readable PROVE IInv'
<1>1. StoreC(c)' /\ StoreR(r)' /\ c.open /\ c'.open
  BY DEF Readable, IInv, Store, StoreC, StoreR, CFields, AtRest
<1>2. StoreB'
  BY StoreStill DEF IInv, Store, StoreB, Readable
<1>3. Edge'
  BY DEF Readable, Edge, IInv, Store, StoreC, CFields
<1>4. /\ UNCHANGED <<r, script>> /\ c'.handler = c.handler /\ c'.wtimer = c.wtimer
      /\ c.rtimer => c'.rtimer \/ c'.rtimedout
      /\ c.eof => c'.eof
  BY DEF Readable, client, IInv, Store, StoreC, CFields
<1> QED
  BY <1>1, <1>2, <1>3, <1>4, Called DEF Readable, Store

LEMMA PostedEventStep == ASSUME IInv, PostedEvent PROVE IInv'
<1>1. StoreC(c)' /\ StoreR(r)' /\ c.open /\ c'.open
  BY DEF PostedEvent, IInv, Store, StoreC, StoreR, CFields, AtRest
<1>2. StoreB'
  BY StoreStill DEF IInv, Store, StoreB, PostedEvent
<1>3. Edge'
  BY DEF PostedEvent, Edge, IInv, Store, StoreC, CFields, client
<1>4. /\ UNCHANGED <<r, script>> /\ c'.handler = c.handler /\ c'.wtimer = c.wtimer
      /\ c.rtimer => c'.rtimer \/ c'.rtimedout
      /\ c.eof => c'.eof
  BY DEF PostedEvent, client, IInv, Store, StoreC, CFields
<1> QED
  BY <1>1, <1>2, <1>3, <1>4, Called DEF PostedEvent, Store

LEMMA ReadTimerStep == ASSUME IInv, ReadTimer PROVE IInv'
<1>1. StoreC(c)' /\ StoreR(r)' /\ c.open /\ c'.open
  BY DEF ReadTimer, IInv, Store, StoreC, StoreR, CFields, AtRest
<1>2. StoreB'
  BY StoreStill DEF IInv, Store, StoreB, ReadTimer
<1>3. Edge'
  BY DEF ReadTimer, Edge, IInv, Store, StoreC, CFields, client
<1>4. /\ UNCHANGED <<r, script>> /\ c'.handler = c.handler /\ c'.wtimer = c.wtimer
      /\ c.rtimer => c'.rtimer \/ c'.rtimedout
      /\ c.eof => c'.eof
  BY DEF ReadTimer, client, IInv, Store, StoreC, CFields
<1> QED
  BY <1>1, <1>2, <1>3, <1>4, Called DEF ReadTimer, Store

LEMMA DrainConnectionStep == ASSUME IInv, DrainConnection PROVE IInv'
<1>1. StoreC(c)' /\ StoreR(r)' /\ c.open /\ c'.open
  BY DEF DrainConnection, IInv, Store, StoreC, StoreR, CFields, AtRest
<1>2. StoreB'
  <2>1. Fails /\ faults \in 0..Faults
    BY DEF DrainConnection, Fails, IInv, Store, StoreB
  <2>2. faults' \in 0..Faults
    BY <2>1, Failing
  <2> QED
    BY <2>2, StoreStill DEF IInv, Store, DrainConnection
<1>3. Edge'
  BY DEF DrainConnection, Edge, IInv, Store, StoreC, CFields, client
<1>4. /\ UNCHANGED <<r, script>> /\ c'.handler = c.handler /\ c'.wtimer = c.wtimer
      /\ c.rtimer => c'.rtimer \/ c'.rtimedout
      /\ c.eof => c'.eof
  BY DEF DrainConnection, client, IInv, Store, StoreC, CFields
<1> QED
  BY <1>1, <1>2, <1>3, <1>4, Called DEF DrainConnection, Store

LEMMA ExitStep == ASSUME IInv, Exit PROVE IInv'
<1>1. StoreB'
  BY StoreStill DEF IInv, Store, StoreB, Exit
<1>2. CASE c.open /\ c.idle
  <2>1. AtRest /\ c' = [c EXCEPT !.close = TRUE] /\ stack' = <<c.handler>>
    BY <1>2 DEF Exit, AtRest
  <2>2. StoreC(c)' /\ StoreR(r)' /\ c'.open
    BY <1>2, <2>1 DEF Exit, IInv, Store, StoreC, StoreR, CFields
  <2>3. Edge'
    BY <2>1 DEF Exit, Edge, IInv, Store, StoreC, CFields, client
  <2>4. /\ UNCHANGED <<r, script>> /\ c'.handler = c.handler /\ c'.wtimer = c.wtimer
        /\ c.rtimer => c'.rtimer \/ c'.rtimedout
        /\ c.eof => c'.eof
    BY <2>1 DEF Exit, client, IInv, Store, StoreC, CFields
  <2> QED
    BY <1>1, <2>1, <2>2, <2>3, <2>4, Called DEF Store
<1>3. CASE ~(c.open /\ c.idle)
  <2>1. UNCHANGED <<c, r, rc, script, stack>> /\ UNCHANGED <<client, net, edge>>
    BY <1>3 DEF Exit, client
  <2>2. Store'
    BY <1>1, <2>1 DEF IInv, Store, StoreC, StoreR
  <2>3. Edge'
    BY <2>1, EdgeStill DEF IInv
  <2> QED
    BY <2>1, <2>2, <2>3, Elsewhere
<1> QED
  BY <1>2, <1>3

(* The write handler of a request is called. *)
LEMMA WriteCalled ==
  ASSUME IInv, AtRest, c.handler = "request", UNCHANGED r, c'.open,
         c'.handler = c.handler, c'.ready = c.ready, c'.eof = c.eof, c'.error = c.error,
         stack' = <<"write", "posted">>, Store', Edge'
  PROVE  IInv'
<1>1. Held(K0, r.count)
  BY AtRestIs DEF Idle, Reading, Lingers
<1>2. Serving' /\ Watched' /\ Answering' = Answering
  BY <1>1 DEF Held, Serving, Watched, Answering
<1>3. r.count = Num(r.discard_body) + Num(Answering) + 0 /\ r.count >= 1
  BY <1>1, Owing DEF Held
<1>4. Counted'
  BY <1>2, <1>3 DEF Counted, Num
<1>5. (r.reh \in {"body", "discarded", "unbuffered"} => Dry)'
  BY <1>1 DEF Held, Timed, Dry
<1>6. InWrite(K1)'
  BY <1>2, <1>4, <1>5 DEF InWrite
<1>7. Facts("write", K1)'
  BY <1>6 DEF Facts, Handlers
<1>8. "write" \in Names /\ "posted" \in Names
  BY DEF Names
<1>9. stack' = Push("write", K1)
  BY Zenon, <1>8, Base DEF K1
<1> QED
  BY <1>7, <1>8, <1>9, Goes, Frames

LEMMA WritableStep == ASSUME IInv, Writable PROVE IInv'
<1>1. StoreC(c)' /\ StoreR(r)' /\ UNCHANGED <<c, r>> /\ c.open
  BY DEF Writable, IInv, Store, StoreC, StoreR, AtRest
<1>2. StoreB'
  BY StoreStill DEF IInv, Store, StoreB, Writable
<1>3. Edge'
  BY EdgeStill DEF Writable, IInv
<1> QED
  BY <1>1, <1>2, <1>3, WriteCalled DEF Writable, Store

LEMMA WriteTimerStep == ASSUME IInv, WriteTimer PROVE IInv'
<1>1. StoreC(c)' /\ StoreR(r)' /\ UNCHANGED r /\ c.open /\ c'.open
  BY DEF WriteTimer, IInv, Store, StoreC, StoreR, AtRest, CFields
<1>2. StoreB'
  BY StoreStill DEF IInv, Store, StoreB, WriteTimer
<1>3. Edge'
  BY DEF WriteTimer, Edge, IInv, Store, StoreC, CFields, client
<1>4. /\ c'.handler = c.handler /\ c'.ready = c.ready /\ c'.eof = c.eof /\ c'.error = c.error
      /\ c'.rtimer = c.rtimer /\ c'.posted = c.posted
  BY DEF WriteTimer, IInv, Store, StoreC, CFields
<1>5. CASE c.handler = "request"
  BY <1>1, <1>2, <1>3, <1>4, <1>5, WriteCalled DEF WriteTimer, Store
<1>6. CASE c.handler # "request"
  <2>1. Idle \/ Reading \/ Lingers(K0, r.count)
    BY <1>6, AtRestIs DEF WriteTimer, Held, Serving
  <2>2. AtLoop'
    <3>1. CASE Idle
      BY <1>1, <1>4, <3>1 DEF AtLoop, Idle, Dry
    <3>2. CASE Reading
      BY <1>1, <1>4, <3>2 DEF AtLoop, Reading, Dry, Fresh, WriteTimer, client
    <3>3. CASE Lingers(K0, r.count)
      BY <1>1, <1>4, <3>3 DEF AtLoop, Returned, Lingers, Dry
    <3> QED
      BY <2>1, <3>1, <3>2, <3>3
  <2>3. stack' = K0
    BY <1>6 DEF WriteTimer, K0
  <2> QED
    BY <1>1, <1>2, <1>3, <2>2, <2>3, Rests DEF Store
<1> QED
  BY <1>5, <1>6

(* What is held does not depend on the count itself, on the body that is    *)
(* left, on how the answer is made or on how long a body is discarded.      *)
AlikeR ==
  /\ (r'.live <=> r.live) /\ r'.posted = r.posted /\ r'.later = r.later /\ r'.reh = r.reh
  /\ r'.weh = r.weh /\ r'.discard_body = r.discard_body
  /\ r'.request_body = r.request_body /\ (r'.no_buffering <=> r.no_buffering)
AlikeC ==
  /\ c'.handler = c.handler /\ c'.rtimer = c.rtimer /\ c'.wtimer = c.wtimer
  /\ c'.ready = c.ready /\ c'.eof = c.eof /\ c'.error = c.error

LEMMA Alike ==
  ASSUME AlikeR, AlikeC, NEW k, NEW n
  PROVE  /\ Ctx(k)' = Ctx(k) /\ Returned(k, n)' = Returned(k, n) /\ Half(k, n)' = Half(k, n)
         /\ Held(k, n)' = Held(k, n) /\ Lingers(k, n)' = Lingers(k, n)
         /\ Watched' = Watched /\ Timed' = Timed /\ Guarded' = Guarded /\ Dry' = Dry
         /\ Serving' = Serving /\ Answering' = Answering
<1>1. Watched' = Watched
  BY DEF Watched, AlikeR
<1>2. Dry' = Dry
  BY DEF Dry, AlikeC
<1>3. Timed' = Timed /\ Guarded' = Guarded
  BY <1>2 DEF Timed, Guarded, AlikeR, AlikeC
<1>4. Serving' = Serving /\ Answering' = Answering
  BY DEF Serving, Answering, AlikeR, AlikeC
<1>5. Ctx(k)' = Ctx(k)
  BY DEF Ctx, AlikeR
<1>6. Terminated(k, n)' = Terminated(k, n) /\ Lingers(k, n)' = Lingers(k, n)
  BY <1>2 DEF Terminated, Lingers, AlikeR, AlikeC
<1>7. Held(k, n)' = Held(k, n)
  BY <1>1, <1>3, <1>4 DEF Held, AlikeR
<1>8. Returned(k, n)' = Returned(k, n) /\ Half(k, n)' = Half(k, n)
  BY <1>3, <1>6, <1>7 DEF Returned, Half
<1> QED
  BY <1>1, <1>2, <1>3, <1>4, <1>5, <1>6, <1>7, <1>8

LEMMA LaterDoneStep == ASSUME IInv, LaterDone PROVE IInv'
<1>1. /\ StoreC(c)' /\ StoreR(r)' /\ UNCHANGED c /\ c.open /\ r.later
      /\ DOMAIN r = RFields
  BY DEF LaterDone, IInv, Store, StoreC, StoreR, AtRest, RFields
<1>2. StoreB'
  BY StoreStill DEF IInv, Store, StoreB, LaterDone
<1>3. Edge'
  BY EdgeStill DEF LaterDone, IInv
<1>4. Held(K0, r.count)
  BY <1>1, AtRestIs DEF LaterDone, Idle, Reading, Lingers, Fresh, NoRequest, NewRequest
<1>5. r.count = Num(r.discard_body) + Num(Answering) + 0
  BY <1>4, Owing DEF Held
<1>6. r'.count = 1 + Num(r'.discard_body) + 0 /\ ~r'.later
  BY <1>1, <1>5 DEF LaterDone, RFields, Answering, Num
<1>7. Pending(K1)'
  <2>1. Ctx(K1)' /\ K1 # K0 /\ Owed(K1) = 0
    BY Distinct, AreKonts, Owing DEF Ctx
  <2>2. r'.live /\ ~r'.posted /\ r'.weh # "none"
    BY <1>1, <1>4 DEF Held, Serving, Watched, LaterDone, RFields
  <2>3. /\ r'.reh \in {"body", "unbuffered"} => r'.request_body
        /\ r'.discard_body => ~r'.request_body /\ r'.reh = "discarded"
    BY <1>1, <1>4 DEF Held, Watched, LaterDone, RFields
  <2>4. r'.reh = "discarded" => Dry'
    BY <1>1, <1>4 DEF Held, Timed, LaterDone, RFields, Dry
  <2> QED
    BY <1>6, <2>1, <2>2, <2>3, <2>4 DEF Pending
<1>8. c.handler = "request"
  BY <1>4 DEF Held, Serving
<1>9. "output" \in Names /\ "finalize" \in Names /\ "posted" \in Names
  BY DEF Names
<1>10. CASE stack' = <<"output", "finalize", "posted">>
  <2>1. InOutput(Tail1)'
    BY <1>1, <1>7, <1>8, AreKonts DEF InOutput, Answered, Tail1
  <2>2. Facts("output", Tail1)'
    BY <2>1 DEF Facts, Handlers
  <2>3. stack' = Push("output", Tail1)
    BY ZenonT(40), <1>9, <1>10, Base DEF Tail1, K1
  <2> QED
    BY <1>1, <1>2, <1>3, <1>9, <2>2, <2>3, Goes, Frames DEF Store
<1>11. CASE stack' = <<"finalize", "posted">> /\ rc' = "502"
  <2>1. InFinalize(K1)'
    <3>1. Ctx(K1)' /\ r'.live /\ ~r'.posted /\ r'.weh # "none" /\ K1 # K0
      BY <1>7, Distinct DEF Pending
    <3>2. r'.count \in 1..2
      BY <1>6 DEF Num
    <3> QED
      BY <1>1, <1>7, <1>8, <1>11, <3>1, <3>2, Owing DEF InFinalize
  <2>2. Facts("finalize", K1)'
    BY <2>1 DEF Facts, Handlers
  <2>3. stack' = Push("finalize", K1)
    BY Zenon, <1>9, <1>11, Base DEF K1
  <2> QED
    BY <1>1, <1>2, <1>3, <1>9, <2>2, <2>3, Goes, Frames DEF Store
<1> QED
  BY <1>10, <1>11 DEF LaterDone

LEMMA UpstreamSendsRequestStep == ASSUME IInv, UpstreamSendsRequest PROVE IInv'
<1>1. /\ StoreC(c)' /\ StoreR(r)' /\ UNCHANGED c /\ c.open /\ r.later
      /\ DOMAIN r = RFields
  BY DEF UpstreamSendsRequest, IInv, Store, StoreC, StoreR, AtRest, RFields, Handlers
<1>2. StoreB'
  BY StoreStill DEF IInv, Store, StoreB, UpstreamSendsRequest
<1>3. Edge'
  BY EdgeStill DEF UpstreamSendsRequest, IInv
<1>4. Held(K0, r.count)
  BY <1>1, AtRestIs
     DEF UpstreamSendsRequest, Idle, Reading, Lingers, Fresh, NoRequest, NewRequest
<1>5. r.count = Num(r.discard_body) + Num(Answering) + 0
  BY <1>4, Owing DEF Held
<1>6. ~r.discard_body /\ r.request_body /\ Serving /\ r.weh \notin {"none", "writer"}
  BY <1>1, <1>4 DEF Held, Watched
<1>7. r.count = 1
  BY <1>1, <1>5, <1>6 DEF Answering, Num
<1>8. Unbuffered'
  BY <1>1, <1>6, <1>7 DEF Unbuffered, BodyLeft, Serving, UpstreamSendsRequest, RFields
<1>9. "do_read" \in Names /\ "unbuffered_done" \in Names /\ "posted" \in Names
  BY DEF Names
<1>10. InDoRead(Push("unbuffered_done", K1))'
  BY <1>8 DEF InDoRead
<1>11. Facts("do_read", Push("unbuffered_done", K1))'
  BY <1>10 DEF Facts, Handlers
<1>12. stack' = Push("do_read", Push("unbuffered_done", K1))
  BY ZenonT(40), <1>9, Base DEF UpstreamSendsRequest, K1
<1>13. Push("unbuffered_done", K1) \in Stacks
  BY <1>9, Pushed, Frames
<1> QED
  BY <1>1, <1>2, <1>3, <1>9, <1>11, <1>12, <1>13, Goes DEF Store

LEMMA LingeringTimePassesStep == ASSUME IInv, LingeringTimePasses PROVE IInv'
<1>1. /\ StoreC(c)' /\ StoreR(r)' /\ UNCHANGED c /\ DOMAIN r = RFields
  BY DEF LingeringTimePasses, IInv, Store, StoreC, StoreR, AtRest, RFields
<1>2. StoreB'
  BY StoreStill DEF IInv, Store, StoreB, LingeringTimePasses
<1>3. Edge'
  BY EdgeStill DEF LingeringTimePasses, IInv
<1>4. AlikeR /\ AlikeC /\ r'.count = r.count
  BY <1>1 DEF LingeringTimePasses, AlikeR, AlikeC, RFields
<1>5. CASE Reading
  <2>1. Fresh' /\ r'.q = r.q
    BY <1>1, <1>5 DEF Reading, Fresh, LingeringTimePasses, RFields
  <2>2. Reading'
    BY <1>1, <1>5, <2>1 DEF Reading, Dry, LingeringTimePasses, client
  <2>3. AtLoop' /\ stack' = K0
    BY <2>2 DEF AtLoop, LingeringTimePasses, AtRest, K0
  <2> QED
    BY <1>1, <1>2, <1>3, <2>3, Rests DEF Store
<1>6. CASE Returned(K0, r.count)
  <2>1. Returned(K0, r.count)'
    BY <1>4, <1>6, Alike
  <2>2. AtLoop' /\ stack' = K0
    BY <2>1 DEF AtLoop, LingeringTimePasses, AtRest, K0
  <2> QED
    BY <1>1, <1>2, <1>3, <2>2, Rests DEF Store
<1>7. ~Idle
  BY DEF LingeringTimePasses, Idle, NoRequest, NewRequest
<1> QED
  BY <1>5, <1>6, <1>7, AtRestIs DEF LingeringTimePasses, Returned

-----------------------------------------------------------------------------
(* The end of a connection and of a request. *)

(* A step that takes nothing from the buffers. *)
LEMMA Quiet ==
  ASSUME IInv, UNCHANGED <<client, net, edge, buf, room, faults>>, StoreC(c)', StoreR(r)',
         c'.open => c.open, c.ready => c'.ready, c.eof => c'.eof, c.error => c'.error
  PROVE  Store' /\ Edge'
<1>1. StoreB'
  BY StoreStill DEF IInv, Store, StoreB
<1>2. Edge'
  BY DEF IInv, Edge, client
<1> QED
  BY <1>1, <1>2 DEF Store

LEMMA QuietC ==
  ASSUME IInv, UNCHANGED <<client, net, edge, buf, room, faults, c>>, StoreR(r)'
  PROVE  Store' /\ Edge'
<1>1. StoreC(c)'
  BY DEF IInv, Store, StoreC
<1> QED
  BY <1>1, Quiet

LEMMA QuietCR ==
  ASSUME IInv, UNCHANGED <<client, net, edge, buf, room, faults, c, r>>
  PROVE  Store' /\ Edge'
<1>1. StoreR(r)'
  BY DEF IInv, Store, StoreR
<1> QED
  BY <1>1, QuietC

LEMMA PendingAlike ==
  ASSUME AlikeR, r'.count = r.count, r'.rest = r.rest, Dry => Dry', NEW k, Pending(k)
  PROVE  Pending(k)'
<1>1. Ctx(k)' = Ctx(k)
  BY DEF Ctx, AlikeR
<1>2. Fresh' = Fresh
  BY DEF Fresh, AlikeR
<1> QED
  BY <1>1, <1>2 DEF Pending, AlikeR

LEMMA CloseConnectionStep == ASSUME IInv, CloseConnection PROVE IInv'
<1>1. StoreC(c)' /\ ~c'.open
  BY HttpConnectionAssumption DEF CloseConnection, StoreC, NewConnection, CFields, Readers
<1>2. StoreR(r)'
  BY DEF CloseConnection, StoreR, NoRequest, NewRequest, RFields, Handlers
<1>3. StoreB'
  <2>1. UnitSet' = UnitSet /\ <<>> \in Seq(UnitSet) /\ Len(<<>>) = 0 /\ Len(buf) \in Nat
    BY DEF CloseConnection, client, UnitSet, IInv, Store, StoreB
  <2> QED
    BY <2>1, HttpConnectionAssumption DEF CloseConnection, client, IInv, Store, StoreB
<1>4. Edge'
  BY <1>1 DEF Edge
<1>5. AtLoop' /\ stack' = K0
  BY <1>1 DEF AtLoop, CloseConnection, K0
<1> QED
  BY <1>1, <1>2, <1>3, <1>4, <1>5, Rests DEF Store

(* The connection is closed next. *)
LEMMA Closes ==
  ASSUME NEW t \in Stacks, stack' = Push("close_connection", t), c'.open, Store', Edge'
  PROVE  IInv'
<1>1. Facts("close_connection", t)'
  BY DEF Facts, Handlers
<1>2. "close_connection" \in Names
  BY DEF Names
<1> QED
  BY <1>1, <1>2, Goes

LEMMA CloseRequestStep == ASSUME IInv, CloseRequest PROVE IInv'
<1>1. PICK t \in Stacks : t = Tail(stack) /\ c.open /\ Facts("close_request", t)
  BY Running DEF CloseRequest
<1>2. Ctx(t) /\ r.live /\ r.count >= 1 /\ (r.count # 1 => t # K0 /\ Returned(t, r.count - 1))
  BY <1>1 DEF Facts, InCloseRequest
<1>3. StoreR(r)' /\ DOMAIN r = RFields
  BY <1>2 DEF CloseRequest, IInv, Store, StoreR, RFields
<1>4. Store' /\ Edge' /\ UNCHANGED c
  BY <1>3, QuietC DEF CloseRequest
<1>5. CASE r.count # 1
  <2>1. AlikeR /\ AlikeC /\ r'.count = r.count - 1
    BY <1>2, <1>3, <1>4, <1>5 DEF CloseRequest, AlikeR, AlikeC, RFields
  <2>2. Ctx(t)' /\ Returned(t, r.count)'
    BY <1>2, <1>5, <2>1, Alike
  <2>3. stack' = t
    BY <1>1, <1>5 DEF CloseRequest, Return
  <2> QED
    BY <1>1, <1>4, <2>2, <2>3, Back
<1>6. CASE r.count = 1
  <2>1. stack' = Push("close_connection", t)
    BY <1>1, <1>6 DEF CloseRequest, Call, Push
  <2> QED
    BY <1>1, <1>4, <2>1, Closes
<1> QED
  BY <1>5, <1>6

LEMMA TerminateRequestStep == ASSUME IInv, TerminateRequest PROVE IInv'
<1>1. PICK t \in Stacks : t = Tail(stack) /\ c.open /\ Facts("terminate", t)
  BY Running DEF TerminateRequest
<1>2. InTerminate(t)
  BY <1>1 DEF Facts
<1>3. StoreR(r) /\ DOMAIN r = RFields
  BY DEF IInv, Store, StoreR
<1>5. CASE r.weh # "none"
  <2>0. r' = [r EXCEPT !.weh = "terminate", !.posted = TRUE] /\ UNCHANGED c
    BY <1>5 DEF TerminateRequest
  <2>1. /\ r'.live = r.live /\ r'.posted /\ r'.weh = "terminate" /\ r'.count = r.count
        /\ r'.request_body = r.request_body /\ r'.no_buffering = r.no_buffering
    BY <1>3, <2>0 DEF RFields
  <2>2. StoreR(r)'
    BY <1>3, <2>0 DEF StoreR, RFields
  <2>3. Store' /\ Edge'
    BY <2>0, <2>2, QuietC DEF TerminateRequest
  <2>4. Ctx(t)'
    BY <1>2, <2>1 DEF InTerminate, Ctx
  <2>5. Terminated(t, r.count)'
    BY <1>2, <1>5, <2>0, <2>1 DEF InTerminate, Terminated
  <2>6. stack' = t
    BY <1>1, <1>5 DEF TerminateRequest, Return
  <2> QED
    BY <1>1, <2>0, <2>3, <2>4, <2>5, <2>6, Back DEF Returned
<1>6. CASE r.weh = "none"
  <2>0. UNCHANGED <<c, r>> /\ Store' /\ Edge'
    BY <1>6, QuietCR DEF TerminateRequest
  <2>1. InCloseRequest(t)'
    BY <1>2, <1>6, <2>0 DEF InTerminate, Ctx, InCloseRequest
  <2>2. Facts("close_request", t)' /\ "close_request" \in Names
    BY <2>1 DEF Facts, Handlers, Names
  <2>3. stack' = Push("close_request", t)
    BY <1>1, <1>6 DEF TerminateRequest, Call, Push
  <2> QED
    BY <1>1, <2>0, <2>2, <2>3, Goes
<1> QED
  BY <1>5, <1>6

(* The event loop and a request handler make no demands. *)
LEMMA Low == Ctx(K0) /\ Ctx(K1) /\ Ctx(K0)' /\ Ctx(K1)'
BY AreKonts, Distinct DEF Ctx

LEMMA RunPostedRequestsStep == ASSUME IInv, RunPostedRequests PROVE IInv'
<1>1. PICK t \in Stacks : t = Tail(stack) /\ c.open /\ Facts("posted", t)
  BY Running DEF RunPostedRequests
<1>2. t = K0 /\ Returned(K1, r.count)
  BY <1>1 DEF Facts, InPosted
<1>3. StoreR(r) /\ DOMAIN r = RFields
  BY DEF IInv, Store, StoreR
<1>4. CASE r.live /\ r.posted
  <2>1. r' = [r EXCEPT !.posted = FALSE, !.count = 1] /\ UNCHANGED c
    BY <1>4 DEF RunPostedRequests
  <2>2. r'.live = r.live /\ r'.count = 1 /\ StoreR(r)'
    BY <1>3, <2>1 DEF RFields, StoreR
  <2>3. Store' /\ Edge'
    BY <2>1, <2>2, QuietC DEF RunPostedRequests
  <2>4. InCloseRequest(K0)'
    BY <1>4, <2>2, Low DEF InCloseRequest
  <2>5. Facts("close_request", K0)' /\ "close_request" \in Names
    BY <2>4 DEF Facts, Handlers, Names
  <2>6. stack' = Push("close_request", K0)
    BY <1>1, <1>2, <1>4 DEF RunPostedRequests, Call, Push
  <2> QED
    BY <1>1, <1>2, <2>1, <2>3, <2>5, <2>6, Goes
<1>5. CASE ~(r.live /\ r.posted)
  <2>1. UNCHANGED <<c, r>> /\ stack' = K0 /\ Store' /\ Edge'
    BY <1>1, <1>2, <1>5, QuietCR DEF RunPostedRequests, Return
  <2>2. Returned(K0, r.count)
    BY <1>2, <1>5, Owing DEF Returned, Terminated, Held, Lingers
  <2>3. Returned(K0, r.count)'
    BY <2>1, <2>2, Unmoved
  <2>4. AtLoop'
    BY <2>3 DEF AtLoop
  <2> QED
    BY <2>1, <2>4, Rests
<1> QED
  BY <1>4, <1>5

LEMMA FinalizeDoneStep == ASSUME IInv, FinalizeDone PROVE IInv'
<1>1. PICK t \in Stacks : t = Tail(stack) /\ c.open /\ Facts("finalize", t)
  BY Running DEF FinalizeDone
<1>2. InFinalize(t)
  BY <1>1 DEF Facts
<1>3. UNCHANGED <<c, r>> /\ Store' /\ Edge'
  BY QuietCR DEF FinalizeDone
<1>4. InFinalizeConnection(t)
  BY <1>2, Distinct, Owing DEF FinalizeDone, InFinalize, InFinalizeConnection, Alone
<1>5. InFinalizeConnection(t)'
  BY <1>3, <1>4, Unmoved DEF InFinalizeConnection
<1>6. Facts("finalize_connection", t)' /\ "finalize_connection" \in Names
  BY <1>5 DEF Facts, Handlers, Names
<1>7. stack' = Push("finalize_connection", t)
  BY <1>1 DEF FinalizeDone, Call, Push
<1> QED
  BY <1>1, <1>3, <1>6, <1>7, Goes

LEMMA FinalizeErrorStep == ASSUME IInv, FinalizeError PROVE IInv'
<1>1. PICK t \in Stacks : t = Tail(stack) /\ c.open /\ Facts("finalize", t)
  BY Running DEF FinalizeError
<1>2. InFinalize(t)
  BY <1>1 DEF Facts
<1>3. UNCHANGED <<c, r>> /\ Store' /\ Edge'
  BY QuietCR DEF FinalizeError
<1>4. InTerminate(t)
  <2>1. CASE t # K0
    BY <1>2, <2>1 DEF FinalizeError, InFinalize, InTerminate
  <2>2. CASE t = K0
    BY <1>2, <2>2 DEF FinalizeError, InFinalize, InTerminate
  <2> QED
    BY <2>1, <2>2
<1>5. InTerminate(t)'
  BY <1>3, <1>4, Unmoved DEF InTerminate
<1>6. Facts("terminate", t)' /\ "terminate" \in Names
  BY <1>5 DEF Facts, Handlers, Names
<1>7. stack' = Push("terminate", t)
  BY <1>1 DEF FinalizeError, Call, Push
<1> QED
  BY <1>1, <1>3, <1>6, <1>7, Goes

(* The answer of a request goes out: the chain of output and finalize. *)
LEMMA ChainIn ==
  ASSUME NEW k \in Konts
  PROVE  /\ k \in Stacks /\ Push("finalize", k) \in Stacks /\ Chain(k) \in Stacks
         /\ Push("special", Chain(k)) \in Stacks
<1>1. "output" \in Names /\ "finalize" \in Names /\ "special" \in Names
  BY DEF Names
<1> QED
  BY <1>1, KontIn, Pushed DEF Chain

LEMMA FinalizeSpecialStep == ASSUME IInv, FinalizeSpecial PROVE IInv'
<1>1. PICK t \in Stacks : t = Tail(stack) /\ c.open /\ Facts("finalize", t)
  BY Running DEF FinalizeSpecial
<1>2. InFinalize(t)
  BY <1>1 DEF Facts
<1>3. Pending(t) /\ t \in Konts
  BY <1>2 DEF FinalizeSpecial, InFinalize, Ctx, Special
<1>4. StoreR(r) /\ StoreC(c) /\ DOMAIN r = RFields /\ DOMAIN c = CFields
  BY DEF IInv, Store, StoreR, StoreC
<1>5. /\ c'.handler = "request" /\ c'.ready = c.ready /\ c'.eof = c.eof /\ c'.error = c.error
      /\ c'.open = c.open
  BY <1>4 DEF FinalizeSpecial, CFields
<1>6. StoreC(c)'
  BY <1>4 DEF FinalizeSpecial, StoreC, CFields, Readers
<1>7. AlikeR /\ r'.count = r.count /\ r'.rest = r.rest
  BY <1>4 DEF FinalizeSpecial, AlikeR, RFields
<1>8. StoreR(r)'
  BY <1>4 DEF FinalizeSpecial, StoreR, RFields
<1>9. Store' /\ Edge'
  BY <1>5, <1>6, <1>8, Quiet DEF FinalizeSpecial
<1>10. Answered(t)'
  BY <1>3, <1>5, <1>7, PendingAlike DEF Answered, Dry
<1>11. InDiscard(Push("special", Chain(t)))'
  BY <1>3, <1>10 DEF InDiscard
<1>12. Facts("discard", Push("special", Chain(t)))'
  BY <1>11 DEF Facts, Handlers
<1>13. /\ "discard" \in Names /\ "special" \in Names
       /\ "output" \in Names /\ "finalize" \in Names
  BY DEF Names
<1>14. stack' = <<"discard", "special", "output", "finalize">> \o t
  BY <1>1 DEF FinalizeSpecial, Call
<1>15. stack' = Push("discard", Push("special", Chain(t)))
  BY SMT, <1>13, <1>14, Call4 DEF Chain
<1>16. Push("special", Chain(t)) \in Stacks
  BY <1>3, ChainIn
<1> QED
  BY <1>1, <1>5, <1>9, <1>12, <1>13, <1>15, <1>16, Goes

LEMMA SpecialResponseStep == ASSUME IInv, SpecialResponse PROVE IInv'
<1>1. PICK t \in Stacks : t = Tail(stack) /\ c.open /\ Facts("special", t)
  BY Running DEF SpecialResponse
<1>2. PICK k \in Konts : t = Chain(k) /\ Answered(k)
  BY <1>1 DEF Facts, InSpecial
<1>3. StoreR(r) /\ DOMAIN r = RFields
  BY DEF IInv, Store, StoreR
<1>4. AlikeR /\ r'.count = r.count /\ r'.rest = r.rest /\ UNCHANGED c
  BY <1>3 DEF SpecialResponse, AlikeR, RFields
<1>5. StoreR(r)'
  BY <1>3 DEF SpecialResponse, StoreR, RFields
<1>6. Store' /\ Edge'
  BY <1>4, <1>5, QuietC DEF SpecialResponse
<1>7. Answered(k)'
  BY <1>2, <1>4, PendingAlike DEF Answered, Dry
<1>8. InOutput(Push("finalize", k))'
  BY <1>7 DEF InOutput
<1>9. Facts("output", Push("finalize", k))' /\ "output" \in Names
  BY <1>8 DEF Facts, Handlers, Names
<1>10. stack' = Push("output", Push("finalize", k))
  BY <1>1, <1>2 DEF SpecialResponse, Return, Chain
<1> QED
  BY <1>1, <1>4, <1>6, <1>9, <1>10, ChainIn, Goes

LEMMA FinalizeBufferedStep == ASSUME IInv, FinalizeBuffered PROVE IInv'
<1>1. PICK t \in Stacks : t = Tail(stack) /\ c.open /\ Facts("finalize", t)
  BY Running DEF FinalizeBuffered
<1>2. InFinalize(t)
  BY <1>1 DEF Facts
<1>3. Pending(t) /\ t \in Konts /\ Ctx(t) /\ c.handler = "request"
  BY <1>2 DEF FinalizeBuffered, InFinalize, Ctx, Special
<1>4. StoreR(r) /\ StoreC(c) /\ DOMAIN r = RFields /\ DOMAIN c = CFields
  BY DEF IInv, Store, StoreR, StoreC
<1>5. /\ c'.handler = c.handler /\ c'.ready = c.ready /\ c'.eof = c.eof /\ c'.error = c.error
      /\ c'.open = c.open /\ c'.wtimer
  BY <1>4 DEF FinalizeBuffered, CFields
<1>6. StoreC(c)'
  BY <1>4 DEF FinalizeBuffered, StoreC, CFields
<1>7. /\ r'.weh = "writer" /\ r'.reh = (IF r.discard_body THEN "discarded" ELSE "test")
      /\ r'.live = r.live /\ r'.posted = r.posted /\ r'.later = r.later
      /\ r'.discard_body = r.discard_body /\ r'.request_body = r.request_body
      /\ r'.no_buffering = r.no_buffering /\ r'.count = r.count
  BY <1>4 DEF FinalizeBuffered, RFields
<1>8. StoreR(r)'
  BY <1>4 DEF FinalizeBuffered, StoreR, RFields, Handlers
<1>9. Store' /\ Edge'
  BY <1>5, <1>6, <1>8, Quiet DEF FinalizeBuffered
<1>10. Ctx(t)'
  BY <1>3, <1>7 DEF Ctx
<1>11. Serving' /\ Watched'
  BY <1>3, <1>5, <1>7 DEF Pending, Serving, Watched
<1>12. Timed' /\ Guarded'
  BY <1>3, <1>5, <1>7 DEF Pending, Timed, Guarded, Dry
<1>13. Answering'
  BY <1>7 DEF Answering
<1>14. r.count = 1 + Num(r.discard_body) + Owed(t) /\ Owed(t) \in 0..1
  BY <1>3, KontIn DEF Pending
<1>15. /\ r'.count = Num(r'.discard_body) + Num(Answering') + Owed(t)
       /\ r'.count >= 1
  BY <1>7, <1>13, <1>14 DEF Num
<1>16. Returned(t, r.count)'
  BY <1>11, <1>12, <1>15 DEF Returned, Held
<1>17. stack' = t
  BY <1>1 DEF FinalizeBuffered, Return
<1> QED
  BY <1>1, <1>5, <1>9, <1>10, <1>16, <1>17, Back

LEMMA FinalizeCompleteStep == ASSUME IInv, FinalizeComplete PROVE IInv'
<1>1. PICK t \in Stacks : t = Tail(stack) /\ c.open /\ Facts("finalize", t)
  BY Running DEF FinalizeComplete
<1>2. InFinalize(t)
  BY <1>1 DEF Facts
<1>3. Pending(t) /\ t \in Konts /\ Ctx(t) /\ c.handler = "request"
  BY <1>2 DEF FinalizeComplete, InFinalize, Ctx, Special
<1>4. StoreR(r) /\ StoreC(c) /\ DOMAIN r = RFields /\ DOMAIN c = CFields
  BY DEF IInv, Store, StoreR, StoreC
<1>5. /\ c'.handler = c.handler /\ c'.ready = c.ready /\ c'.eof = c.eof /\ c'.error = c.error
      /\ c'.open = c.open
  BY <1>4 DEF FinalizeComplete, CFields
<1>6. StoreC(c)'
  BY <1>4 DEF FinalizeComplete, StoreC, CFields
<1>7. /\ r'.weh = "empty" /\ r'.reh = r.reh
      /\ r'.live = r.live /\ r'.posted = r.posted /\ r'.later = r.later
      /\ r'.discard_body = r.discard_body /\ r'.request_body = r.request_body
      /\ r'.no_buffering = r.no_buffering /\ r'.count = r.count
  BY <1>4 DEF FinalizeComplete, RFields
<1>8. StoreR(r)'
  BY <1>4 DEF FinalizeComplete, StoreR, RFields
<1>9. Store' /\ Edge'
  BY <1>5, <1>6, <1>8, Quiet DEF FinalizeComplete
<1>10. Ctx(t)' /\ r'.live /\ ~r'.later /\ ~r'.posted
  BY <1>3, <1>7 DEF Ctx, Pending
<1>11. r.count = 1 + Num(r.discard_body) + Owed(t) /\ Owed(t) \in 0..1 /\ r.count >= 1
  BY <1>3, KontIn DEF Pending, Num
<1>12. ASSUME r.count # 1
       PROVE  t # K0 /\ Held(t, r.count - 1)'
  <2>1. r.discard_body \/ Owed(t) = 1
    BY <1>11, <1>12 DEF Num
  <2>2. t # K0 /\ r.reh \notin {"body", "unbuffered"}
    BY <1>3, <1>12, <2>1 DEF Pending, Fresh
  <2>3. Serving' /\ Watched' /\ ~Answering'
    BY <1>3, <1>5, <1>7, <2>2 DEF Pending, Serving, Watched, Answering
  <2>4. Timed'
    BY <1>3, <1>5, <1>7, <2>2 DEF Pending, Timed, Dry
  <2>5. /\ r'.count - 1 = Num(r'.discard_body) + Num(Answering') + Owed(t)
        /\ r'.count - 1 >= 1
    BY <1>7, <1>11, <1>12, <2>3 DEF Num
  <2> QED
    BY <2>2, <2>3, <2>4, <2>5 DEF Held
<1>13. CASE c.eof
  <2>1. Guarded'
    BY <1>5, <1>13 DEF Guarded
  <2>2. InCloseRequest(t)'
    BY <1>7, <1>10, <1>11, <1>12, <2>1 DEF InCloseRequest, Returned
  <2>3. Facts("close_request", t)' /\ "close_request" \in Names
    BY <2>2 DEF Facts, Handlers, Names
  <2>4. stack' = Push("close_request", t)
    BY <1>1, <1>13 DEF FinalizeComplete, Call, Push
  <2> QED
    BY <1>1, <1>5, <1>9, <2>3, <2>4, Goes
<1>14. CASE ~c.eof
  <2>1. r.count = 1 => Owed(t) = 0
    BY <1>11 DEF Num
  <2>2. InFinalizeConnection(t)'
    BY <1>7, <1>10, <1>12, <2>1 DEF InFinalizeConnection, Alone, Half
  <2>3. Facts("finalize_connection", t)' /\ "finalize_connection" \in Names
    BY <2>2 DEF Facts, Handlers, Names
  <2>4. stack' = Push("finalize_connection", t)
    BY <1>1, <1>14 DEF FinalizeComplete, Call, Push
  <2> QED
    BY <1>1, <1>5, <1>9, <2>3, <2>4, Goes
<1> QED
  BY <1>13, <1>14

LEMMA FinalizeConnectionSharedStep == ASSUME IInv, FinalizeConnectionShared PROVE IInv'
<1>1. PICK t \in Stacks : t = Tail(stack) /\ c.open /\ Facts("finalize_connection", t)
  BY Running DEF FinalizeConnectionShared
<1>2. Ctx(t) /\ r.count # 1 /\ t # K0 /\ Half(t, r.count - 1)
  BY <1>1 DEF Facts, InFinalizeConnection, Alone, FinalizeConnectionShared
<1>3. StoreR(r) /\ StoreC(c) /\ DOMAIN r = RFields /\ DOMAIN c = CFields
  BY DEF IInv, Store, StoreR, StoreC
<1>4. r.count >= 1 /\ r.live
  BY <1>2, KontIn, <1>3
     DEF Half, Terminated, Held, Serving, Ctx, StoreR
<1>5. stack' = Push("close_request", t)
  BY <1>1 DEF FinalizeConnectionShared, Call, Push
<1>6. "close_request" \in Names
  BY DEF Names
<1>7. CASE r.discard_body
  <2>1. /\ r' = [r EXCEPT !.reh = "discarded",
                          !.lingering_time = IF @ = "none" THEN "set" ELSE @]
        /\ c' = [c EXCEPT !.rtimer = TRUE]
    BY <1>7 DEF FinalizeConnectionShared
  <2>2. /\ c'.handler = c.handler /\ c'.ready = c.ready /\ c'.eof = c.eof /\ c'.error = c.error
        /\ c'.open = c.open /\ c'.rtimer /\ c'.wtimer = c.wtimer
    BY <1>3, <2>1 DEF CFields
  <2>3. /\ r'.reh = "discarded" /\ r'.weh = r.weh
        /\ r'.live = r.live /\ r'.posted = r.posted /\ r'.later = r.later
        /\ r'.discard_body = r.discard_body /\ r'.request_body = r.request_body
        /\ r'.no_buffering = r.no_buffering /\ r'.count = r.count
    BY <1>3, <2>1 DEF RFields
  <2>4. StoreC(c)'
    BY <1>3, <2>1 DEF StoreC, CFields
  <2>5. StoreR(r)'
    <3>1. ~(r.rest < 0)
      BY <1>3, <1>7 DEF StoreR
    <3>2. /\ DOMAIN r' = RFields /\ r'.rest = r.rest /\ r'.state = r.state
          /\ r'.lingering_time
               = (IF r.lingering_time = "none" THEN "set" ELSE r.lingering_time)
      BY <1>3, <2>1 DEF RFields
    <3> QED
      BY <1>3, <2>3, <3>1, <3>2 DEF StoreR, Handlers
  <2>6. Store' /\ Edge'
    BY <2>2, <2>4, <2>5, Quiet DEF FinalizeConnectionShared
  <2>7. Ctx(t)'
    BY <1>2, <2>3 DEF Ctx
  <2>8. ASSUME Terminated(t, r.count - 1) PROVE Returned(t, r.count - 1)'
    <3>1. Terminated(t, r.count - 1)'
      BY <2>2, <2>3, <2>8 DEF Terminated
    <3> QED
      BY <3>1 DEF Returned
  <2>9. ASSUME Held(t, r.count - 1) PROVE Returned(t, r.count - 1)'
    <3>1. r.reh = "discarded"
      BY <1>7, <2>9 DEF Held, Watched
    <3>2. Serving' /\ Watched' /\ Timed' /\ Answering' = Answering
      BY <2>2, <2>3, <2>9, <3>1 DEF Held, Serving, Watched, Timed, Answering, Dry
    <3>3. Held(t, r.count - 1)'
      BY <2>3, <2>9, <3>2 DEF Held
    <3> QED
      BY <2>2, <3>3 DEF Returned, Guarded
  <2>10. Returned(t, r.count - 1)'
    BY <1>2, <2>8, <2>9 DEF Half, Returned
  <2>11. InCloseRequest(t)'
    BY <1>2, <1>4, <2>3, <2>7, <2>10 DEF InCloseRequest
  <2>12. Facts("close_request", t)'
    BY <2>11 DEF Facts, Handlers
  <2> QED
    BY <1>1, <1>5, <1>6, <2>2, <2>6, <2>12, Goes
<1>8. CASE ~r.discard_body
  <2>1. UNCHANGED <<c, r>> /\ Store' /\ Edge'
    BY <1>8, QuietCR DEF FinalizeConnectionShared
  <2>2. Returned(t, r.count - 1)
    BY <1>2, <1>8 DEF Half, Returned, Guarded
  <2>3. InCloseRequest(t)
    BY <1>2, <1>4, <2>2 DEF InCloseRequest
  <2>4. InCloseRequest(t)'
    BY <2>1, <2>3, Unmoved DEF InCloseRequest
  <2>5. Facts("close_request", t)'
    BY <2>4 DEF Facts, Handlers
  <2> QED
    BY <1>1, <1>5, <1>6, <2>1, <2>5, Goes
<1> QED
  BY <1>7, <1>8

(* A request that nobody else holds may be freed at once. *)
LEMMA AloneCloses ==
  ASSUME NEW t, Alone(t)'
  PROVE  InCloseRequest(t)'
BY DEF Alone, InCloseRequest

LEMMA FinalizeConnectionLastStep == ASSUME IInv, FinalizeConnectionLast PROVE IInv'
<1>1. PICK t \in Stacks : t = Tail(stack) /\ c.open /\ Facts("finalize_connection", t)
  BY Running DEF FinalizeConnectionLast
<1>2. Alone(t)
  BY <1>1 DEF Facts, InFinalizeConnection, FinalizeConnectionLast
<1>3. StoreR(r) /\ DOMAIN r = RFields
  BY DEF IInv, Store, StoreR
<1>4. AlikeR /\ r'.count = r.count /\ UNCHANGED c
  BY <1>3 DEF FinalizeConnectionLast, AfterReading, AlikeR, RFields
<1>5. StoreR(r)'
  BY <1>3 DEF FinalizeConnectionLast, AfterReading, StoreR, RFields
<1>6. Store' /\ Edge'
  BY <1>4, <1>5, QuietC DEF FinalizeConnectionLast
<1>7. Alone(t)'
  BY <1>2, <1>4 DEF Alone, Ctx, AlikeR
<1>8. /\ Facts("set_keepalive", t)' /\ Facts("set_lingering", t)' /\ Facts("close_request", t)'
      /\ "set_keepalive" \in Names /\ "set_lingering" \in Names /\ "close_request" \in Names
  BY <1>7, AloneCloses DEF Facts, Handlers, InLast, Names
<1>9. \/ stack' = Push("set_keepalive", t)
      \/ stack' = Push("set_lingering", t)
      \/ stack' = Push("close_request", t)
  <2>1. CASE r'.keepalive /\ ~exiting
    BY <1>1, <2>1 DEF FinalizeConnectionLast, Call, Push
  <2>2. CASE ~(r'.keepalive /\ ~exiting) /\ (r'.lingering_close \/ buf # <<>> \/ c.ready)
    BY <1>1, <2>2 DEF FinalizeConnectionLast, Call, Push
  <2>3. CASE ~(r'.keepalive /\ ~exiting) /\ ~(r'.lingering_close \/ buf # <<>> \/ c.ready)
    BY <1>1, <2>3 DEF FinalizeConnectionLast, Call, Push
  <2> QED
    BY <2>1, <2>2, <2>3
<1> QED
  BY <1>1, <1>4, <1>6, <1>8, <1>9, Goes

(* A request that was just created. *)
LEMMA Created == ASSUME r' = NewRequest PROVE Fresh' /\ StoreR(r)'
BY DEF NewRequest, Fresh, StoreR, RFields, Handlers

LEMMA Forgot == ASSUME r' = NoRequest PROVE StoreR(r)'
BY DEF NewRequest, NoRequest, StoreR, RFields, Handlers

LEMMA SetKeepalivePipelinedStep == ASSUME IInv, SetKeepalivePipelined PROVE IInv'
<1>1. PICK t \in Stacks : t = Tail(stack) /\ c.open /\ Facts("set_keepalive", t)
  BY Running DEF SetKeepalivePipelined
<1>2. StoreC(c) /\ DOMAIN c = CFields
  BY DEF IInv, Store, StoreC
<1>3. /\ c'.handler = "line" /\ c'.posted /\ c'.open = c.open
      /\ c'.ready = c.ready /\ c'.eof = c.eof /\ c'.error = c.error
      /\ c'.nfree = (IF c.large THEN c.nfree + c.nbusy - 1 ELSE c.nfree)
      /\ c'.nbusy = (IF c.large THEN 1 ELSE c.nbusy)
      /\ c'.large = c.large /\ DOMAIN c' = CFields
  BY <1>2 DEF SetKeepalivePipelined, CFields
<1>4. StoreC(c)'
  <2>1. CASE c.large
    BY <1>2, <1>3, <2>1 DEF StoreC, Readers
  <2>2. CASE ~c.large
    BY <1>2, <1>3, <2>2 DEF StoreC, Readers
  <2> QED
    BY <2>1, <2>2
<1>5. Fresh' /\ StoreR(r)'
  BY Created DEF SetKeepalivePipelined
<1>6. Store' /\ Edge'
  BY <1>3, <1>4, <1>5, Quiet DEF SetKeepalivePipelined
<1>7. AtLoop' /\ stack' = K0
  BY <1>3, <1>5 DEF AtLoop, Reading, SetKeepalivePipelined, K0
<1> QED
  BY <1>6, <1>7, Rests

LEMMA SetKeepaliveIdleStep == ASSUME IInv, SetKeepaliveIdle PROVE IInv'
<1>1. PICK t \in Stacks : t = Tail(stack) /\ c.open /\ Facts("set_keepalive", t)
  BY Running DEF SetKeepaliveIdle
<1>2. StoreC(c) /\ DOMAIN c = CFields
  BY DEF IInv, Store, StoreC
<1>3. /\ c'.handler = "keepalive" /\ (c'.posted <=> c.ready) /\ c'.open = c.open /\ c'.rtimer
      /\ c'.ready = c.ready /\ c'.eof = c.eof /\ c'.error = c.error
      /\ c'.nfree = 0 /\ c'.nbusy = 0 /\ ~c'.large /\ DOMAIN c' = CFields
  BY <1>2 DEF SetKeepaliveIdle, CFields
<1>4. StoreC(c)'
  BY <1>3, HttpConnectionAssumption DEF StoreC, Readers
<1>5. r' = NoRequest /\ StoreR(r)'
  BY Forgot DEF SetKeepaliveIdle
<1>6. StoreB'
  <2>1. UnitSet' = UnitSet /\ buf = <<>>
    BY DEF SetKeepaliveIdle, client, UnitSet
  <2> QED
    BY <2>1, HttpConnectionAssumption DEF SetKeepaliveIdle, client, IInv, Store, StoreB
<1>7. Edge'
  BY <1>3 DEF SetKeepaliveIdle, IInv, Edge, client
<1>8. AtLoop' /\ stack' = K0
  BY <1>3, <1>5 DEF AtLoop, Idle, Dry, SetKeepaliveIdle, K0
<1> QED
  BY <1>4, <1>5, <1>6, <1>7, <1>8, Rests DEF Store

(* What recv() saw. *)
LEMMA Received ==
  ASSUME StoreB
  PROVE  /\ Recv = "data" <=> net # <<>>
         /\ Recv \in {"eof", "error"} => net = <<>> /\ peer # "open"
         /\ Recv = "again" => net = <<>> /\ peer = "open"
         /\ Recv \in {"data", "eof", "error", "again"}
<1>1. peer \in {"open", "fin", "reset"}
  BY DEF StoreB
<1>2. CASE net # <<>>
  BY <1>2 DEF Recv
<1>3. CASE net = <<>>
  BY <1>1, <1>3 DEF Recv
<1> QED
  BY <1>2, <1>3

(* The first bytes of a request fill a new buffer. *)
LEMMA Filled ==
  ASSUME StoreB, UNCHANGED <<client, faults>>, NEW n, n = Min2(HeaderBuffer, Len(net)),
         buf' = First(net, n), net' = Rest(net, n), room' = HeaderBuffer - n
  PROVE  StoreB'
<1>1. Len(net) \in Nat /\ net \in Seq(UnitSet) /\ UnitSet' = UnitSet
  BY DEF StoreB, UnitSet, client
<1>2. n \in 0..Len(net) /\ n \in 0..HeaderBuffer
  BY <1>1, HttpConnectionAssumption DEF Min2
<1>3. buf' \in Seq(UnitSet) /\ net' \in Seq(UnitSet) /\ Len(buf') = n
  BY <1>1, <1>2, Taken
<1>4. room' \in 0..(HeaderBuffer + LargeBuffer) /\ n + room' <= HeaderBuffer + LargeBuffer
  BY <1>2, HttpConnectionAssumption
<1> QED
  BY <1>1, <1>3, <1>4 DEF StoreB, client

LEMMA ToLine ==
  ASSUME NEW t \in Stacks, t = K0, stack' = Push("line", t), r' = NewRequest,
         c'.handler = "line", c'.open, Store', Edge'
  PROVE  IInv'
<1>1. InHead("line", t)'
  BY Created DEF InHead
<1>2. Facts("line", t)' /\ "line" \in Names
  BY <1>1 DEF Facts, Handlers, Names, Readers
<1> QED
  BY <1>2, Goes

LEMMA KeepaliveHandlerStep == ASSUME IInv, KeepaliveHandler PROVE IInv'
<1>1. PICK t \in Stacks : t = Tail(stack) /\ c.open /\ Facts("keepalive", t)
  BY Running DEF KeepaliveHandler
<1>2. t = K0 /\ r = NoRequest /\ c.handler = "keepalive" /\ (c.rtimer \/ c.rtimedout)
  BY <1>1 DEF Facts, InWait
<1>3. StoreC(c) /\ DOMAIN c = CFields /\ StoreB /\ Edge
  BY DEF IInv, Store, StoreC
<1>4. CASE c.rtimedout \/ c.close \/ Recv \in {"eof", "error"}
  <2>1. UNCHANGED <<client, net, edge, buf, room, faults, c, r>>
    BY <1>4 DEF KeepaliveHandler
  <2>2. stack' = Push("close_connection", t)
    BY <1>1, <1>4 DEF KeepaliveHandler, Call, Push
  <2> QED
    BY <1>1, <2>1, <2>2, QuietCR, Closes
<1>5. CASE ~(c.rtimedout \/ c.close \/ Recv \in {"eof", "error"}) /\ Recv = "again"
  <2>1. /\ c' = [c EXCEPT !.ready = FALSE, !.eof = (@ \/ Recv = "eof")] /\ stack' = K0
        /\ UNCHANGED <<client, net, edge, buf, room, faults, r>>
    BY <1>1, <1>2, <1>5 DEF KeepaliveHandler, AfterRecv, Return
  <2>2. /\ c'.handler = c.handler /\ c'.open = c.open /\ ~c'.ready /\ c'.rtimer = c.rtimer
    BY <1>3, <2>1 DEF CFields
  <2>3. StoreC(c)'
    BY <1>3, <2>1 DEF StoreC, CFields
  <2>4. StoreR(r)' /\ StoreB'
    BY <2>1, StoreStill DEF IInv, Store, StoreR, StoreB
  <2>5. Edge'
    BY <1>3, <1>5, <2>1, Received DEF Edge, client
  <2>6. AtLoop'
    BY <1>2, <1>5, <2>1, <2>2 DEF AtLoop, Idle, Dry
  <2> QED
    BY <2>1, <2>3, <2>4, <2>5, <2>6, Rests DEF Store
<1>6. CASE ~(c.rtimedout \/ c.close \/ Recv \in {"eof", "error"}) /\ Recv # "again"
  <2> DEFINE n == Min2(HeaderBuffer, Len(net))
  <2>1. /\ buf' = First(net, n) /\ net' = Rest(net, n) /\ room' = HeaderBuffer - n
        /\ r' = NewRequest
        /\ c' = [c EXCEPT !.idle = FALSE, !.reusable = FALSE, !.rtimer = FALSE,
                          !.handler = "line", !.requests = @ + 1]
        /\ Call(<<"line">>) /\ UNCHANGED <<client, edge, faults>>
    BY <1>6 DEF KeepaliveHandler
  <2> HIDE DEF n
  <2>2. /\ c'.handler = "line" /\ c'.open = c.open /\ c'.ready = c.ready /\ c'.eof = c.eof
        /\ c'.error = c.error
    BY <1>3, <2>1 DEF CFields
  <2>3. StoreC(c)'
    BY <1>3, <2>1 DEF StoreC, CFields, Readers
  <2>4. StoreR(r)'
    BY <2>1, Created
  <2>5. StoreB'
    BY <1>3, <2>1, Filled DEF n
  <2>6. Edge'
    BY <1>3, <1>6, <2>1, <2>2, Received DEF Edge, client
  <2>7. stack' = Push("line", t)
    BY <1>1, <2>1 DEF Call, Push
  <2> QED
    BY <1>1, <1>2, <2>1, <2>2, <2>3, <2>4, <2>5, <2>6, <2>7, ToLine DEF Store
<1> QED
  BY <1>4, <1>5, <1>6

LEMMA WaitRequestHandlerStep == ASSUME IInv, WaitRequestHandler PROVE IInv'
<1>1. PICK t \in Stacks : t = Tail(stack) /\ c.open /\ Facts("wait", t)
  BY Running DEF WaitRequestHandler
<1>2. t = K0 /\ r = NoRequest /\ c.handler = "wait"
  BY <1>1 DEF Facts, InWait
<1>3. StoreC(c) /\ DOMAIN c = CFields /\ StoreB /\ Edge
  BY DEF IInv, Store, StoreC
<1>4. CASE c.rtimedout \/ c.close \/ Recv \in {"eof", "error"}
  <2>1. UNCHANGED <<client, net, edge, buf, room, faults, c, r>>
    BY <1>4 DEF WaitRequestHandler
  <2>2. stack' = Push("close_connection", t)
    BY <1>1, <1>4 DEF WaitRequestHandler, Call, Push
  <2> QED
    BY <1>1, <2>1, <2>2, QuietCR, Closes
<1>5. CASE ~(c.rtimedout \/ c.close \/ Recv \in {"eof", "error"}) /\ Recv = "again"
  <2>1. /\ c' = [[c EXCEPT !.ready = FALSE, !.eof = (@ \/ Recv = "eof")]
                   EXCEPT !.rtimer = TRUE, !.reusable = (@ \/ ~c.rtimer)]
        /\ stack' = K0
        /\ UNCHANGED <<client, net, edge, buf, room, faults, r>>
    BY <1>1, <1>2, <1>5 DEF WaitRequestHandler, AfterRecv, Return
  <2>2. /\ c'.handler = c.handler /\ c'.open = c.open /\ ~c'.ready /\ c'.rtimer
    BY <1>3, <2>1 DEF CFields
  <2>3. StoreC(c)'
    BY <1>3, <2>1 DEF StoreC, CFields
  <2>4. StoreR(r)' /\ StoreB'
    BY <2>1, StoreStill DEF IInv, Store, StoreR, StoreB
  <2>5. Edge'
    BY <1>3, <1>5, <2>1, Received DEF Edge, client
  <2>6. AtLoop'
    BY <1>2, <1>5, <2>1, <2>2 DEF AtLoop, Idle, Dry
  <2> QED
    BY <2>1, <2>3, <2>4, <2>5, <2>6, Rests DEF Store
<1>6. CASE ~(c.rtimedout \/ c.close \/ Recv \in {"eof", "error"}) /\ Recv # "again"
  <2> DEFINE n == Min2(HeaderBuffer, Len(net))
  <2>1. /\ buf' = First(net, n) /\ net' = Rest(net, n) /\ room' = HeaderBuffer - n
        /\ r' = NewRequest
        /\ c' = [c EXCEPT !.reusable = FALSE, !.handler = "line", !.requests = @ + 1]
        /\ Call(<<"line">>) /\ UNCHANGED <<client, edge, faults>>
    BY <1>6 DEF WaitRequestHandler
  <2> HIDE DEF n
  <2>2. /\ c'.handler = "line" /\ c'.open = c.open /\ c'.ready = c.ready /\ c'.eof = c.eof
        /\ c'.error = c.error
    BY <1>3, <2>1 DEF CFields
  <2>3. StoreC(c)'
    BY <1>3, <2>1 DEF StoreC, CFields, Readers
  <2>4. StoreR(r)'
    BY <2>1, Created
  <2>5. StoreB'
    BY <1>3, <2>1, Filled DEF n
  <2>6. Edge'
    BY <1>3, <1>6, <2>1, <2>2, Received DEF Edge, client
  <2>7. stack' = Push("line", t)
    BY <1>1, <2>1 DEF Call, Push
  <2> QED
    BY <1>1, <1>2, <2>1, <2>2, <2>3, <2>4, <2>5, <2>6, <2>7, ToLine DEF Store
<1> QED
  BY <1>4, <1>5, <1>6

LEMMA SetLingeringCloseStep == ASSUME IInv, SetLingeringClose PROVE IInv'
<1>1. PICK t \in Stacks : t = Tail(stack) /\ c.open /\ Facts("set_lingering", t)
  BY Running DEF SetLingeringClose
<1>2. Alone(t)
  BY <1>1 DEF Facts, InLast
<1>3. StoreR(r) /\ StoreC(c) /\ DOMAIN r = RFields /\ DOMAIN c = CFields
  BY DEF IInv, Store, StoreR, StoreC
<1>4. /\ c'.handler = "lingering" /\ c'.ready = c.ready /\ c'.eof = c.eof
      /\ c'.error = c.error /\ c'.open = c.open /\ c'.rtimer
  BY <1>3 DEF SetLingeringClose, CFields
<1>5. StoreC(c)'
  BY <1>3 DEF SetLingeringClose, StoreC, CFields, Readers
<1>6. AlikeR /\ r'.count = r.count
  BY <1>3 DEF SetLingeringClose, AlikeR, RFields
<1>7. StoreR(r)'
  BY <1>3 DEF SetLingeringClose, StoreR, RFields
<1>8. StoreB'
  <2>1. faults' \in 0..Faults
    BY Failing DEF SetLingeringClose, IInv, Store, StoreB
  <2> QED
    BY <2>1, StoreStill DEF SetLingeringClose, IInv, Store
<1>9. Edge'
  BY <1>4 DEF SetLingeringClose, IInv, Edge, client
<1>10. Alone(t)'
  BY <1>2, <1>6 DEF Alone, Ctx, AlikeR
<1>11. CASE Call(<<"lingering">>)
  <2>1. Facts("lingering", t)' /\ "lingering" \in Names
    BY <1>4, <1>10 DEF Facts, Handlers, InLingering, Names, Readers
  <2>2. stack' = Push("lingering", t)
    BY <1>1, <1>11 DEF Call, Push
  <2> QED
    BY <1>1, <1>4, <1>5, <1>7, <1>8, <1>9, <2>1, <2>2, Goes DEF Store
<1>12. CASE ~c.ready /\ Return
  <2>1. Ctx(t)' /\ Lingers(t, r.count)'
    BY <1>4, <1>10, <1>12 DEF Alone, Lingers, Dry
  <2>2. stack' = t
    BY <1>1, <1>12 DEF Return
  <2> QED
    BY <1>1, <1>4, <1>5, <1>7, <1>8, <1>9, <2>1, <2>2, Back DEF Store, Returned
<1>13. CASE Call(<<"close_request">>)
  <2>1. Facts("close_request", t)' /\ "close_request" \in Names
    BY <1>10, AloneCloses DEF Facts, Handlers, Names
  <2>2. stack' = Push("close_request", t)
    BY <1>1, <1>13 DEF Call, Push
  <2> QED
    BY <1>1, <1>4, <1>5, <1>7, <1>8, <1>9, <2>1, <2>2, Goes DEF Store
<1> QED
  BY <1>11, <1>12, <1>13 DEF SetLingeringClose

LEMMA LingeringCloseHandlerStep == ASSUME IInv, LingeringCloseHandler PROVE IInv'
<1>1. PICK t \in Stacks : t = Tail(stack) /\ c.open /\ Facts("lingering", t)
  BY Running DEF LingeringCloseHandler
<1>2. Alone(t) /\ c.handler = "lingering"
  BY <1>1 DEF Facts, Handlers, InLingering
<1>3. StoreC(c) /\ DOMAIN c = CFields /\ StoreB /\ StoreR(r)'
  BY DEF IInv, Store, StoreC, StoreR, LingeringCloseHandler
<1>4. StoreB'
  <2>1. UnitSet' = UnitSet /\ <<>> \in Seq(UnitSet)
    BY DEF LingeringCloseHandler, client, UnitSet
  <2> QED
    BY <1>3, <2>1 DEF LingeringCloseHandler, StoreB, client
<1>5. CASE c.rtimedout \/ r.lingering_time = "passed" \/ peer # "open"
  <2>1. UNCHANGED <<c, r>> /\ stack' = Push("close_request", t)
    BY <1>1, <1>5 DEF LingeringCloseHandler, Call, Push
  <2>2. StoreC(c)'
    BY <1>3, <2>1 DEF StoreC
  <2>3. Edge'
    BY <2>1 DEF IInv, Edge, LingeringCloseHandler, client
  <2>4. Facts("close_request", t)' /\ "close_request" \in Names
    BY <1>2, <2>1, Unmoved, AloneCloses DEF Facts, Handlers, Names
  <2> QED
    BY <1>1, <1>3, <1>4, <2>1, <2>2, <2>3, <2>4, Goes DEF Store
<1>6. CASE ~(c.rtimedout \/ r.lingering_time = "passed" \/ peer # "open")
  <2>1. c' = [c EXCEPT !.ready = FALSE, !.rtimer = TRUE] /\ UNCHANGED r /\ stack' = t
    BY <1>1, <1>6 DEF LingeringCloseHandler, Return
  <2>2. ~c'.ready /\ c'.rtimer /\ c'.handler = c.handler /\ c'.open = c.open
    BY <1>3, <2>1 DEF CFields
  <2>3. StoreC(c)'
    BY <1>3, <2>1 DEF StoreC, CFields
  <2>4. Edge'
    BY <1>6 DEF Edge, LingeringCloseHandler, client
  <2>5. Ctx(t)' /\ Lingers(t, r.count)'
    BY <1>2, <2>1, <2>2 DEF Alone, Lingers, Dry, Ctx
  <2> QED
    BY <1>1, <1>3, <1>4, <2>1, <2>2, <2>3, <2>4, <2>5, Back DEF Store, Returned
<1> QED
  BY <1>5, <1>6

-----------------------------------------------------------------------------
(* Reading the head of a request. *)
LEMMA Stays ==
  ASSUME stack' = stack, stack \in Stacks, stack # <<>>,
         NEW f, NEW t, f = Head(stack), t = Tail(stack),
         c'.open, Facts(f, t)', Store', Edge'
  PROVE  IInv'
<1>1. Facts(Head(stack), Tail(stack))'
  OBVIOUS
<1> QED
  BY <1>1 DEF IInv, Shape

LEMMA HeadRuns ==
  ASSUME IInv, Top("line") \/ Top("headers")
  PROVE  \E f \in {"line", "headers"}, t \in Stacks :
            /\ f = Head(stack) /\ t = Tail(stack) /\ stack # <<>> /\ Top(f)
            /\ c.open /\ t = K0 /\ Fresh /\ c.handler = f
            /\ f = "headers" => r.q \in 1..Len(script)
<1>1. ASSUME NEW f \in {"line", "headers"}, Top(f)
      PROVE  \E t \in Stacks :
                /\ f = Head(stack) /\ t = Tail(stack) /\ stack # <<>> /\ Top(f)
                /\ c.open /\ t = K0 /\ Fresh /\ c.handler = f
                /\ f = "headers" => r.q \in 1..Len(script)
  <2>1. PICK t \in Stacks : t = Tail(stack) /\ c.open /\ Facts(f, t)
    BY <1>1, Running
  <2>2. InHead(f, t)
    BY <2>1 DEF Facts
  <2> QED
    BY <1>1, <2>1, <2>2 DEF InHead, Top
<1> QED
  BY <1>1

(* A head that is refused. *)
LEMMA HeadFails ==
  ASSUME stack' = Push("finalize", K0), Fresh', rc' \in Special, c'.open, Store', Edge'
  PROVE  IInv'
<1>1. Pending(K0)'
  BY Low, Owing DEF Pending, Fresh, Num
<1>2. InFinalize(K0)'
  BY <1>1, Low, Owing DEF InFinalize, Fresh, Special
<1>3. Facts("finalize", K0)' /\ "finalize" \in Names
  BY <1>2 DEF Facts, Handlers, Names
<1> QED
  BY <1>3, Frames, Goes

LEMMA HeadTimedOutStep == ASSUME IInv, HeadTimedOut PROVE IInv'
<1>1. PICK f \in {"line", "headers"}, t \in Stacks :
        t = Tail(stack) /\ c.open /\ t = K0 /\ Fresh
  BY HeadRuns DEF HeadTimedOut
<1>2. UNCHANGED <<c, r>> /\ Store' /\ Edge'
  BY QuietCR DEF HeadTimedOut
<1>3. InCloseRequest(K0)'
  <2>1. r'.live /\ r'.count = 1
    BY <1>1, <1>2 DEF Fresh
  <2> QED
    BY <2>1, Low DEF InCloseRequest
<1>4. Facts("close_request", K0)' /\ "close_request" \in Names
  BY <1>3 DEF Facts, Handlers, Names
<1>5. stack' = Push("close_request", K0)
  BY <1>1 DEF HeadTimedOut, Call, Push
<1> QED
  BY <1>1, <1>2, <1>4, <1>5, Frames, Goes

LEMMA Roomy ==
  ASSUME NEW n \in Nat, NEW m \in Nat, n = 0, m <= HeaderBuffer + LargeBuffer
  PROVE  n + m <= HeaderBuffer + LargeBuffer
BY HttpConnectionAssumption

LEMMA AllocLargeHeaderBufferStep == ASSUME IInv, AllocLargeHeaderBuffer PROVE IInv'
<1>1. PICK f \in {"line", "headers"}, t \in Stacks :
        /\ f = Head(stack) /\ t = Tail(stack) /\ stack # <<>> /\ Top(f)
        /\ c.open /\ t = K0 /\ Fresh /\ c.handler = f
        /\ f = "headers" => r.q \in 1..Len(script)
  BY HeadRuns DEF AllocLargeHeaderBuffer
<1>2. StoreR(r) /\ StoreC(c) /\ DOMAIN r = RFields /\ DOMAIN c = CFields /\ r.state \in Nat
  BY DEF IInv, Store, StoreR, StoreC
<1>3. UNCHANGED <<client, net, edge, buf, faults>> /\ buf = <<>>
  BY DEF AllocLargeHeaderBuffer, HeadFull
<1>4. ASSUME room' \in 0..(HeaderBuffer + LargeBuffer) PROVE StoreB'
  <2>1. UnitSet' = UnitSet /\ buf' = buf /\ Len(buf) = 0
    BY <1>3 DEF client, UnitSet
  <2>2. Len(buf') \in Nat /\ Len(buf') = 0
    BY <2>1
  <2>3. room' \in Nat /\ room' <= HeaderBuffer + LargeBuffer
    BY <1>4, HttpConnectionAssumption
  <2>4. Len(buf') + room' <= HeaderBuffer + LargeBuffer
    BY <2>2, <2>3, Roomy
  <2> QED
    BY <1>3, <1>4, <2>1, <2>4 DEF IInv, Store, StoreB, client
<1>5. CASE Top("line") /\ Carried = 0
  <2>1. UNCHANGED <<c, r, rc, stack>> /\ room' = IF c.large THEN LargeBuffer ELSE HeaderBuffer
    BY <1>5 DEF AllocLargeHeaderBuffer
  <2>2. room' \in 0..(HeaderBuffer + LargeBuffer)
    BY <2>1, HttpConnectionAssumption
  <2>3. StoreC(c)' /\ StoreR(r)'
    BY <1>2, <2>1 DEF StoreC, StoreR
  <2>4. Edge' /\ UNCHANGED script
    BY <1>3, <2>1, EdgeStill DEF IInv, client
  <2> QED
    BY <1>4, <2>1, <2>2, <2>3, <2>4, Elsewhere DEF Store
<1>6. CASE ~(Top("line") /\ Carried = 0)
           /\ ((Carried # 0 /\ Carried >= LargeBuffer) \/ ~LargeLeft)
  <2>1. /\ rc' = (IF Top("line") THEN "414" ELSE "494")
        /\ r' = [r EXCEPT !.lingering_close = (@ \/ Top("headers"))]
        /\ Call(<<"finalize">>) /\ UNCHANGED <<c, room>>
    BY <1>6 DEF AllocLargeHeaderBuffer
  <2>2. StoreR(r)'
    BY <1>2, <2>1 DEF StoreR, RFields
  <2>3. Fresh'
    BY <1>1, <1>2, <2>1 DEF Fresh, RFields
  <2>4. Store' /\ Edge'
    BY <1>3, <2>1, <2>2, QuietC
  <2>5. stack' = Push("finalize", K0) /\ rc' \in Special
    BY <1>1, <2>1 DEF Call, Push, Special
  <2> QED
    BY <1>1, <2>1, <2>3, <2>4, <2>5, HeadFails
<1>7. CASE ~(Top("line") /\ Carried = 0)
           /\ ~((Carried # 0 /\ Carried >= LargeBuffer) \/ ~LargeLeft)
  <2>1. /\ c' = [c EXCEPT !.nfree = IF @ > 0 THEN @ - 1 ELSE 0, !.nbusy = @ + 1,
                          !.large = TRUE]
        /\ room' = LargeBuffer - r.state /\ UNCHANGED <<r, rc, stack>>
    BY <1>7 DEF AllocLargeHeaderBuffer, Carried
  <2>2. r.state < LargeBuffer
    BY <1>2, <1>7, HttpConnectionAssumption DEF Carried
  <2>3. room' \in 0..(HeaderBuffer + LargeBuffer)
    BY <1>2, <2>1, <2>2, HttpConnectionAssumption
  <2>4. /\ c'.handler = c.handler /\ c'.open = c.open /\ c'.ready = c.ready /\ c'.eof = c.eof
        /\ c'.error = c.error /\ c'.large
        /\ c'.nfree = (IF c.nfree > 0 THEN c.nfree - 1 ELSE 0) /\ c'.nbusy = c.nbusy + 1
        /\ DOMAIN c' = CFields
    BY <1>2, <2>1 DEF CFields
  <2>5. StoreC(c)'
    BY <1>2, <1>7, <2>4, HttpConnectionAssumption DEF StoreC, LargeLeft
  <2>6. StoreR(r)' /\ Fresh'
    BY <1>1, <1>2, <2>1 DEF StoreR, Fresh
  <2>7. Edge'
    BY <1>3, <2>4 DEF IInv, Edge, client
  <2>8. InHead(f, t)'
    BY <1>1, <1>3, <2>1, <2>4, <2>6 DEF InHead, client
  <2>9. Facts(f, t)'
    BY <2>8 DEF Facts, Handlers
  <2>10. stack \in Stacks
    BY DEF IInv
  <2> QED
    BY <1>1, <1>4, <2>1, <2>3, <2>4, <2>5, <2>6, <2>7, <2>9, <2>10, Stays DEF Store
<1> QED
  BY <1>5, <1>6, <1>7

LEMMA ReadRequestHeaderStep == ASSUME IInv, ReadRequestHeader PROVE IInv'
<1>1. PICK f \in {"line", "headers"}, t \in Stacks :
        /\ f = Head(stack) /\ t = Tail(stack) /\ stack # <<>> /\ Top(f)
        /\ c.open /\ t = K0 /\ Fresh /\ c.handler = f
        /\ f = "headers" => r.q \in 1..Len(script)
  BY HeadRuns DEF ReadRequestHeader
<1>2. StoreR(r) /\ StoreC(c) /\ StoreB /\ Edge /\ DOMAIN c = CFields
  BY DEF IInv, Store, StoreC
<1>3. UNCHANGED <<client, edge, r, faults>> /\ StoreR(r)' /\ Fresh' /\ buf = <<>> /\ room > 0
  BY <1>1, <1>2 DEF ReadRequestHeader, StoreR, Fresh
<1>4. CASE c.ready /\ Recv = "data"
  <2> DEFINE n == Min2(room, Len(net))
  <2>1. /\ buf' = First(net, n) /\ net' = Rest(net, n) /\ room' = room - n
        /\ UNCHANGED <<c, rc, stack>>
    BY <1>4 DEF ReadRequestHeader
  <2>2. Len(net) \in Nat /\ net \in Seq(UnitSet) /\ UnitSet' = UnitSet /\ room \in Nat
    BY <1>2, <1>3, HttpConnectionAssumption DEF StoreB, UnitSet, client
  <2>3. n \in 0..Len(net) /\ n <= room
    BY <2>2 DEF Min2
  <2> HIDE DEF n
  <2>4. buf' \in Seq(UnitSet) /\ net' \in Seq(UnitSet) /\ Len(buf') = n
    BY <2>1, <2>2, <2>3, Taken
  <2>5. room' \in 0..(HeaderBuffer + LargeBuffer) /\ n + room' <= HeaderBuffer + LargeBuffer
    BY <1>2, <2>1, <2>2, <2>3, HttpConnectionAssumption DEF StoreB
  <2>6. StoreB'
    BY <1>2, <1>3, <2>2, <2>4, <2>5 DEF StoreB, client
  <2>7. StoreC(c)' /\ UNCHANGED script
    BY <1>2, <1>3, <2>1 DEF StoreC, client
  <2>8. Edge'
    BY <1>4, <2>1 DEF Edge
  <2> QED
    BY <1>3, <2>1, <2>6, <2>7, <2>8, Elsewhere DEF Store
<1>5. CASE c.ready /\ Recv \in {"eof", "error"}
  <2>1. /\ c' = [[c EXCEPT !.ready = FALSE, !.eof = (@ \/ Recv = "eof")] EXCEPT !.error = TRUE]
        /\ rc' = "400" /\ Call(<<"finalize">>) /\ UNCHANGED <<buf, net, room>>
    BY <1>5 DEF ReadRequestHeader, AfterRecv
  <2>2. c'.open = c.open /\ c'.error
    BY <1>2, <2>1 DEF CFields
  <2>3. StoreC(c)'
    BY <1>2, <2>1 DEF StoreC, CFields
  <2>4. StoreB'
    BY <1>2, <1>3, <2>1, StoreStill DEF StoreB
  <2>5. Edge'
    BY <2>2 DEF Edge
  <2>6. stack' = Push("finalize", K0) /\ rc' \in Special
    BY <1>1, <2>1 DEF Call, Push, Special
  <2> QED
    BY <1>1, <1>3, <2>2, <2>3, <2>4, <2>5, <2>6, HeadFails DEF Store
<1>6. CASE ~(c.ready /\ Recv = "data") /\ ~(c.ready /\ Recv \in {"eof", "error"})
  <2>1. /\ c' = [c EXCEPT !.ready = FALSE, !.rtimer = TRUE] /\ stack' = K0
        /\ UNCHANGED <<buf, net, room>>
    BY <1>1, <1>6 DEF ReadRequestHeader, Return
  <2>2. /\ c'.open = c.open /\ ~c'.ready /\ c'.rtimer /\ c'.handler = c.handler
        /\ c'.eof = c.eof /\ c'.error = c.error
    BY <1>2, <2>1 DEF CFields
  <2>3. StoreC(c)'
    BY <1>2, <2>1 DEF StoreC, CFields
  <2>4. StoreB'
    BY <1>2, <1>3, <2>1, StoreStill DEF StoreB
  <2>5. Edge'
    BY <1>2, <1>3, <1>6, <2>1, <2>2, Received DEF Edge, client
  <2>6. AtLoop'
    BY <1>1, <1>3, <2>2 DEF AtLoop, Reading, Dry, client
  <2> QED
    BY <1>3, <2>1, <2>3, <2>4, <2>5, <2>6, Rests DEF Store
<1> QED
  BY <1>4, <1>5, <1>6

(* One unit of the head is parsed. *)
LEMMA Parsed ==
  ASSUME StoreB, buf # <<>>, buf' = Tail(buf), UNCHANGED <<client, net, room, faults>>
  PROVE  /\ StoreB' /\ Head(buf).q \in 1..Len(script)
<1>1. UnitSet' = UnitSet /\ buf \in Seq(UnitSet) /\ Len(buf) \in Nat
  BY DEF StoreB, UnitSet, client
<1>2. Tail(buf) \in Seq(UnitSet) /\ Len(Tail(buf)) = Len(buf) - 1 /\ Head(buf) \in UnitSet
  BY <1>1, HeadTailProperties
<1>3. buf' \in Seq(UnitSet) /\ Len(buf') = Len(buf) - 1
  BY <1>2
<1>4. room \in Int /\ Len(buf) + room <= HeaderBuffer + LargeBuffer
  BY HttpConnectionAssumption DEF StoreB
<1>5. Len(buf') + room <= HeaderBuffer + LargeBuffer
  BY <1>1, <1>3, <1>4, HttpConnectionAssumption
<1>6. StoreB'
  BY <1>1, <1>3, <1>5 DEF StoreB, client
<1>7. Head(buf).q \in 1..Len(script)
  BY <1>2 DEF UnitSet
<1> QED
  BY <1>6, <1>7

LEMMA ParseRequestLineStep == ASSUME IInv, ParseRequestLine PROVE IInv'
<1>1. PICK t \in Stacks : t = Tail(stack) /\ c.open /\ Facts("line", t)
  BY Running DEF ParseRequestLine
<1>2. t = K0 /\ Fresh /\ c.handler = "line"
  BY <1>1 DEF Facts, InHead
<1>3. /\ StoreR(r) /\ StoreC(c) /\ StoreB /\ Edge
      /\ DOMAIN r = RFields /\ DOMAIN c = CFields /\ r.state \in Nat /\ stack \in Stacks
  BY DEF IInv, Store, StoreR, StoreC
<1>4. /\ UNCHANGED <<client, net, edge, room, exiting, faults>> /\ buf # <<>> /\ buf' = Tail(buf)
      /\ stack # <<>> /\ Head(stack) = "line"
  BY DEF ParseRequestLine, Top
<1>5. StoreB' /\ Head(buf).q \in 1..Len(script)
  BY <1>3, <1>4, Parsed
<1>6. CASE Head(buf).k = "part"
  <2>1. r' = [r EXCEPT !.state = @ + 1] /\ UNCHANGED <<c, rc, stack>>
    BY <1>6 DEF ParseRequestLine
  <2>2. StoreR(r)'
    BY <1>3, <2>1 DEF StoreR, RFields
  <2>3. StoreC(c)' /\ Edge'
    BY <1>3, <1>4, <2>1, EdgeStill DEF StoreC
  <2>4. Fresh'
    BY <1>2, <1>3, <2>1 DEF Fresh, RFields
  <2>5. InHead("line", t)'
    BY <1>2, <2>1, <2>4 DEF InHead
  <2>6. Facts("line", t)'
    BY <2>5 DEF Facts, Handlers
  <2> QED
    BY <1>1, <1>3, <1>4, <1>5, <2>1, <2>2, <2>3, <2>6, Stays DEF Store
<1>7. CASE Head(buf).k # "part" /\ Head(buf).k = "line" /\ script[Head(buf).q].bad # "line"
  <2>1. /\ r' = [r EXCEPT !.state = 0, !.q = Head(buf).q]
        /\ c' = [c EXCEPT !.handler = "headers"] /\ Call(<<"headers">>)
    BY <1>7 DEF ParseRequestLine
  <2>2. StoreR(r)'
    BY <1>3, <2>1 DEF StoreR, RFields
  <2>3. StoreC(c)'
    BY <1>3, <2>1 DEF StoreC, CFields, Readers
  <2>4. Fresh' /\ r'.q = Head(buf).q
    BY <1>2, <1>3, <2>1 DEF Fresh, RFields
  <2>5. /\ c'.handler = "headers" /\ c'.open = c.open /\ c'.ready = c.ready
        /\ c'.eof = c.eof /\ c'.error = c.error
    BY <1>3, <2>1 DEF CFields
  <2>6. Edge'
    BY <1>3, <1>4, <2>5 DEF Edge, client
  <2>7. InHead("headers", t)'
    BY <1>2, <1>4, <1>5, <2>4, <2>5 DEF InHead, client
  <2>8. Facts("headers", t)' /\ "headers" \in Names
    BY <2>7 DEF Facts, Handlers, Names, Readers
  <2>9. stack' = Push("headers", t)
    BY <1>1, <2>1 DEF Call, Push
  <2> QED
    BY <1>1, <1>5, <2>2, <2>3, <2>5, <2>6, <2>8, <2>9, Goes DEF Store
<1>8. CASE Head(buf).k # "part" /\ ~(Head(buf).k = "line" /\ script[Head(buf).q].bad # "line")
  <2>1. rc' = "400" /\ Call(<<"finalize">>) /\ UNCHANGED <<c, r>>
    BY <1>8 DEF ParseRequestLine
  <2>2. StoreC(c)' /\ StoreR(r)' /\ Fresh' /\ Edge'
    BY <1>2, <1>3, <1>4, <2>1, EdgeStill DEF StoreC, StoreR, Fresh
  <2>3. stack' = Push("finalize", K0) /\ rc' \in Special
    BY <1>1, <1>2, <2>1 DEF Call, Push, Special
  <2> QED
    BY <1>1, <1>5, <2>1, <2>2, <2>3, HeadFails DEF Store
<1> QED
  BY <1>6, <1>7, <1>8

LEMMA ParseHeaderLineStep == ASSUME IInv, ParseHeaderLine PROVE IInv'
<1>1. PICK t \in Stacks : t = Tail(stack) /\ c.open /\ Facts("headers", t)
  BY Running DEF ParseHeaderLine
<1>2. t = K0 /\ Fresh /\ c.handler = "headers" /\ r.q \in 1..Len(script)
  BY <1>1 DEF Facts, InHead
<1>3. StoreR(r) /\ StoreC(c) /\ StoreB /\ Edge /\ stack \in Stacks
  BY DEF IInv, Store
<1>4. /\ UNCHANGED <<client, net, edge, c, r, room, exiting, faults>>
      /\ buf # <<>> /\ buf' = Tail(buf)
  BY DEF ParseHeaderLine
<1>5. StoreB'
  BY <1>3, <1>4, Parsed
<1>6. StoreC(c)' /\ StoreR(r)' /\ Fresh' /\ Edge' /\ UNCHANGED script
  BY <1>2, <1>3, <1>4, EdgeStill DEF StoreC, StoreR, Fresh, client
<1>7. CASE Head(buf).k = "hdr"
  <2>1. UNCHANGED <<rc, stack>>
    BY <1>7 DEF ParseHeaderLine
  <2> QED
    BY <1>4, <1>5, <1>6, <2>1, Elsewhere DEF Store
<1>8. CASE Head(buf).k # "hdr" /\ Head(buf).k = "head" /\ script[Head(buf).q].bad # "head"
  <2>1. Call(<<"process_request">>)
    BY <1>8 DEF ParseHeaderLine
  <2>2. InHead("process_request", t)'
    BY <1>2, <1>4, <1>6 DEF InHead
  <2>3. Facts("process_request", t)' /\ "process_request" \in Names
    BY <2>2 DEF Facts, Handlers, Names
  <2>4. stack' = Push("process_request", t)
    BY <1>1, <2>1 DEF Call, Push
  <2> QED
    BY <1>1, <1>4, <1>5, <1>6, <2>3, <2>4, Goes DEF Store
<1>9. CASE Head(buf).k # "hdr" /\ ~(Head(buf).k = "head" /\ script[Head(buf).q].bad # "head")
  <2>1. rc' = "400" /\ Call(<<"finalize">>)
    BY <1>9 DEF ParseHeaderLine
  <2>2. stack' = Push("finalize", K0) /\ rc' \in Special
    BY <1>1, <1>2, <2>1 DEF Call, Push, Special
  <2> QED
    BY <1>1, <1>4, <1>5, <1>6, <2>2, HeadFails DEF Store
<1> QED
  BY <1>7, <1>8, <1>9

-----------------------------------------------------------------------------
(* The request is handled. *)

(* A request that is answered is finalized next. *)
LEMMA PendingFinalize ==
  ASSUME NEW k \in Konts, Answered(k)', rc' # "DONE"
  PROVE  InFinalize(k)'
<1>1. Pending(k)' /\ c'.handler = "request"
  BY DEF Answered
<1>2. r'.count = 1 + Num(r'.discard_body) + Owed(k) /\ Owed(k) \in 0..1
  BY <1>1, KontIn DEF Pending
<1>3. r'.count \in (1 + Owed(k))..(2 + Owed(k))
  BY <1>2 DEF Num
<1>4. k = K0 => r'.count = 1
  BY <1>1 DEF Pending, Fresh
<1> QED
  BY <1>1, <1>3, <1>4 DEF InFinalize, Pending

LEMMA Finalizes ==
  ASSUME NEW k \in Konts, stack' = Push("finalize", k), InFinalize(k)', c'.open, Store', Edge'
  PROVE  IInv'
<1>1. Facts("finalize", k)' /\ "finalize" \in Names
  BY DEF Facts, Handlers, Names
<1> QED
  BY <1>1, KontIn, Goes

LEMMA Outputs ==
  ASSUME NEW t \in Stacks, stack' = Push("output", t), InOutput(t)', c'.open, Store', Edge'
  PROVE  IInv'
<1>1. Facts("output", t)' /\ "output" \in Names
  BY DEF Facts, Handlers, Names
<1> QED
  BY <1>1, Goes

LEMMA DiscardsIn == Refusals \subseteq Discards /\ Discards \subseteq Stacks
<1>1. "too_large" \in Names /\ "unless_failed" \in Names
  BY DEF Names
<1>2. Push("too_large", Tail1) \in Stacks
  BY <1>1, Frames, Pushed
<1>3. Chain(K1) \in Stacks /\ Push("special", Chain(K1)) \in Stacks
  BY AreKonts, ChainIn
<1>4. Push("unless_failed", Chain(K1)) \in Stacks
  BY <1>1, <1>3, Pushed
<1> QED
  BY <1>2, <1>3, <1>4 DEF Refusals, Discards

LEMMA ProcessRequestStep == ASSUME IInv, ProcessRequest PROVE IInv'
<1>1. PICK t \in Stacks : t = Tail(stack) /\ c.open /\ Facts("process_request", t)
  BY Running DEF ProcessRequest
<1>2. t = K0 /\ Fresh /\ r.q \in 1..Len(script)
  BY <1>1 DEF Facts, InHead
<1>3. /\ StoreR(r) /\ StoreC(c) /\ DOMAIN r = RFields /\ DOMAIN c = CFields
      /\ script \in Seq(Requests)
  BY DEF IInv, Store, StoreR, StoreC, StoreB
<1>4. Body(r.q) \in Int
  <2>1. script[r.q] \in Requests
    BY <1>2, <1>3
  <2>2. script[r.q].body \in Int
    BY <2>1 DEF Requests
  <2> QED
    BY <2>2 DEF Body
<1>5. /\ c'.handler = "request" /\ c'.open = c.open /\ c'.ready = c.ready
      /\ c'.eof = c.eof /\ c'.error = c.error
  BY <1>3 DEF ProcessRequest, CFields
<1>6. StoreC(c)'
  BY <1>3 DEF ProcessRequest, StoreC, CFields, Readers
<1>7. /\ r'.reh = "block" /\ r'.weh = "phases" /\ r'.rest = Body(r.q)
      /\ r'.live = r.live /\ r'.posted = r.posted /\ r'.later = r.later
      /\ r'.discard_body = r.discard_body /\ r'.request_body = r.request_body
      /\ r'.count = r.count
  BY <1>3 DEF ProcessRequest, RFields
<1>8. StoreR(r)'
  <2>1. ~r.reading_body /\ ~r.discard_body
    BY <1>2, <1>3 DEF StoreR, Fresh
  <2>2. /\ DOMAIN r' = RFields /\ r'.lingering_time = r.lingering_time
        /\ r'.state = r.state /\ r'.reading_body = r.reading_body
    BY <1>3 DEF ProcessRequest, RFields
  <2> QED
    BY <1>3, <1>4, <1>7, <2>1, <2>2 DEF StoreR, Handlers
<1>9. Store' /\ Edge'
  BY <1>5, <1>6, <1>8, Quiet DEF ProcessRequest
<1>10. Pending(K1)'
  BY <1>2, <1>7, Low, Distinct, Owing DEF Pending, Fresh, Num
<1>11. Unasked'
  BY <1>2, <1>5, <1>7, <1>10 DEF Unasked, Answered, Fresh
<1>12. /\ "discard" \in Names /\ "too_large" \in Names /\ "finalize" \in Names
       /\ "posted" \in Names /\ "content" \in Names
  BY DEF Names
<1>13. CASE Body(r.q) > MaxBody /\ ~script[r.q].chunked
  <2> DEFINE u == Push("too_large", Tail1)
  <2>1. stack' = <<"discard", "too_large", "finalize", "posted">> \o t
    BY <1>1, <1>13 DEF ProcessRequest, Call
  <2>2. stack' = Push("discard", u)
    BY SMT, <1>2, <1>12, <2>1, Call4 DEF Tail1, K1
  <2>3. u \in Refusals /\ u \in Stacks
    BY DiscardsIn DEF Refusals
  <2> HIDE DEF u
  <2>4. InDiscard(u)'
    BY <1>11, <2>3 DEF InDiscard
  <2>5. Facts("discard", u)'
    BY <2>4 DEF Facts, Handlers
  <2> QED
    BY <1>1, <1>5, <1>9, <1>12, <2>2, <2>3, <2>5, Goes
<1>14. CASE ~(Body(r.q) > MaxBody /\ ~script[r.q].chunked)
  <2>1. stack' = <<"content", "posted">> \o t
    BY <1>1, <1>14 DEF ProcessRequest, Call
  <2>2. stack' = Push("content", K1)
    BY SMT, <1>2, <1>12, <2>1, Call2 DEF K1
  <2>3. InContent(K1)'
    BY <1>7, <1>11 DEF InContent
  <2>4. Facts("content", K1)'
    BY <2>3 DEF Facts, Handlers
  <2> QED
    BY <1>1, <1>5, <1>9, <1>12, <2>2, <2>4, Frames, Goes
<1> QED
  BY <1>13, <1>14

LEMMA TooLargeStep == ASSUME IInv, TooLarge PROVE IInv'
<1>1. PICK t \in Stacks : t = Tail(stack) /\ c.open /\ Facts("too_large", t)
  BY Running DEF TooLarge
<1>2. t = Tail1 /\ Answered(K1)
  BY <1>1 DEF Facts, InTooLarge
<1>3. UNCHANGED <<c, r>> /\ Store' /\ Edge'
  BY QuietCR DEF TooLarge
<1>4. Answered(K1)'
  BY <1>2, <1>3, Unmoved
<1>5. stack' = Push("finalize", K1) /\ rc' # "DONE"
  BY <1>1, <1>2 DEF TooLarge, Return, Tail1
<1>6. InFinalize(K1)'
  BY <1>4, <1>5, AreKonts, PendingFinalize
<1> QED
  BY <1>1, <1>3, <1>5, <1>6, AreKonts, Finalizes

(* A read event goes to the read handler of the request. *)
LEMMA ReadEventHandlerStep == ASSUME IInv, ReadEventHandler PROVE IInv'
<1>1. PICK t \in Stacks : t = Tail(stack) /\ c.open /\ Facts("request", t)
  BY Running DEF ReadEventHandler
<1>2. InRequest(t)
  BY <1>1 DEF Facts
<1>3. PICK f \in Handlers : f = r.reh
  BY DEF IInv, Store, StoreR
<1>4. UNCHANGED <<c, r>> /\ Store' /\ Edge'
  BY QuietCR DEF ReadEventHandler
<1>5. InReader(f, K1)
  BY <1>2, <1>3 DEF InRequest, InReader
<1>6. InReader(f, K1)'
  BY <1>4, <1>5, UnmovedMore DEF InReader, Guard
<1>7. Facts(f, K1)'
  BY <1>6 DEF Facts, Handlers
<1>8. f \in Names /\ "posted" \in Names
  BY DEF Handlers, Names
<1>9. stack' = <<f, "posted">> \o t /\ t = K0
  BY <1>1, <1>2, <1>3 DEF ReadEventHandler, Call, InRequest
<1>10. <<f, "posted">> \o t = Push(f, Push("posted", t))
  BY Zenon, <1>8, Call2
<1>11. stack' = Push(f, K1)
  BY <1>9, <1>10 DEF K1
<1> QED
  BY <1>1, <1>4, <1>7, <1>8, <1>11, Frames, Goes

(* A handler that does not read returns. *)
LEMMA ReaderReturns ==
  ASSUME NEW f \in {"block", "test", "broken"}, NEW t, InReader(f, t)
  PROVE  Returned(K1, r.count)
<1>1. r.count = Num(r.discard_body) + Num(Answering) + Owed(K1) /\ r.count >= 1
  BY Owing DEF InReader, Counted, Num
<1>2. Timed /\ Guarded
  BY DEF InReader, Timed, Guarded, Watched
<1> QED
  BY <1>1, <1>2 DEF InReader, Returned, Held

LEMMA BlockReadingStep == ASSUME IInv, BlockReading PROVE IInv'
<1>1. PICK t \in Stacks : t = Tail(stack) /\ c.open /\ Facts("block", t)
  BY Running DEF BlockReading
<1>2. InReader("block", t)
  BY <1>1 DEF Facts, Handlers
<1>3. UNCHANGED <<c, r>> /\ Store' /\ Edge'
  BY QuietCR DEF BlockReading
<1>4. Returned(K1, r.count)
  BY <1>2, ReaderReturns
<1>5. Returned(K1, r.count)'
  BY <1>3, <1>4, Unmoved
<1>6. stack' = K1
  BY <1>1, <1>2 DEF BlockReading, Return, InReader
<1> QED
  BY <1>1, <1>3, <1>5, <1>6, Low, Back

(* The count of a request that is served. *)
LEMMA CountedFew == ASSUME Counted PROVE r.count \in 1..2
BY DEF Counted, Num

LEMMA TestReadingStep == ASSUME IInv, TestReading PROVE IInv'
<1>1. PICK f \in {"test", "broken"} : Top(f)
  BY DEF TestReading
<1>2. PICK t \in Stacks : t = Tail(stack) /\ c.open /\ Facts(f, t)
  BY <1>1, Running
<1>3. InReader(f, t)
  BY <1>2 DEF Facts, Handlers
<1>4. CASE Recv \in {"eof", "error"}
  <2>1. /\ c' = [c EXCEPT !.eof = TRUE, !.error = TRUE] /\ r' = [r EXCEPT !.later = FALSE]
        /\ rc' = "499" /\ Call(<<"finalize">>)
    BY <1>4 DEF TestReading
  <2>2. StoreR(r) /\ StoreC(c) /\ DOMAIN r = RFields /\ DOMAIN c = CFields
    BY DEF IInv, Store, StoreR, StoreC
  <2>3. /\ c'.open = c.open /\ c'.ready = c.ready /\ c'.eof /\ c'.error
        /\ c'.handler = c.handler
    BY <2>1, <2>2 DEF CFields
  <2>4. /\ r'.live = r.live /\ r'.posted = r.posted /\ r'.weh = r.weh /\ r'.count = r.count
    BY <2>1, <2>2 DEF RFields
  <2>5. StoreC(c)' /\ StoreR(r)'
    BY <2>1, <2>2 DEF StoreC, StoreR, CFields, RFields
  <2>6. Store' /\ Edge'
    BY <2>3, <2>5, Quiet DEF TestReading
  <2>7. r.count \in 1..2
    BY <1>3, CountedFew DEF InReader
  <2>8. InFinalize(K1)'
    BY <1>3, <2>1, <2>3, <2>4, <2>7, Low, Distinct, Owing
       DEF InFinalize, InReader, Serving, Watched
  <2>9. stack' = Push("finalize", K1)
    BY <1>2, <1>3, <2>1 DEF Call, Push, InReader
  <2> QED
    BY <1>2, <2>3, <2>6, <2>8, <2>9, AreKonts, Finalizes
<1>5. CASE Recv \notin {"eof", "error"}
  <2>1. UNCHANGED <<c, r>> /\ stack' = K1
    BY <1>2, <1>3, <1>5 DEF TestReading, Return, InReader
  <2>2. Store' /\ Edge'
    BY <2>1, QuietCR DEF TestReading
  <2>3. Returned(K1, r.count)
    BY <1>3, ReaderReturns
  <2>4. Returned(K1, r.count)'
    BY <2>1, <2>3, Unmoved
  <2> QED
    BY <1>2, <2>1, <2>2, <2>4, Low, Back
<1> QED
  BY <1>4, <1>5
(* A content handler starts. *)
LEMMA ContentDiscardsStep == ASSUME IInv, ContentDiscards PROVE IInv'
<1>1. PICK t \in Stacks : t = Tail(stack) /\ c.open /\ Facts("content", t)
  BY Running DEF ContentDiscards
<1>2. t = K1 /\ Unasked
  BY <1>1 DEF Facts, InContent
<1>3. UNCHANGED <<c, r>> /\ Store' /\ Edge'
  BY QuietCR DEF ContentDiscards
<1>4. Unasked'
  BY <1>2, <1>3, UnmovedMore
<1> DEFINE u == Push("unless_failed", Chain(K1))
<1>5. u \in Refusals /\ u \in Stacks
  BY DiscardsIn DEF Refusals
<1>6. /\ "discard" \in Names /\ "unless_failed" \in Names
      /\ "output" \in Names /\ "finalize" \in Names
  BY DEF Names
<1>7. stack' = <<"discard", "unless_failed", "output", "finalize">> \o t
  BY <1>1 DEF ContentDiscards, Call
<1>8. <<"discard", "unless_failed", "output", "finalize">> \o t
        = Push("discard", Push("unless_failed", Push("output", Push("finalize", t))))
  BY SMT, <1>6, Call4
<1>9. stack' = Push("discard", u)
  BY <1>2, <1>7, <1>8 DEF Chain
<1> HIDE DEF u
<1>10. InDiscard(u)'
  BY <1>4, <1>5 DEF InDiscard
<1>11. Facts("discard", u)'
  BY <1>10 DEF Facts, Handlers
<1> QED
  BY <1>1, <1>3, <1>5, <1>6, <1>9, <1>11, Goes

LEMMA UnlessFailedStep == ASSUME IInv, UnlessFailed PROVE IInv'
<1>1. PICK t \in Stacks : t = Tail(stack) /\ c.open /\ Facts("unless_failed", t)
  BY Running DEF UnlessFailed
<1>2. t = Chain(K1) /\ Answered(K1) /\ rc \in {"OK", "500"}
  BY <1>1 DEF Facts, InUnlessFailed
<1>3. UNCHANGED <<c, r, rc>> /\ Store' /\ Edge'
  BY QuietCR DEF UnlessFailed
<1>4. Answered(K1)'
  BY <1>2, <1>3, Unmoved
<1>5. "output" \in Names /\ "finalize" \in Names
  BY DEF Names
<1>6. Push("finalize", K1) \in Stacks
  BY AreKonts, ChainIn
<1>7. CASE rc = "OK"
  <2>1. stack' = Push("output", Push("finalize", K1))
    BY <1>1, <1>2, <1>7 DEF UnlessFailed, Chain
  <2>2. InOutput(Push("finalize", K1))'
    BY <1>4, AreKonts DEF InOutput
  <2> QED
    BY <1>1, <1>3, <1>6, <2>1, <2>2, Outputs
<1>8. CASE rc = "500"
  <2>1. stack' = Tail(t)
    BY <1>1, <1>8 DEF UnlessFailed
  <2>2. Tail(t) = Push("finalize", K1)
    BY <1>2, <1>5, <1>6, Pushed DEF Chain
  <2>3. InFinalize(K1)'
    BY <1>3, <1>4, <1>8, AreKonts, PendingFinalize
  <2> QED
    BY <1>1, <1>3, <2>1, <2>2, <2>3, AreKonts, Finalizes
<1> QED
  BY <1>2, <1>7, <1>8

LEMMA ContentReadsStep ==
  ASSUME IInv, NEW how \in {"now", "later", "unbuffered"}, ContentReads(how)
  PROVE  IInv'
<1>1. PICK t \in Stacks : t = Tail(stack) /\ c.open /\ Facts("content", t)
  BY Running DEF ContentReads
<1>2. t = K1 /\ Unasked /\ r.reh = "block" /\ r.weh = "phases"
  BY <1>1 DEF Facts, InContent
<1>3. StoreR(r) /\ DOMAIN r = RFields
  BY DEF IInv, Store, StoreR
<1>4. /\ r'.reh = r.reh /\ r'.weh = r.weh /\ r'.live = r.live /\ r'.posted = r.posted
      /\ r'.later = r.later /\ r'.discard_body = r.discard_body
      /\ r'.request_body = r.request_body /\ r'.count = r.count
  BY <1>3 DEF ContentReads, RFields
<1>5. StoreR(r)' /\ UNCHANGED c
  BY <1>3 DEF ContentReads, StoreR, RFields
<1>6. Store' /\ Edge'
  BY <1>5, QuietC DEF ContentReads
<1>7. Pending(K1) /\ c.handler = "request" /\ ~r.discard_body /\ ~r.request_body
  BY <1>2 DEF Unasked, Answered
<1>8. Pending(K1)'
  BY <1>2, <1>4, <1>7, Low, Distinct DEF Pending
<1>9. Unasked'
  BY <1>4, <1>5, <1>7, <1>8 DEF Unasked, Answered
<1>10. InReadBody(Tail2)'
  BY <1>2, <1>4, <1>9 DEF InReadBody
<1>11. Facts("read_body", Tail2)'
  BY <1>10 DEF Facts, Handlers
<1>12. "read_body" \in Names /\ "read_done" \in Names /\ "finalize" \in Names
  BY DEF Names
<1>13. stack' = <<"read_body", "read_done", "finalize">> \o t
  BY <1>1 DEF ContentReads, Call
<1>14. <<"read_body", "read_done", "finalize">> \o t
         = Push("read_body", Push("read_done", Push("finalize", t)))
  BY SMT, <1>12, Call3
<1>15. stack' = Push("read_body", Tail2)
  BY <1>2, <1>13, <1>14 DEF Tail2, Tail1
<1> QED
  BY <1>1, <1>5, <1>6, <1>11, <1>12, <1>15, Frames, Goes

LEMMA ContentRefusesStep ==
  ASSUME IInv, NEW code \in {"404", "500"}, ContentRefuses(code)
  PROVE  IInv'
<1>1. PICK t \in Stacks : t = Tail(stack) /\ c.open /\ Facts("content", t)
  BY Running DEF ContentRefuses
<1>2. t = K1 /\ Answered(K1)
  BY <1>1 DEF Facts, InContent, Unasked
<1>3. UNCHANGED <<c, r>> /\ Store' /\ Edge' /\ rc' # "DONE"
  BY QuietCR DEF ContentRefuses
<1>4. Answered(K1)'
  BY <1>2, <1>3, Unmoved
<1>5. InFinalize(K1)'
  BY <1>3, <1>4, AreKonts, PendingFinalize
<1>6. stack' = Push("finalize", K1)
  BY <1>1, <1>2 DEF ContentRefuses, Call, Push
<1> QED
  BY <1>1, <1>3, <1>5, <1>6, AreKonts, Finalizes

(* The reference of the handler itself, given back. *)
LEMMA GivenBack ==
  ASSUME StoreR(r), Ctx(K2), Returned(K2, r.count)
  PROVE  /\ r.live /\ c.handler = "request"
         /\ IF r.count = 1 THEN ~r.later /\ ~r.posted /\ r.weh # "none"
                           ELSE Half(K1, r.count - 1)
<1>1. r.count \in Nat /\ ~Lingers(K2, r.count)
  BY Owing DEF StoreR, Lingers
<1>2. CASE Terminated(K2, r.count)
  <2>1. r.count \in 2..3
    BY <1>2, Owing DEF Terminated
  <2>2. Terminated(K1, r.count - 1)
    BY <1>2, <2>1, Owing, Distinct DEF Terminated
  <2>3. r.live /\ c.handler = "request" /\ r.count # 1
    BY <1>2, <2>1 DEF Terminated
  <2> QED
    BY <2>2, <2>3 DEF Half
<1>3. CASE Held(K2, r.count)
  <2>1. r.count = Num(r.discard_body) + Num(Answering) + 1
    BY <1>3, Owing DEF Held
  <2>2. r.count = 1 => ~r.later /\ ~r.posted /\ r.weh # "none"
    BY <1>3, <2>1 DEF Held, Num, Answering, Serving, Watched
  <2>3. r.count # 1 => Held(K1, r.count - 1)
    BY <1>3, <2>1, Owing DEF Held, Num
  <2> QED
    BY <1>3, <2>2, <2>3 DEF Half, Held, Serving
<1> QED
  BY <1>1, <1>2, <1>3 DEF Returned

LEMMA ReadDoneStep == ASSUME IInv, ReadDone PROVE IInv'
<1>1. PICK t \in Stacks : t = Tail(stack) /\ c.open /\ Facts("read_done", t)
  BY Running DEF ReadDone
<1>2. /\ t = Tail1
      /\ IF rc \in Special THEN Answered(K1) ELSE Ctx(K2) /\ Returned(K2, r.count)
  BY <1>1 DEF Facts, InReadDone
<1>3. UNCHANGED <<c, r>> /\ Store' /\ Edge' /\ StoreR(r)'
  BY QuietCR DEF ReadDone, Store
<1>4. stack' = Push("finalize", K1)
  BY <1>1, <1>2 DEF ReadDone, Return, Tail1
<1>5. CASE rc \in Special
  <2>1. Answered(K1)' /\ rc' = rc
    BY <1>2, <1>3, <1>5, Unmoved DEF ReadDone
  <2>2. InFinalize(K1)'
    BY <1>5, <2>1, AreKonts, PendingFinalize DEF Special
  <2> QED
    BY <1>1, <1>3, <1>4, <2>2, AreKonts, Finalizes
<1>6. CASE rc \notin Special
  <2>1. /\ r.live /\ c.handler = "request"
        /\ IF r.count = 1 THEN ~r.later /\ ~r.posted /\ r.weh # "none"
                          ELSE Half(K1, r.count - 1)
    BY <1>2, <1>6, GivenBack DEF IInv, Store
  <2>2. rc' = "DONE"
    BY <1>6 DEF ReadDone
  <2>3. IF r'.count = 1 THEN ~r'.later /\ ~r'.posted /\ r'.weh # "none"
                        ELSE Half(K1, r.count - 1)'
    BY <1>3, <2>1, Unmoved
  <2>4. InFinalize(K1)'
    BY <1>3, <2>1, <2>2, <2>3, Low DEF InFinalize
  <2> QED
    BY <1>1, <1>3, <1>4, <2>4, AreKonts, Finalizes
<1> QED
  BY <1>5, <1>6
-----------------------------------------------------------------------------
(* The answer is sent. *)
LEMMA OutputStep == ASSUME IInv, Output PROVE IInv'
<1>1. PICK t \in Stacks : t = Tail(stack) /\ c.open /\ Facts("output", t)
  BY Running DEF Output
<1>2. InOutput(t)
  BY <1>1 DEF Facts
<1>3. StoreR(r) /\ StoreC(c) /\ DOMAIN r = RFields /\ DOMAIN c = CFields /\ StoreB
  BY DEF IInv, Store, StoreR, StoreC
<1>4. /\ UNCHANGED <<client, net, edge, buf, room>> /\ (Works \/ Fails) /\ stack' = t
      /\ rc' \in {"OK", "AGAIN", "ERROR"}
  BY <1>1 DEF Output, Return
<1>5. /\ c'.open = c.open /\ c'.handler = c.handler /\ c'.ready = c.ready /\ c'.eof = c.eof
      /\ (c.error => c'.error) /\ (rc' = "OK" => ~c'.buffered)
  BY <1>3 DEF Output, CFields
<1>6. StoreC(c)'
  BY <1>3 DEF Output, StoreC, CFields
<1>7. AlikeR /\ r'.count = r.count /\ r'.rest = r.rest
  BY <1>3 DEF Output, AlikeR, RFields
<1>8. StoreR(r)'
  BY <1>3 DEF Output, StoreR, RFields
<1>9. StoreB'
  BY <1>3, <1>4, StoreStill, Failing DEF StoreB
<1>10. Edge' /\ (Dry => Dry')
  BY <1>4, <1>5 DEF IInv, Edge, client, Dry
<1>11. ASSUME NEW k \in Konts, t = Push("finalize", k), Answered(k)
       PROVE  IInv'
  <2>1. Answered(k)'
    BY <1>5, <1>7, <1>10, <1>11, PendingAlike DEF Answered
  <2>2. InFinalize(k)'
    BY <1>4, <2>1, PendingFinalize
  <2> QED
    BY <1>1, <1>4, <1>5, <1>6, <1>8, <1>9, <1>10, <1>11, <2>2, Finalizes DEF Store
<1>12. ASSUME t = Push("written", K1), Writing
       PROVE  IInv'
  <2>1. Writing'
    BY <1>5, <1>7, <1>10, <1>12 DEF Writing, Serving, Watched, AlikeR
  <2>2. InWritten(K1)'
    BY <1>4, <1>5, <2>1 DEF InWritten
  <2>3. Facts("written", K1)' /\ "written" \in Names
    BY <2>2 DEF Facts, Handlers, Names
  <2> QED
    BY <1>1, <1>4, <1>5, <1>6, <1>8, <1>9, <1>10, <1>12, <2>3, Frames, Goes DEF Store
<1> QED
  BY <1>2, <1>11, <1>12 DEF InOutput

LEMMA WriterStep == ASSUME IInv, Writer PROVE IInv'
<1>1. PICK t \in Stacks : t = Tail(stack) /\ c.open /\ Facts("write", t)
  BY Running DEF Writer
<1>2. InWrite(t) /\ r.weh = "writer"
  BY <1>1 DEF Facts, Writer
<1>3. UNCHANGED <<c, r>> /\ Store' /\ Edge'
  BY QuietCR DEF Writer
<1>4. CASE c.wtimedout
  <2>1. rc' = "408" /\ stack' = Push("finalize", K1)
    BY <1>1, <1>2, <1>4 DEF Writer, Call, Push, InWrite
  <2>2. r.count \in 1..2
    BY <1>2, CountedFew DEF InWrite
  <2>3. InFinalize(K1)'
    BY <1>2, <1>3, <2>1, <2>2, Low, Distinct, Owing
       DEF InFinalize, InWrite, Serving
  <2> QED
    BY <1>1, <1>3, <2>1, <2>3, AreKonts, Finalizes
<1>5. CASE ~c.wtimedout
  <2>1. Writing
    BY <1>2 DEF InWrite, Writing, Counted, Answering, Num
  <2>2. Writing'
    BY <1>3, <2>1, UnmovedMore
  <2>3. InOutput(Push("written", K1))'
    BY <2>2 DEF InOutput
  <2>4. "output" \in Names /\ "written" \in Names
    BY DEF Names
  <2>5. stack' = <<"output", "written">> \o t
    BY <1>1, <1>5 DEF Writer, Call
  <2>6. <<"output", "written">> \o t = Push("output", Push("written", t))
    BY Zenon, <2>4, Call2
  <2>7. stack' = Push("output", Push("written", K1))
    BY <1>2, <2>5, <2>6 DEF InWrite
  <2>8. Push("written", K1) \in Stacks
    BY <2>4, Frames, Pushed
  <2> QED
    BY <1>1, <1>3, <2>3, <2>7, <2>8, Outputs
<1> QED
  BY <1>4, <1>5

LEMMA WrittenStep == ASSUME IInv, Written PROVE IInv'
<1>1. PICK t \in Stacks : t = Tail(stack) /\ c.open /\ Facts("written", t)
  BY Running DEF Written
<1>2. t = K1 /\ Writing /\ rc \in {"OK", "AGAIN", "ERROR"}
  BY <1>1 DEF Facts, InWritten
<1>3. StoreR(r) /\ StoreC(c) /\ DOMAIN r = RFields /\ DOMAIN c = CFields
  BY DEF IInv, Store, StoreR, StoreC
<1>4. r.count \in 1..2
  BY <1>2 DEF Writing, Num
<1>5. CASE rc # "ERROR" /\ c.buffered
  <2>1. c' = [c EXCEPT !.wtimer = TRUE] /\ stack' = K1 /\ UNCHANGED r
    BY <1>1, <1>2, <1>5 DEF Written, Return
  <2>2. /\ c'.open = c.open /\ c'.handler = c.handler /\ c'.ready = c.ready
        /\ c'.eof = c.eof /\ c'.error = c.error /\ c'.wtimer
    BY <1>3, <2>1 DEF CFields
  <2>3. StoreC(c)' /\ StoreR(r)'
    BY <1>3, <2>1 DEF StoreC, StoreR, CFields
  <2>4. Store' /\ Edge'
    BY <2>2, <2>3, Quiet DEF Written
  <2>5. Serving' /\ Watched' /\ Timed' /\ Guarded' /\ Answering'
    BY <1>2, <2>1, <2>2 DEF Writing, Serving, Watched, Timed, Guarded, Answering, Dry
  <2>6. r'.count = Num(r'.discard_body) + Num(Answering') + Owed(K1) /\ r'.count >= 1
    BY <1>2, <1>4, <2>1, <2>5, Owing DEF Writing, Num
  <2>7. Returned(K1, r.count)'
    BY <2>5, <2>6 DEF Returned, Held
  <2> QED
    BY <1>1, <2>1, <2>2, <2>4, <2>7, Low, Back
<1>6. CASE ~(rc # "ERROR" /\ c.buffered)
  <2>1. /\ r' = [r EXCEPT !.weh = IF rc = "ERROR" THEN @ ELSE "empty"]
        /\ UNCHANGED <<c, rc>>
    BY <1>6 DEF Written
  <2>2. /\ r'.reh = r.reh /\ r'.live = r.live /\ r'.posted = r.posted
        /\ r'.later = r.later /\ r'.discard_body = r.discard_body
        /\ r'.request_body = r.request_body /\ r'.no_buffering = r.no_buffering
        /\ r'.count = r.count /\ r'.weh \in {"writer", "empty"}
    BY <1>2, <1>3, <2>1 DEF RFields, Writing
  <2>3. StoreR(r)'
    BY <1>3, <2>1 DEF StoreR, RFields
  <2>4. Store' /\ Edge'
    BY <2>1, <2>3, QuietC DEF Written
  <2>5. Pending(K1)'
    <3>1. r'.count = 1 + Num(r'.discard_body) + Owed(K1)
      BY <1>2, <2>2, Owing DEF Writing, Num
    <3>2. r'.live /\ ~r'.posted /\ ~r'.later /\ r'.weh # "none"
      BY <1>2, <2>2 DEF Writing, Serving, Watched
    <3>3. /\ r'.reh \in {"body", "unbuffered"} => r'.request_body
          /\ r'.reh = "discarded" => Dry'
          /\ r'.discard_body => ~r'.request_body /\ r'.reh = "discarded"
      BY <1>2, <2>1, <2>2 DEF Writing, Watched, Dry
    <3> QED
      BY <3>1, <3>2, <3>3, Low, Distinct, Owing DEF Pending
  <2>6. InFinalize(K1)'
    BY <1>2, <2>1, <2>5, AreKonts, PendingFinalize DEF Answered, Writing, Serving
  <2>7. stack' = Push("finalize", K1)
    BY <1>1, <1>2, <1>6 DEF Written, Call, Push
  <2> QED
    BY <1>1, <2>1, <2>4, <2>6, <2>7, AreKonts, Finalizes
<1> QED
  BY <1>5, <1>6
-----------------------------------------------------------------------------
(* The body of the request is read. *)

(* What is left of the body is taken from what was read with the head. *)
LEMMA Preread ==
  ASSUME StoreB, NEW n \in 0..Len(buf), buf' = Rest(buf, n), UNCHANGED <<client, net, room>>,
         faults' \in 0..Faults
  PROVE  StoreB'
<1>1. UnitSet' = UnitSet /\ buf \in Seq(UnitSet) /\ Len(buf) \in Nat
  BY DEF StoreB, UnitSet, client
<1>2. buf' \in Seq(UnitSet) /\ Len(buf') = Len(buf) - n
  BY <1>1, Taken
<1>3. room \in Int /\ Len(buf) + room <= HeaderBuffer + LargeBuffer
  BY HttpConnectionAssumption DEF StoreB
<1>4. Len(buf') + room <= HeaderBuffer + LargeBuffer
  BY <1>1, <1>2, <1>3, HttpConnectionAssumption
<1> QED
  BY <1>1, <1>2, <1>4 DEF StoreB, client

(* ... and from the socket. *)
LEMMA Drained ==
  ASSUME StoreB, NEW n \in 0..Len(net), net' = Rest(net, n), UNCHANGED <<client, buf, room>>,
         faults' \in 0..Faults
  PROVE  /\ StoreB' /\ (net' # <<>> => net # <<>>)
         /\ (n = Len(net) => net' = <<>>)
<1>1. UnitSet' = UnitSet /\ net \in Seq(UnitSet) /\ Len(net) \in Nat
  BY DEF StoreB, UnitSet, client
<1>2. net' \in Seq(UnitSet) /\ Len(net') = Len(net) - n
  BY <1>1, Taken
<1>3. StoreB'
  BY <1>1, <1>2 DEF StoreB, client
<1>4. (net' = <<>> <=> Len(net') = 0) /\ (net = <<>> <=> Len(net) = 0)
  BY <1>1, <1>2, Empty
<1>5. net' # <<>> => net # <<>>
  BY <1>1, <1>2, <1>4
<1>6. n = Len(net) => net' = <<>>
  BY <1>1, <1>2, <1>4
<1> QED
  BY <1>3, <1>5, <1>6

LEMMA ReadClientRequestBodyStep == ASSUME IInv, ReadClientRequestBody PROVE IInv'
<1>1. PICK t \in Stacks : t = Tail(stack) /\ c.open /\ Facts("read_body", t)
  BY Running DEF ReadClientRequestBody
<1>2. t = Tail2 /\ Unasked /\ r.reh = "block" /\ r.weh = "phases"
  BY <1>1 DEF Facts, InReadBody
<1>3. StoreR(r) /\ StoreB /\ DOMAIN r = RFields /\ r.rest \in Int
  BY DEF IInv, Store, StoreR
<1>4. /\ c.handler = "request" /\ r.live /\ ~r.posted /\ ~r.later /\ r.count = 1
      /\ ~r.discard_body
  BY <1>2, Owing DEF Unasked, Answered, Pending, Num
<1>5. UNCHANGED <<client, net, edge, c, room>> /\ (Works \/ Fails) /\ StoreC(c)'
  BY DEF ReadClientRequestBody, IInv, Store, StoreC
<1>6. Edge' /\ faults' \in 0..Faults
  BY <1>3, <1>5, EdgeStill, Failing DEF IInv, StoreB
<1>7. CASE Fails /\ rc' = "500" /\ Return /\ UNCHANGED <<r, buf>>
  <2>1. StoreB'
    BY <1>3, <1>5, <1>6, <1>7, StoreStill
  <2>2. StoreR(r)' /\ Answered(K1)'
    BY <1>2, <1>3, <1>5, <1>7, Unmoved DEF StoreR, Unasked
  <2>3. InReadDone(Tail1)'
    BY <1>7, <2>2 DEF InReadDone, Special
  <2>4. Facts("read_done", Tail1)' /\ "read_done" \in Names
    BY <2>3 DEF Facts, Handlers, Names
  <2>5. stack' = Push("read_done", Tail1)
    BY <1>1, <1>2, <1>7 DEF Return, Tail2
  <2> QED
    BY <1>1, <1>5, <1>6, <2>1, <2>2, <2>4, <2>5, Frames, Goes DEF Store
<1>8. CASE ~(Fails /\ rc' = "500" /\ Return /\ UNCHANGED <<r, buf>>)
  <2> DEFINE n == IF NoBody THEN 0 ELSE Min2(r.rest, Len(buf))
             done == NoBody \/ r.rest = n
  <2>0. Len(buf) \in Nat
    BY <1>3 DEF StoreB
  <2>1. n \in 0..Len(buf) /\ (~NoBody => n <= r.rest) /\ (NoBody => n = 0)
    BY <1>3, <2>0 DEF Min2, NoBody
  <2>2. /\ buf' = Rest(buf, n)
        /\ r' = [r EXCEPT !.count = @ + 1, !.request_body = TRUE,
                          !.rest = @ - n, !.no_buffering = @ /\ ~done,
                          !.reh = IF done THEN @ ELSE "body",
                          !.weh = IF done THEN @ ELSE "empty"]
        /\ Call(IF done THEN <<"post_handler", "body_ok">> ELSE <<"do_read", "body_done">>)
    BY <1>8 DEF ReadClientRequestBody
  <2> HIDE DEF n, done
  <2>3. StoreB' /\ n \in Int
    BY <1>3, <1>5, <1>6, <2>0, <2>1, <2>2, Preread
  <2>4. /\ r'.count = 2 /\ r'.request_body /\ r'.rest = r.rest - n
        /\ r'.live = r.live /\ r'.posted = r.posted /\ r'.later = r.later
        /\ r'.discard_body = r.discard_body /\ r'.state = r.state
        /\ r'.reading_body = r.reading_body /\ r'.lingering_time = r.lingering_time
        /\ DOMAIN r' = RFields
    <3>1. r' = [r EXCEPT !.count = r.count + 1, !.request_body = TRUE,
                         !.rest = r.rest - n, !.no_buffering = r.no_buffering /\ ~done,
                         !.reh = IF done THEN r.reh ELSE "body",
                         !.weh = IF done THEN r.weh ELSE "empty"]
      BY <2>2
    <3>2. DOMAIN r' = RFields
      BY <1>3, <3>1 DEF RFields
    <3>3. r'.live = r.live /\ r'.posted = r.posted /\ r'.later = r.later
      BY <1>3, <3>1 DEF RFields
    <3>4. r'.discard_body = r.discard_body /\ r'.state = r.state
      BY <1>3, <3>1 DEF RFields
    <3>5. r'.reading_body = r.reading_body /\ r'.lingering_time = r.lingering_time
      BY <1>3, <3>1 DEF RFields
    <3>6. r'.request_body /\ r'.rest = r.rest - n
      BY <1>3, <3>1 DEF RFields
    <3>7. r'.count = r.count + 1
      BY <1>3, <3>1 DEF RFields
    <3> QED
      BY <1>4, <3>2, <3>3, <3>4, <3>5, <3>6, <3>7
  <2>5. CASE done
    <3>1. r'.reh = "block" /\ r'.weh = "phases"
      BY <1>2, <1>3, <2>2, <2>5 DEF RFields
    <3>2. StoreR(r)'
      BY <1>3, <2>1, <2>3, <2>4, <2>5, <3>1 DEF StoreR, NoBody, Handlers, done
    <3>3. Ctx(K2)'
      BY <2>4, AreKonts, Distinct DEF Ctx
    <3>4. Answered(K2)'
      BY <1>4, <1>5, <2>4, <3>1, <3>3, Distinct, Owing DEF Answered, Pending, Num
    <3>5. InPostHandler(K2)'
      BY <2>4, <3>1, <3>4 DEF InPostHandler
    <3>6. Facts("post_handler", K2)'
      BY <3>5 DEF Facts, Handlers
    <3>7. "post_handler" \in Names /\ "body_ok" \in Names
      BY DEF Names
    <3>8. stack' = <<"post_handler", "body_ok">> \o t
      BY <1>1, <2>2, <2>5 DEF Call
    <3>9. <<"post_handler", "body_ok">> \o t = Push("post_handler", Push("body_ok", t))
      BY Zenon, <3>7, Call2
    <3>10. stack' = Push("post_handler", K2)
      BY <1>2, <3>8, <3>9 DEF K2
    <3> QED
      BY <1>1, <1>5, <1>6, <2>3, <3>2, <3>6, <3>7, <3>10, Frames, Goes DEF Store
  <2>6. CASE ~done
    <3>1. r'.reh = "body" /\ r'.weh = "empty"
      BY <1>3, <2>2, <2>6 DEF RFields
    <3>2. StoreR(r)'
      BY <1>3, <2>1, <2>3, <2>4, <2>6, <3>1 DEF StoreR, NoBody, Handlers, done
    <3>3. InDoRead(Push("body_done", Tail2))'
      BY <1>4, <1>5, <2>4, <3>1 DEF InDoRead, BodyLeft, Serving
    <3>4. Facts("do_read", Push("body_done", Tail2))'
      BY <3>3 DEF Facts, Handlers
    <3>5. "do_read" \in Names /\ "body_done" \in Names
      BY DEF Names
    <3>6. stack' = <<"do_read", "body_done">> \o t
      BY <1>1, <2>2, <2>6 DEF Call
    <3>7. <<"do_read", "body_done">> \o t = Push("do_read", Push("body_done", t))
      BY Zenon, <3>5, Call2
    <3>8. stack' = Push("do_read", Push("body_done", Tail2))
      BY <1>2, <3>6, <3>7
    <3> QED
      BY <1>1, <1>5, <1>6, <2>3, <3>2, <3>4, <3>5, <3>8, Frames, Goes DEF Store
  <2> QED
    BY <2>5, <2>6
<1> QED
  BY <1>7, <1>8
(* Where a function returns matters only by what it owes. *)
LEMMA ReturnedAlike ==
  ASSUME NEW j, NEW k, Owed(j) = Owed(k), j # K0, k # K0, NEW n, Returned(k, n)
  PROVE  Returned(j, n)
BY DEF Returned, Terminated, Held, Lingers

LEMMA BodyOkStep == ASSUME IInv, BodyOk PROVE IInv'
<1>1. PICK t \in Stacks : t = Tail(stack) /\ c.open /\ Facts("body_ok", t)
  BY Running DEF BodyOk
<1>2. PICK k \in {K2, K3, K4} : Push("body_ok", t) = k /\ Ctx(k) /\ Returned(k, r.count)
  BY <1>1 DEF Facts, InBodyOk
<1>3. UNCHANGED <<c, r>> /\ Store' /\ Edge' /\ rc' = "OK" /\ stack' = t
  BY <1>1, QuietCR DEF BodyOk, Return
<1>4. "body_ok" \in Names /\ Tail(Push("body_ok", t)) = t
  BY Pushed DEF Names
<1>5. Ctx(k)' /\ Returned(k, r.count)'
  BY <1>2, <1>3, Unmoved
<1>6. CASE k = K2
  <2>1. t = Push("read_done", Tail1)
    BY <1>2, <1>4, <1>6, Frames, Pushed DEF K2, Tail2
  <2>2. InReadDone(Tail1)'
    BY <1>3, <1>5, <1>6 DEF InReadDone, Special
  <2>3. Facts("read_done", Tail1)' /\ "read_done" \in Names
    BY <2>2 DEF Facts, Handlers, Names
  <2> QED
    BY <1>1, <1>3, <2>1, <2>3, Frames, Goes
<1>7. CASE k = K3
  <2>1. t = Push("if_failed", K1)
    BY <1>2, <1>4, <1>7, Frames, Pushed DEF K3
  <2>2. Returned(K1, r.count)
    BY <1>2, <1>7, Owing, Distinct, ReturnedAlike
  <2>3. Returned(K1, r.count)'
    BY <1>3, <2>2, Unmoved
  <2>4. InIfFailed(K1)'
    BY <1>3, <2>3, Low DEF InIfFailed, Special
  <2>5. Facts("if_failed", K1)' /\ "if_failed" \in Names
    BY <2>4 DEF Facts, Handlers, Names
  <2> QED
    BY <1>1, <1>3, <2>1, <2>5, Frames, Goes
<1>8. CASE k = K4
  <2>1. t = Push("body_done", Tail2)
    BY <1>2, <1>4, <1>8, Frames, Pushed DEF K4
  <2>2. Returned(K2, r.count)
    BY <1>2, <1>8, Owing, Distinct, ReturnedAlike
  <2>3. Returned(K2, r.count)'
    BY <1>3, <2>2, Unmoved
  <2>4. r.request_body /\ ~r.no_buffering
    BY <1>2, <1>8 DEF Ctx
  <2>5. InBodyDone(Tail2)'
    BY <1>3, <2>3, <2>4 DEF InBodyDone
  <2>6. Facts("body_done", Tail2)' /\ "body_done" \in Names
    BY <2>5 DEF Facts, Handlers, Names
  <2> QED
    BY <1>1, <1>3, <2>1, <2>6, Frames, Goes
<1> QED
  BY <1>6, <1>7, <1>8

LEMMA BodyDoneStep == ASSUME IInv, BodyDone PROVE IInv'
<1>1. PICK t \in Stacks : t = Tail(stack) /\ c.open /\ Facts("body_done", t)
  BY Running DEF BodyDone
<1>2. InBodyDone(t)
  BY <1>1 DEF Facts
<1>3. StoreR(r) /\ DOMAIN r = RFields
  BY DEF IInv, Store, StoreR
<1>4. UNCHANGED <<c, rc>> /\ t = Tail2 /\ r.request_body
  BY <1>2 DEF BodyDone, InBodyDone
<1> DEFINE unbuffered == r.no_buffering /\ rc \in {"OK", "AGAIN"}
<1>5. /\ r' = [r EXCEPT !.no_buffering = @ /\ rc # "OK",
                        !.reading_body = @ \/ (unbuffered /\ rc = "AGAIN"),
                        !.reh = IF unbuffered THEN "block" ELSE @,
                        !.count = IF rc \in Special THEN @ - 1 ELSE @]
      /\ stack' = (IF unbuffered THEN <<"post_handler", "body_ok">> ELSE <<>>) \o t
  BY <1>1 DEF BodyDone, Call
<1> HIDE DEF unbuffered
<1>6. /\ DOMAIN r' = RFields /\ (r'.no_buffering <=> r.no_buffering /\ rc # "OK")
      /\ (r'.reading_body <=> r.reading_body \/ (unbuffered /\ rc = "AGAIN"))
      /\ r'.reh = (IF unbuffered THEN "block" ELSE r.reh)
      /\ r'.count = (IF rc \in Special THEN r.count - 1 ELSE r.count)
  BY <1>3, <1>5 DEF RFields
<1>7. /\ r'.live = r.live /\ r'.posted = r.posted /\ r'.later = r.later /\ r'.weh = r.weh
      /\ r'.discard_body = r.discard_body /\ r'.request_body = r.request_body
      /\ r'.rest = r.rest /\ r'.state = r.state /\ r'.lingering_time = r.lingering_time
  BY <1>3, <1>5 DEF RFields
<1>8. ASSUME StoreR(r)' PROVE Store' /\ Edge'
  BY <1>4, <1>8, QuietC DEF BodyDone
<1>9. ASSUME InReadDone(Tail1)', StoreR(r)', ~unbuffered PROVE IInv'
  <2>1. Facts("read_done", Tail1)' /\ "read_done" \in Names
    BY <1>9 DEF Facts, Handlers, Names
  <2>2. stack' = Push("read_done", Tail1)
    BY <1>1, <1>4, <1>5, <1>9, Call0 DEF Tail2
  <2> QED
    BY <1>1, <1>4, <1>8, <1>9, <2>1, <2>2, Frames, Goes
<1>10. CASE rc = "OK" /\ ~r.no_buffering /\ Returned(K2, r.count)
  <2>1. ~unbuffered /\ rc \notin Special
    BY <1>10 DEF unbuffered, Special
  <2>2. AlikeR /\ AlikeC /\ r'.count = r.count
    BY <1>4, <1>6, <1>7, <1>10, <2>1 DEF AlikeR, AlikeC
  <2>3. Returned(K2, r.count)'
    BY <1>10, <2>2, Alike
  <2>4. Ctx(K2)'
    BY <1>4, <1>7, AreKonts, Distinct DEF Ctx
  <2>5. InReadDone(Tail1)'
    BY <1>4, <2>1, <2>3, <2>4 DEF InReadDone
  <2>6. StoreR(r)'
    BY <1>3, <1>6, <1>7, <2>1, <2>2 DEF StoreR
  <2> QED
    BY <1>9, <2>1, <2>5, <2>6
<1>11. ASSUME BodyLeft, ~r.later, r.reh = "body", r.weh = "empty", r.count = 2,
              rc \in {"OK", "AGAIN", "400", "500"}, rc = "OK" => r.no_buffering,
              rc = "AGAIN" => Dry /\ c.rtimer
       PROVE  IInv'
  <2>1. ~(r.rest < 0)
    BY <1>3, <1>11 DEF StoreR
  <2>2. StoreR(r)'
    BY <1>3, <1>6, <1>7, <1>11, <2>1 DEF StoreR, Handlers
  <2>3. Serving' /\ r'.request_body /\ ~r'.discard_body /\ ~r'.later /\ r'.weh = "empty"
    BY <1>4, <1>7, <1>11 DEF BodyLeft, Serving
  <2>4. CASE unbuffered
    <3>1. r'.reh = "block" /\ r'.count = 2
      BY <1>6, <1>11, <2>4 DEF unbuffered, Special
    <3>2. Ctx(K2)'
      BY <2>3, AreKonts, Distinct DEF Ctx
    <3>3. Answered(K2)'
      BY <2>3, <3>1, <3>2, Distinct, Owing DEF Answered, Pending, Serving, Num
    <3>4. InPostHandler(K2)'
      BY <2>3, <3>1, <3>3 DEF InPostHandler
    <3>5. Facts("post_handler", K2)'
      BY <3>4 DEF Facts, Handlers
    <3>6. "post_handler" \in Names /\ "body_ok" \in Names
      BY DEF Names
    <3>7. <<"post_handler", "body_ok">> \o t = Push("post_handler", Push("body_ok", t))
      BY Zenon, <3>6, Call2
    <3>8. stack' = Push("post_handler", K2)
      BY <1>4, <1>5, <2>4, <3>7 DEF K2
    <3> QED
      BY <1>1, <1>4, <1>8, <2>2, <3>5, <3>6, <3>8, Frames, Goes
  <2>5. CASE rc \in Special
    <3>1. ~unbuffered
      BY <2>5 DEF unbuffered, Special
    <3>2. r'.reh = "body" /\ r'.count = 1
      BY <1>6, <1>11, <2>5, <3>1
    <3>3. Answered(K1)'
      BY <2>3, <3>2, Low, Distinct, Owing DEF Answered, Pending, Serving, Num
    <3>4. InReadDone(Tail1)'
      BY <1>4, <2>5, <3>3 DEF InReadDone
    <3> QED
      BY <1>9, <2>2, <3>1, <3>4
  <2>6. CASE ~unbuffered /\ rc \notin Special
    <3>1. rc = "AGAIN" /\ ~r.no_buffering /\ Dry /\ c.rtimer
      BY <1>11, <2>6 DEF unbuffered, Special
    <3>2. r'.reh = "body" /\ r'.count = 2 /\ ~r'.no_buffering
      BY <1>6, <1>11, <2>6, <3>1
    <3>3. Watched' /\ Timed' /\ Guarded' /\ Answering'
      BY <1>4, <2>3, <3>1, <3>2 DEF Watched, Timed, Guarded, Answering, Dry
    <3>4. Ctx(K2)'
      BY <2>3, AreKonts, Distinct DEF Ctx
    <3>5. Held(K2, r.count)'
      BY <2>3, <3>2, <3>3, Owing DEF Held, Num
    <3>6. InReadDone(Tail1)'
      BY <1>4, <2>6, <3>3, <3>4, <3>5 DEF InReadDone, Returned
    <3> QED
      BY <1>9, <2>2, <2>6, <3>6
  <2> QED
    BY <2>4, <2>5, <2>6
<1> QED
  BY <1>2, <1>10, <1>11 DEF InBodyDone

LEMMA IfFailedStep == ASSUME IInv, IfFailed PROVE IInv'
<1>1. PICK t \in Stacks : t = Tail(stack) /\ c.open /\ Facts("if_failed", t)
  BY Running DEF IfFailed
<1>2. /\ t = K1
      /\ IF rc \in Special THEN Answered(K1) ELSE Ctx(K1) /\ Returned(K1, r.count)
  BY <1>1 DEF Facts, InIfFailed
<1>3. UNCHANGED <<c, r, rc>> /\ Store' /\ Edge'
  BY QuietCR DEF IfFailed
<1>4. CASE rc \in Special
  <2>1. Answered(K1)'
    BY <1>2, <1>3, <1>4, Unmoved
  <2>2. InFinalize(K1)'
    BY <1>3, <1>4, <2>1, AreKonts, PendingFinalize DEF Special
  <2>3. stack' = Push("finalize", K1)
    BY <1>1, <1>2, <1>4 DEF IfFailed, Call, Push
  <2> QED
    BY <1>1, <1>3, <2>2, <2>3, AreKonts, Finalizes
<1>5. CASE rc \notin Special
  <2>1. Returned(K1, r.count)'
    BY <1>2, <1>3, <1>5, Unmoved
  <2>2. stack' = K1
    BY <1>1, <1>2, <1>5, Frames, Call0 DEF IfFailed, Call
  <2> QED
    BY <1>1, <1>3, <2>1, <2>2, Low, Back
<1> QED
  BY <1>4, <1>5

(* The handler that waited for the body goes on. *)
LEMMA PostHandlerAnswersStep == ASSUME IInv, PostHandlerAnswers PROVE IInv'
<1>1. PICK t \in Stacks : t = Tail(stack) /\ c.open /\ Facts("post_handler", t)
  BY Running DEF PostHandlerAnswers
<1>2. t \in Konts /\ Answered(t)
  BY <1>1 DEF Facts, InPostHandler, Konts
<1>3. UNCHANGED <<c, r>> /\ Store' /\ Edge'
  BY QuietCR DEF PostHandlerAnswers
<1>4. Answered(t)'
  BY <1>2, <1>3, Unmoved
<1>5. "output" \in Names /\ "finalize" \in Names
  BY DEF Names
<1>6. CASE Call(<<"output", "finalize">>)
  <2>1. stack' = <<"output", "finalize">> \o t
    BY <1>1, <1>6 DEF Call
  <2>2. <<"output", "finalize">> \o t = Push("output", Push("finalize", t))
    BY Zenon, <1>5, Call2
  <2>3. InOutput(Push("finalize", t))'
    BY <1>2, <1>4 DEF InOutput
  <2> QED
    BY <1>1, <1>2, <1>3, <2>1, <2>2, <2>3, ChainIn, Outputs
<1>7. CASE Call(<<"finalize">>) /\ rc' = "500"
  <2>1. stack' = Push("finalize", t)
    BY <1>1, <1>7 DEF Call, Push
  <2>2. InFinalize(t)'
    BY <1>2, <1>4, <1>7, PendingFinalize
  <2> QED
    BY <1>1, <1>2, <1>3, <2>1, <2>2, Finalizes
<1> QED
  BY <1>6, <1>7 DEF PostHandlerAnswers

LEMMA PostHandlerUpstreamStep == ASSUME IInv, PostHandlerUpstream PROVE IInv'
<1>1. PICK t \in Stacks : t = Tail(stack) /\ c.open /\ Facts("post_handler", t)
  BY Running DEF PostHandlerUpstream
<1>2. t \in Konts /\ Answered(t) /\ r.request_body
  BY <1>1 DEF Facts, InPostHandler, Konts
<1>3. StoreR(r) /\ StoreC(c) /\ DOMAIN r = RFields /\ DOMAIN c = CFields
  BY DEF IInv, Store, StoreR, StoreC
<1>4. /\ c'.open = c.open /\ c'.handler = c.handler /\ c'.ready = c.ready /\ c'.eof = c.eof
      /\ c'.error = c.error
  BY <1>3 DEF PostHandlerUpstream, CFields
<1>5. StoreC(c)'
  BY <1>3 DEF PostHandlerUpstream, StoreC, CFields
<1>6. /\ r'.later /\ r'.weh = "broken" /\ r'.reh = "broken" /\ r'.live = r.live
      /\ r'.posted = r.posted /\ r'.discard_body = r.discard_body
      /\ r'.request_body = r.request_body /\ r'.count = r.count
      /\ r'.no_buffering = r.no_buffering
  BY <1>3 DEF PostHandlerUpstream, RFields
<1>7. StoreR(r)'
  BY <1>3 DEF PostHandlerUpstream, StoreR, RFields, Handlers
<1>8. Store' /\ Edge'
  BY <1>4, <1>5, <1>7, Quiet DEF PostHandlerUpstream
<1>9. Pending(t) /\ c.handler = "request" /\ Ctx(t)
  BY <1>2 DEF Answered, Pending
<1>10. Ctx(t)'
  BY <1>6, <1>9 DEF Ctx
<1>11. Serving' /\ Watched' /\ Timed' /\ Guarded' /\ Answering' /\ ~r'.discard_body
  BY <1>2, <1>4, <1>6, <1>9 DEF Pending, Serving, Watched, Timed, Guarded, Answering
<1>12. r'.count = 1 + Owed(t) /\ Owed(t) \in 0..1
  BY <1>2, <1>6, <1>9, <1>11, KontIn DEF Pending, Num
<1>13. Returned(t, r.count)'
  BY <1>11, <1>12 DEF Returned, Held, Num
<1>14. stack' = t
  BY <1>1 DEF PostHandlerUpstream, Return
<1> QED
  BY <1>1, <1>4, <1>8, <1>10, <1>13, <1>14, Back
(* The body comes from the socket: which function waits for it. *)
Waits(t) ==
  \/ t = Push("body_done", Tail2) /\ ~r.later /\ r.reh = "body" /\ r.weh = "empty" /\ r.count = 2
  \/ t = Push("if_failed", K1) /\ ~r.later /\ r.reh = "body" /\ ~r.no_buffering
     /\ r.weh \notin {"none", "writer"} /\ r.count = 1
  \/ t = Push("unbuffered_done", K1) /\ Unbuffered

LEMMA WaitsIn == ASSUME NEW t, InDoRead(t) PROVE BodyLeft /\ Waits(t)
BY DEF InDoRead, Waits, Unbuffered

(* It goes on. *)
LEMMA WaitsReturn ==
  ASSUME NEW t \in Stacks, BodyLeft', Waits(t)', stack' = t,
         rc' \in {"OK", "AGAIN", "400", "500"}, rc' = "OK" => r'.no_buffering,
         rc' = "AGAIN" => ~c'.ready /\ c'.rtimer, c'.open, Store', Edge'
  PROVE  IInv'
<1>1. /\ "body_done" \in Names /\ "if_failed" \in Names /\ "unbuffered_done" \in Names
  BY DEF Names
<1>2. /\ Serving' /\ r'.request_body /\ ~r'.discard_body /\ r'.live /\ ~r'.posted
      /\ c'.handler = "request"
  BY DEF BodyLeft, Serving
<1>3. ASSUME t = Push("body_done", Tail2), ~r'.later, r'.reh = "body", r'.weh = "empty",
             r'.count = 2
      PROVE  IInv'
  <2>1. InBodyDone(Tail2)'
    BY <1>2, <1>3 DEF InBodyDone, Dry
  <2>2. Facts("body_done", Tail2)'
    BY <2>1 DEF Facts, Handlers
  <2> QED
    BY <1>1, <1>3, <2>2, Frames, Goes
<1>4. ASSUME t = Push("if_failed", K1), ~r'.later, r'.reh = "body", ~r'.no_buffering,
             r'.weh \notin {"none", "writer"}, r'.count = 1
      PROVE  IInv'
  <2>1. rc' \in Special => Answered(K1)'
    BY <1>2, <1>4, Low, Distinct, Owing DEF Answered, Pending, Num
  <2>2. ASSUME rc' \notin Special PROVE Ctx(K1)' /\ Returned(K1, r.count)'
    <3>1. ~c'.ready /\ c'.rtimer
      BY <1>4, <2>2 DEF Special
    <3>2. Watched' /\ Timed' /\ Guarded' /\ Answering'
      BY <1>2, <1>4, <3>1 DEF Watched, Timed, Guarded, Answering, Dry
    <3> QED
      BY <1>2, <1>4, <3>2, Low, Owing DEF Returned, Held, Num
  <2>3. InIfFailed(K1)'
    BY <2>1, <2>2 DEF InIfFailed
  <2>4. Facts("if_failed", K1)'
    BY <2>3 DEF Facts, Handlers
  <2> QED
    BY <1>1, <1>4, <2>4, Frames, Goes
<1>5. ASSUME t = Push("unbuffered_done", K1), Unbuffered' PROVE IInv'
  <2>1. InUnbufferedDone(K1)'
    BY <1>5 DEF InUnbufferedDone, Special, Dry
  <2>2. Facts("unbuffered_done", K1)'
    BY <2>1 DEF Facts, Handlers
  <2> QED
    BY <1>1, <1>5, <2>2, Frames, Goes
<1> QED
  BY <1>3, <1>4, <1>5 DEF Waits

LEMMA DoReadClientRequestBodyStep == ASSUME IInv, DoReadClientRequestBody PROVE IInv'
<1>1. PICK t \in Stacks : t = Tail(stack) /\ c.open /\ Facts("do_read", t)
  BY Running DEF DoReadClientRequestBody
<1>2. InDoRead(t) /\ BodyLeft /\ Waits(t)
  BY <1>1, WaitsIn DEF Facts
<1>3. /\ StoreR(r) /\ StoreC(c) /\ StoreB /\ Edge /\ DOMAIN r = RFields /\ DOMAIN c = CFields
      /\ r.rest \in Int
  BY DEF IInv, Store, StoreR, StoreC
<1>4. ~(r.rest < 0) /\ r.reh \in {"body", "unbuffered"}
  BY <1>2, <1>3 DEF Waits, Unbuffered, StoreR
<1> DEFINE n == BodyUnits
<1>5. Len(net) \in Nat
  BY <1>3 DEF StoreB
<1>6. n \in 0..Len(net) /\ n \in Int /\ n <= r.rest /\ (n = r.rest \/ n = Len(net))
  <2>1. r.rest \in Nat
    BY <1>3, <1>4
  <2> QED
    BY <1>5, <2>1 DEF BodyUnits, Min2
<1>7. /\ net' = Rest(net, n) /\ UNCHANGED <<client, edge, buf, room>> /\ (Works \/ Fails)
  BY DEF DoReadClientRequestBody
<1>8. \/ /\ r' = [r EXCEPT !.rest = @ - n] /\ rc' = "500" /\ stack' = t /\ UNCHANGED c
      \/ /\ r.rest <= n
         /\ r' = [r EXCEPT !.rest = 0, !.reh = IF r.no_buffering THEN @ ELSE "block"]
         /\ c' = [c EXCEPT !.rtimer = FALSE] /\ rc' = "OK"
         /\ Call(IF r.no_buffering THEN <<>> ELSE <<"post_handler", "body_ok">>)
      \/ /\ r.rest > n
         /\ r' = [r EXCEPT !.rest = @ - n] /\ stack' = t
         /\ IF peer = "open"
            THEN rc' = "AGAIN" /\ c' = [c EXCEPT !.ready = FALSE, !.rtimer = TRUE]
            ELSE /\ rc' = "400"
                 /\ c' = [c EXCEPT !.ready = FALSE, !.error = TRUE,
                                   !.eof = (@ \/ peer = "fin")]
  BY <1>1 DEF DoReadClientRequestBody, Return
<1> HIDE DEF n
<1>9. /\ StoreB' /\ (net' # <<>> => net # <<>>) /\ (n = Len(net) => net' = <<>>)
  BY <1>3, <1>6, <1>7, Drained, Failing DEF StoreB
<1>10. UNCHANGED peer
  BY <1>7 DEF client
(* The request while its body is read. *)
<1>11. ASSUME r' = [r EXCEPT !.rest = @ - n], c'.handler = c.handler
       PROVE  StoreR(r)' /\ BodyLeft' /\ Waits(t)'
  <2>1. /\ DOMAIN r' = RFields /\ r'.rest = r.rest - n /\ r'.reh = r.reh /\ r'.weh = r.weh
        /\ r'.live = r.live /\ r'.posted = r.posted /\ r'.later = r.later
    BY <1>3, <1>11 DEF RFields
  <2>2. /\ r'.discard_body = r.discard_body /\ r'.request_body = r.request_body
        /\ r'.no_buffering = r.no_buffering /\ r'.count = r.count
        /\ r'.state = r.state /\ r'.reading_body = r.reading_body
        /\ r'.lingering_time = r.lingering_time
    BY <1>3, <1>11 DEF RFields
  <2>3. StoreR(r)'
    BY <1>3, <1>6, <2>1, <2>2 DEF StoreR
  <2>4. BodyLeft'
    BY <1>2, <1>11, <2>1, <2>2 DEF BodyLeft, Serving
  <2>5. Waits(t)'
    BY <1>2, <2>1, <2>2, <2>4 DEF Waits, Unbuffered
  <2> QED
    BY <2>3, <2>4, <2>5
<1>12. CASE r' = [r EXCEPT !.rest = @ - n] /\ rc' = "500" /\ stack' = t /\ UNCHANGED c
  <2>1. StoreC(c)' /\ Edge'
    BY <1>3, <1>7, <1>9, <1>10, <1>12 DEF StoreC, Edge
  <2>2. StoreR(r)' /\ BodyLeft' /\ Waits(t)'
    BY <1>11, <1>12
  <2> QED
    BY <1>1, <1>9, <1>12, <2>1, <2>2, WaitsReturn DEF Store
<1>13. CASE /\ r.rest > n
            /\ r' = [r EXCEPT !.rest = @ - n] /\ stack' = t
            /\ IF peer = "open"
               THEN rc' = "AGAIN" /\ c' = [c EXCEPT !.ready = FALSE, !.rtimer = TRUE]
               ELSE /\ rc' = "400"
                    /\ c' = [c EXCEPT !.ready = FALSE, !.error = TRUE,
                                      !.eof = (@ \/ peer = "fin")]
  <2>1. /\ c'.open = c.open /\ c'.handler = c.handler /\ ~c'.ready
        /\ (peer = "open" => c'.rtimer /\ rc' = "AGAIN")
        /\ (peer # "open" => c'.error /\ rc' = "400")
    BY <1>3, <1>13 DEF CFields
  <2>2. StoreC(c)'
    BY <1>3, <1>13 DEF StoreC, CFields
  <2>3. net' = <<>>
    BY <1>6, <1>9, <1>13
  <2>4. Edge'
    BY <1>10, <2>1, <2>3 DEF Edge
  <2>5. StoreR(r)' /\ BodyLeft' /\ Waits(t)'
    BY <1>11, <1>13, <2>1
  <2> QED
    BY <1>1, <1>9, <1>13, <2>1, <2>2, <2>4, <2>5, WaitsReturn DEF Store
<1>14. CASE /\ r.rest <= n
            /\ r' = [r EXCEPT !.rest = 0, !.reh = IF r.no_buffering THEN @ ELSE "block"]
            /\ c' = [c EXCEPT !.rtimer = FALSE] /\ rc' = "OK"
            /\ Call(IF r.no_buffering THEN <<>> ELSE <<"post_handler", "body_ok">>)
  <2>1. /\ c'.open = c.open /\ c'.handler = c.handler /\ c'.ready = c.ready
        /\ c'.eof = c.eof /\ c'.error = c.error
    BY <1>3, <1>14 DEF CFields
  <2>2. StoreC(c)' /\ Edge'
    BY <1>3, <1>7, <1>9, <1>10, <1>14, <2>1 DEF StoreC, CFields, Edge
  <2>3. /\ DOMAIN r' = RFields /\ r'.rest = 0 /\ r'.weh = r.weh
        /\ r'.reh = (IF r.no_buffering THEN r.reh ELSE "block")
        /\ r'.live = r.live /\ r'.posted = r.posted /\ r'.later = r.later
    BY <1>3, <1>14 DEF RFields
  <2>4. /\ r'.discard_body = r.discard_body /\ r'.request_body = r.request_body
        /\ r'.no_buffering = r.no_buffering /\ r'.count = r.count
        /\ r'.state = r.state /\ r'.reading_body = r.reading_body
        /\ r'.lingering_time = r.lingering_time
    BY <1>3, <1>14 DEF RFields
  <2>5. StoreR(r)'
    BY <1>3, <2>3, <2>4 DEF StoreR, Handlers
  <2>6. BodyLeft'
    BY <1>2, <2>1, <2>3, <2>4 DEF BodyLeft, Serving
  <2>7. CASE r.no_buffering
    <3>1. Waits(t)'
      BY <1>2, <2>3, <2>4, <2>6, <2>7 DEF Waits, Unbuffered
    <3>2. stack' = t
      BY <1>1, <1>14, <2>7, Call0 DEF Call
    <3> QED
      BY <1>1, <1>9, <1>14, <2>1, <2>2, <2>4, <2>5, <2>6, <2>7, <3>1, <3>2, WaitsReturn
         DEF Store
  <2>8. CASE ~r.no_buffering
    <3> DEFINE k == Push("body_ok", t)
    <3>1. "post_handler" \in Names /\ "body_ok" \in Names
      BY DEF Names
    <3>2. stack' = <<"post_handler", "body_ok">> \o t
      BY <1>1, <1>14, <2>8 DEF Call
    <3>3. <<"post_handler", "body_ok">> \o t = Push("post_handler", k)
      BY Zenon, <3>1, Call2
    <3>4. \/ k = K4 /\ r.count = 2 /\ r.weh = "empty" /\ ~r.later
          \/ k = K3 /\ r.count = 1 /\ r.weh # "none" /\ ~r.later
      BY <1>2, <2>8 DEF Waits, Unbuffered, K3, K4
    <3> HIDE DEF k
    <3>5. PICK j \in {K3, K4} : j = k
      BY <3>4
    <3>6. r'.count = 1 + Owed(j) /\ r'.weh # "none" /\ ~r'.later
      BY <2>3, <2>4, <3>4, <3>5, Distinct, Owing
    <3>7. Ctx(j)' /\ j # K0
      BY <2>4, <2>6, <2>8, <3>5, AreKonts, Distinct DEF Ctx, BodyLeft
    <3>8. Answered(j)' /\ r'.reh = "block" /\ r'.request_body
      BY <2>3, <2>6, <2>8, <3>6, <3>7, Owing
         DEF Answered, Pending, BodyLeft, Serving, Num
    <3>9. InPostHandler(j)'
      BY <3>5, <3>8 DEF InPostHandler
    <3>10. Facts("post_handler", j)'
      BY <3>9 DEF Facts, Handlers
    <3> QED
      BY <1>1, <1>9, <2>1, <2>2, <2>5, <3>1, <3>2, <3>3, <3>5, <3>10, Frames, Goes DEF Store
  <2> QED
    BY <2>7, <2>8
<1> QED
  BY <1>8, <1>12, <1>13, <1>14

LEMMA ReadBodyHandlerStep == ASSUME IInv, ReadBodyHandler PROVE IInv'
<1>1. PICK t \in Stacks : t = Tail(stack) /\ c.open /\ Facts("body", t)
  BY Running DEF ReadBodyHandler
<1>2. InReader("body", t)
  BY <1>1 DEF Facts, Handlers
<1>3. UNCHANGED <<c, r>> /\ Store' /\ Edge' /\ t = K1
  BY <1>2, QuietCR DEF ReadBodyHandler, InReader
<1>4. CASE c.rtimedout
  <2>1. rc' = "408" /\ stack' = Push("finalize", K1)
    BY <1>1, <1>3, <1>4 DEF ReadBodyHandler, Call, Push
  <2>2. r.count \in 1..2
    BY <1>2, CountedFew DEF InReader
  <2>3. InFinalize(K1)'
    BY <1>2, <1>3, <2>1, <2>2, Low, Distinct, Owing
       DEF InFinalize, InReader, Serving, Watched
  <2> QED
    BY <1>1, <1>3, <2>1, <2>3, AreKonts, Finalizes
<1>5. CASE ~c.rtimedout
  <2>1. /\ r.reh = "body" /\ Serving /\ r.request_body /\ ~r.no_buffering
        /\ ~r.discard_body /\ ~r.later /\ r.weh \notin {"none", "writer"}
    BY <1>2 DEF InReader, Watched
  <2>2. r.count = 1
    BY <1>2, <2>1 DEF InReader, Counted, Answering, Num
  <2>3. InDoRead(Push("if_failed", K1))'
    BY <1>3, <2>1, <2>2 DEF InDoRead, BodyLeft, Serving
  <2>4. Facts("do_read", Push("if_failed", K1))'
    BY <2>3 DEF Facts, Handlers
  <2>5. "do_read" \in Names /\ "if_failed" \in Names
    BY DEF Names
  <2>6. stack' = <<"do_read", "if_failed">> \o t
    BY <1>1, <1>5 DEF ReadBodyHandler, Call
  <2>7. <<"do_read", "if_failed">> \o t = Push("do_read", Push("if_failed", t))
    BY Zenon, <2>5, Call2
  <2>8. stack' = Push("do_read", Push("if_failed", K1))
    BY <1>3, <2>6, <2>7
  <2> QED
    BY <1>1, <1>3, <2>4, <2>5, <2>8, Frames, Goes
<1> QED
  BY <1>4, <1>5

LEMMA ReadUnbufferedRequestBodyStep == ASSUME IInv, ReadUnbufferedRequestBody PROVE IInv'
<1>1. PICK t \in Stacks : t = Tail(stack) /\ c.open /\ Facts("unbuffered", t)
  BY Running DEF ReadUnbufferedRequestBody
<1>2. InReader("unbuffered", t)
  BY <1>1 DEF Facts, Handlers
<1>3. StoreR(r) /\ DOMAIN r = RFields /\ UNCHANGED c /\ t = K1
  BY <1>2 DEF ReadUnbufferedRequestBody, InReader, IInv, Store, StoreR
<1>4. r.count \in 1..2
  BY <1>2, CountedFew DEF InReader
<1>5. CASE c.rtimedout
  <2>1. /\ rc' = "408" /\ r' = [r EXCEPT !.later = FALSE] /\ stack' = Push("finalize", K1)
    BY <1>1, <1>3, <1>5 DEF ReadUnbufferedRequestBody, Call, Push
  <2>2. /\ r'.live = r.live /\ r'.posted = r.posted /\ r'.weh = r.weh /\ r'.count = r.count
    BY <1>3, <2>1 DEF RFields
  <2>3. StoreR(r)'
    BY <1>3, <2>1 DEF StoreR, RFields
  <2>4. Store' /\ Edge'
    BY <1>3, <2>3, QuietC DEF ReadUnbufferedRequestBody
  <2>5. InFinalize(K1)'
    BY <1>2, <1>3, <1>4, <2>1, <2>2, Low, Distinct, Owing
       DEF InFinalize, InReader, Serving, Watched
  <2> QED
    BY <1>1, <1>3, <2>1, <2>4, <2>5, AreKonts, Finalizes
<1>6. CASE ~c.rtimedout
  <2>1. UNCHANGED r /\ stack' = <<"do_read", "unbuffered_done">> \o t
    BY <1>1, <1>6 DEF ReadUnbufferedRequestBody, Call
  <2>2. Store' /\ Edge'
    BY <1>3, <2>1, QuietCR DEF ReadUnbufferedRequestBody
  <2>3. /\ r.reh = "unbuffered" /\ Serving /\ r.request_body /\ r.no_buffering
        /\ ~r.discard_body /\ r.weh \notin {"none", "writer"}
    BY <1>2 DEF InReader, Watched
  <2>4. r.count = 1 /\ r.later
    BY <1>2, <2>3 DEF InReader, Counted, Answering, Num
  <2>5. Unbuffered
    BY <2>3, <2>4 DEF Unbuffered, BodyLeft
  <2>6. Unbuffered'
    BY <1>3, <2>1, <2>5, UnmovedMore
  <2>7. InDoRead(Push("unbuffered_done", K1))'
    BY <2>6 DEF InDoRead
  <2>8. Facts("do_read", Push("unbuffered_done", K1))'
    BY <2>7 DEF Facts, Handlers
  <2>9. "do_read" \in Names /\ "unbuffered_done" \in Names
    BY DEF Names
  <2>10. <<"do_read", "unbuffered_done">> \o t = Push("do_read", Push("unbuffered_done", t))
    BY Zenon, <2>9, Call2
  <2>11. stack' = Push("do_read", Push("unbuffered_done", K1))
    BY <1>3, <2>1, <2>10
  <2>12. Push("unbuffered_done", K1) \in Stacks
    BY <2>9, Frames, Pushed
  <2> QED
    BY <1>1, <1>3, <2>2, <2>8, <2>9, <2>11, <2>12, Goes
<1> QED
  BY <1>5, <1>6

LEMMA UnbufferedDoneStep == ASSUME IInv, UnbufferedDone PROVE IInv'
<1>1. PICK t \in Stacks : t = Tail(stack) /\ c.open /\ Facts("unbuffered_done", t)
  BY Running DEF UnbufferedDone
<1>2. t = K1 /\ Unbuffered /\ (rc \notin Special /\ rc # "OK" => Dry)
  BY <1>1 DEF Facts, InUnbufferedDone
<1>3. StoreR(r) /\ DOMAIN r = RFields /\ UNCHANGED <<c, rc>>
  BY DEF UnbufferedDone, IInv, Store, StoreR
<1>4. /\ r' = [r EXCEPT !.reading_body = @ /\ rc # "OK",
                        !.reh = IF rc = "OK" THEN "broken" ELSE @,
                        !.later = @ /\ rc \notin Special]
      /\ stack' = (IF rc \in Special THEN <<"finalize">> ELSE <<>>) \o t
  BY <1>1 DEF UnbufferedDone, Call
<1>5. /\ DOMAIN r' = RFields /\ r'.reh = (IF rc = "OK" THEN "broken" ELSE r.reh)
      /\ (r'.later <=> r.later /\ rc \notin Special)
      /\ (r'.reading_body <=> r.reading_body /\ rc # "OK")
      /\ r'.lingering_time = r.lingering_time /\ r'.rest = r.rest /\ r'.state = r.state
  BY <1>3, <1>4 DEF RFields
<1>6. /\ r'.live = r.live /\ r'.posted = r.posted /\ r'.weh = r.weh /\ r'.count = r.count
      /\ r'.discard_body = r.discard_body /\ r'.request_body = r.request_body
      /\ r'.no_buffering = r.no_buffering
  BY <1>3, <1>4 DEF RFields
<1>7. StoreR(r)'
  BY <1>3, <1>5, <1>6 DEF StoreR, Handlers
<1>8. Store' /\ Edge'
  BY <1>3, <1>7, QuietC DEF UnbufferedDone
<1>9. /\ Serving' /\ r'.request_body /\ ~r'.discard_body /\ r'.no_buffering
      /\ r'.weh \notin {"none", "writer"} /\ r'.count = 1
      /\ r'.reh \in {"unbuffered", "broken"} /\ (r'.reh = "broken" <=> rc = "OK")
  BY <1>2, <1>3, <1>5, <1>6 DEF Unbuffered, BodyLeft, Serving
<1>10. CASE rc \in Special
  <2>1. ~r'.later /\ rc' # "DONE"
    BY <1>3, <1>5, <1>10 DEF Special
  <2>2. Answered(K1)'
    BY <1>9, <2>1, Low, Distinct, Owing DEF Answered, Pending, Serving, Num
  <2>3. InFinalize(K1)'
    BY <2>1, <2>2, AreKonts, PendingFinalize
  <2>4. stack' = Push("finalize", K1)
    BY <1>2, <1>4, <1>10 DEF Push
  <2> QED
    BY <1>1, <1>3, <1>8, <2>3, <2>4, AreKonts, Finalizes
<1>11. CASE rc \notin Special
  <2>1. r'.later
    BY <1>2, <1>5, <1>11 DEF Unbuffered
  <2>2. Watched' /\ Timed' /\ Guarded' /\ Answering'
    BY <1>2, <1>3, <1>9, <1>11, <2>1 DEF Watched, Timed, Guarded, Answering, Dry
  <2>3. Returned(K1, r.count)'
    BY <1>9, <2>2, Owing DEF Returned, Held, Num
  <2>4. stack' = K1
    BY <1>2, <1>4, <1>11, Frames, Call0
  <2> QED
    BY <1>1, <1>3, <1>8, <2>3, <2>4, Low, Back
<1> QED
  BY <1>10, <1>11
-----------------------------------------------------------------------------
(* The body of the request is discarded. *)

(* What follows in the function that asked for it. *)
LEMMA ToSpecial ==
  ASSUME NEW k \in Konts, stack' = Push("special", Chain(k)), Answered(k)', c'.open, Store', Edge'
  PROVE  IInv'
<1>1. InSpecial(Chain(k))'
  BY DEF InSpecial
<1>2. Facts("special", Chain(k))' /\ "special" \in Names
  BY <1>1 DEF Facts, Handlers, Names
<1> QED
  BY <1>2, ChainIn, Goes

LEMMA ToRefusal ==
  ASSUME NEW t \in Refusals, rc' \in {"OK", "500"}, stack' = t, Answered(K1)', c'.open,
         Store', Edge'
  PROVE  IInv'
<1>1. CASE t = Push("too_large", Tail1)
  <2>1. InTooLarge(Tail1)'
    BY DEF InTooLarge
  <2>2. Facts("too_large", Tail1)' /\ "too_large" \in Names
    BY <2>1 DEF Facts, Handlers, Names
  <2> QED
    BY <1>1, <2>2, Frames, Goes
<1>2. CASE t = Push("unless_failed", Chain(K1))
  <2>1. InUnlessFailed(Chain(K1))'
    BY DEF InUnlessFailed
  <2>2. Facts("unless_failed", Chain(K1))' /\ "unless_failed" \in Names
    BY <2>1 DEF Facts, Handlers, Names
  <2> QED
    BY <1>2, <2>2, AreKonts, ChainIn, Goes
<1> QED
  BY <1>1, <1>2 DEF Refusals

LEMMA DiscardRequestBodyStep == ASSUME IInv, DiscardRequestBody PROVE IInv'
<1>1. PICK t \in Stacks : t = Tail(stack) /\ c.open /\ Facts("discard", t)
  BY Running DEF DiscardRequestBody
<1>2. InDiscard(t)
  BY <1>1 DEF Facts
<1>3. /\ StoreR(r) /\ StoreC(c) /\ StoreB /\ DOMAIN r = RFields /\ DOMAIN c = CFields
      /\ r.rest \in Int
  BY DEF IInv, Store, StoreR, StoreC
<1>4. UNCHANGED <<client, net, edge, room>> /\ (Works \/ Fails) /\ faults' \in 0..Faults
  BY <1>3, Failing DEF DiscardRequestBody, StoreB
<1>5. ASSUME rc' \in {"OK", "500"}, Return, UNCHANGED <<c, r, buf>>
      PROVE  IInv'
  <2>1. Store' /\ Edge'
    BY <1>3, <1>4, <1>5, StoreStill, EdgeStill DEF Store, StoreC, StoreR, IInv
  <2>2. stack' = t
    BY <1>1, <1>5 DEF Return
  <2>3. ASSUME NEW k \in Konts, t = Push("special", Chain(k)), Answered(k) PROVE IInv'
    <3>1. Answered(k)'
      BY <1>5, <2>3, Unmoved
    <3> QED
      BY <1>1, <1>5, <2>1, <2>2, <2>3, <3>1, ToSpecial
  <2>4. ASSUME t \in Refusals, Answered(K1) PROVE IInv'
    <3>1. Answered(K1)'
      BY <1>5, <2>4, Unmoved
    <3> QED
      BY <1>1, <1>5, <2>1, <2>2, <2>4, <3>1, ToRefusal
  <2> QED
    BY <1>2, <2>3, <2>4 DEF InDiscard, Unasked
<1>6. CASE r.discard_body \/ r.request_body
  <2>1. rc' = "OK" /\ Return /\ UNCHANGED <<c, r, buf>>
    BY <1>6 DEF DiscardRequestBody
  <2> QED
    BY <1>5, <2>1
<1>7. CASE ~(r.discard_body \/ r.request_body) /\ rc' = "500" /\ Return /\ UNCHANGED <<c, r, buf>>
  BY <1>5, <1>7
<1>8. CASE ~(r.discard_body \/ r.request_body)
           /\ ~(rc' = "500" /\ Return /\ UNCHANGED <<c, r, buf>>)
  <2> DEFINE n == IF r.rest <= 0 THEN 0 ELSE Min2(r.rest, Len(buf))
  <2>1. Len(buf) \in Nat
    BY <1>3 DEF StoreB
  <2>2. n \in 0..Len(buf) /\ n \in Int /\ (r.rest <= 0 => n = 0) /\ (r.rest > 0 => n <= r.rest)
    BY <1>3, <2>1 DEF Min2
  <2>3. /\ c' = [c EXCEPT !.rtimer = FALSE] /\ buf' = Rest(buf, n)
        /\ r' = [r EXCEPT !.rest = @ - n]
        /\ IF r.rest - n <= 0
           THEN rc' = "OK" /\ Return
           ELSE UNCHANGED rc /\ Call(<<"read_discarded", "discard_rest">>)
    BY <1>8 DEF DiscardRequestBody
  <2> HIDE DEF n
  <2>4. StoreB'
    BY <1>3, <1>4, <2>2, <2>3, Preread
  <2>5. /\ c'.open = c.open /\ c'.handler = c.handler /\ c'.ready = c.ready
        /\ c'.eof = c.eof /\ c'.error = c.error
    BY <1>3, <2>3 DEF CFields
  <2>6. StoreC(c)' /\ Edge'
    BY <1>3, <1>4, <2>3, <2>5 DEF StoreC, CFields, IInv, Edge, client
  <2>7. AlikeR /\ r'.count = r.count /\ r'.rest = r.rest - n /\ DOMAIN r' = RFields
    BY <1>3, <2>3 DEF AlikeR, RFields
  <2>8. StoreR(r)'
    <3>1. r'.state = r.state /\ r'.reading_body = r.reading_body
          /\ r'.lingering_time = r.lingering_time
      BY <1>3, <2>3 DEF RFields
    <3>2. r'.rest \in Int /\ (r'.rest < 0 => r.rest < 0)
      BY <1>3, <2>2, <2>7
    <3> QED
      BY <1>3, <2>7, <3>1, <3>2 DEF StoreR, AlikeR
  <2>9. ASSUME NEW k, Pending(k) PROVE Pending(k)'
    <3>1. k = K0 => r'.rest = r.rest
      BY <1>3, <2>2, <2>7, <2>9 DEF Pending, Fresh
    <3>2. (k = K0 => Fresh') /\ Ctx(k)'
      BY <2>7, <2>9, <3>1 DEF Pending, Fresh, Ctx, AlikeR
    <3> QED
      BY <2>5, <2>7, <2>9, <3>2 DEF Pending, AlikeR, Dry
  <2>10. ASSUME NEW k, Answered(k) PROVE Answered(k)'
    BY <2>5, <2>9, <2>10 DEF Answered
  <2>11. CASE r.rest - n <= 0
    <3>1. rc' = "OK" /\ stack' = t
      BY <1>1, <2>3, <2>11 DEF Return
    <3>2. ASSUME NEW k \in Konts, t = Push("special", Chain(k)), Answered(k) PROVE IInv'
      <4>1. Answered(k)'
        BY <2>10, <3>2
      <4> QED
        BY <1>1, <2>4, <2>5, <2>6, <2>8, <3>1, <3>2, <4>1, ToSpecial DEF Store
    <3>3. ASSUME t \in Refusals, Answered(K1) PROVE IInv'
      <4>1. Answered(K1)'
        BY <2>10, <3>3
      <4> QED
        BY <1>1, <2>4, <2>5, <2>6, <2>8, <3>1, <3>3, <4>1, ToRefusal DEF Store
    <3> QED
      BY <1>2, <3>2, <3>3 DEF InDiscard, Unasked
  <2>12. CASE ~(r.rest - n <= 0)
    <3>1. r'.rest >= 0 /\ r.rest > 0
      BY <1>3, <2>2, <2>7, <2>12
    <3>2. t \in Discards /\ Unasked
      <4>1. ASSUME NEW k \in Konts, t = Push("special", Chain(k)), Answered(k)
            PROVE  t \in Discards /\ Unasked
        <5>1. k # K0
          BY <3>1, <4>1 DEF Answered, Pending, Fresh
        <5>2. k \notin {K2, K3, K4}
          BY <1>8, <4>1 DEF Answered, Pending, Ctx
        <5>3. k = K1
          BY <4>1, <5>1, <5>2 DEF Konts
        <5> QED
          BY <1>8, <4>1, <5>3 DEF Discards, Unasked
      <4> QED
        BY <1>2, <4>1 DEF InDiscard, Discards
    <3>3. Unasked'
      BY <2>7, <2>10, <3>2 DEF Unasked, AlikeR
    <3>4. InReadDiscarded(Push("discard_rest", t))'
      BY <3>1, <3>2, <3>3 DEF InReadDiscarded
    <3>5. Facts("read_discarded", Push("discard_rest", t))'
      BY <3>4 DEF Facts, Handlers
    <3>6. "read_discarded" \in Names /\ "discard_rest" \in Names
      BY DEF Names
    <3>7. stack' = <<"read_discarded", "discard_rest">> \o t
      BY <1>1, <2>3, <2>12 DEF Call
    <3>8. <<"read_discarded", "discard_rest">> \o t
            = Push("read_discarded", Push("discard_rest", t))
      BY Zenon, <3>6, Call2
    <3>9. Push("discard_rest", t) \in Stacks
      BY <3>6, Pushed
    <3> QED
      BY <1>1, <2>4, <2>5, <2>6, <2>8, <3>5, <3>6, <3>7, <3>8, <3>9, Goes DEF Store
  <2> QED
    BY <2>11, <2>12
<1> QED
  BY <1>6, <1>7, <1>8

LEMMA DiscardRestStep == ASSUME IInv, DiscardRest PROVE IInv'
<1>1. PICK t \in Stacks : t = Tail(stack) /\ c.open /\ Facts("discard_rest", t)
  BY Running DEF DiscardRest
<1>2. t \in Discards /\ Unasked /\ r.rest >= 0 /\ (rc = "OK" \/ ~c.ready)
  BY <1>1 DEF Facts, InDiscardRest
<1>3. StoreR(r) /\ DOMAIN r = RFields /\ r.rest \in Int
  BY DEF IInv, Store, StoreR
<1>4. UNCHANGED c /\ rc' = "OK" /\ stack' = t
  BY <1>1 DEF DiscardRest, Return
<1>5. /\ r.live /\ ~r.posted /\ ~r.later /\ r.weh # "none" /\ r.count = 1
      /\ ~r.discard_body /\ ~r.request_body /\ c.handler = "request" /\ Pending(K1)
  BY <1>2, Distinct, Owing DEF Unasked, Answered, Pending, Num
<1>6. ASSUME StoreR(r)', Pending(K1)' PROVE IInv'
  <2>1. Store' /\ Edge' /\ Answered(K1)'
    BY <1>4, <1>5, <1>6, QuietC DEF DiscardRest, Answered
  <2>2. \/ t = Push("special", Chain(K1)) \/ t \in Refusals
    BY <1>2 DEF Discards
  <2> QED
    BY <1>1, <1>4, <2>1, <2>2, AreKonts, ToSpecial, ToRefusal
<1>7. CASE rc = "OK"
  <2>1. r' = [r EXCEPT !.lingering_close = FALSE]
    BY <1>7 DEF DiscardRest
  <2>2. AlikeR /\ r'.count = r.count /\ r'.rest = r.rest
    BY <1>3, <2>1 DEF AlikeR, RFields
  <2>3. StoreR(r)'
    BY <1>3, <2>1 DEF StoreR, RFields
  <2>4. Pending(K1)'
    BY <1>4, <1>5, <2>2, PendingAlike DEF Dry
  <2> QED
    BY <1>6, <2>3, <2>4
<1>8. CASE rc # "OK"
  <2>1. r' = [r EXCEPT !.reh = "discarded", !.count = @ + 1, !.discard_body = TRUE]
    BY <1>8 DEF DiscardRest
  <2>2. /\ DOMAIN r' = RFields /\ r'.reh = "discarded" /\ r'.count = 2 /\ r'.discard_body
        /\ r'.rest = r.rest /\ r'.weh = r.weh /\ r'.state = r.state
    BY <1>3, <1>5, <2>1 DEF RFields
  <2>3. /\ r'.live = r.live /\ r'.posted = r.posted /\ r'.later = r.later
        /\ r'.request_body = r.request_body /\ r'.lingering_time = r.lingering_time
    BY <1>3, <2>1 DEF RFields
  <2>4. StoreR(r)'
    BY <1>2, <1>3, <2>2, <2>3 DEF StoreR, Handlers
  <2>5. Dry'
    BY <1>2, <1>4, <1>8 DEF Dry
  <2>6. Pending(K1)'
    BY <1>5, <2>2, <2>3, <2>5, Low, Distinct, Owing DEF Pending, Num
  <2> QED
    BY <1>6, <2>4, <2>6
<1> QED
  BY <1>7, <1>8
LEMMA ReadDiscardedRequestBodyStep == ASSUME IInv, ReadDiscardedRequestBody PROVE IInv'
<1>1. PICK t \in Stacks : t = Tail(stack) /\ c.open /\ Facts("read_discarded", t)
  BY Running DEF ReadDiscardedRequestBody
<1>2. InReadDiscarded(t)
  BY <1>1 DEF Facts
<1>3. /\ StoreR(r) /\ StoreC(c) /\ StoreB /\ Edge /\ DOMAIN r = RFields /\ DOMAIN c = CFields
      /\ r.rest \in Int
  BY DEF IInv, Store, StoreR, StoreC
<1>4. r.rest \in Nat
  BY <1>2, <1>3 DEF InReadDiscarded, StoreR
<1> DEFINE n == IF c.ready THEN BodyUnits ELSE 0
           over == r.rest <= n \/ (c.ready /\ peer # "open")
<1>5. Len(net) \in Nat
  BY <1>3 DEF StoreB
<1>6. /\ n \in 0..Len(net) /\ n \in Int /\ n <= r.rest
      /\ c.ready => n = r.rest \/ n = Len(net)
  BY <1>4, <1>5 DEF BodyUnits, Min2
<1>7. /\ net' = Rest(net, n) /\ stack' = t
      /\ r' = [r EXCEPT !.rest = @ - n, !.reh = IF r.rest = n THEN "block" ELSE @]
      /\ rc' = (IF over THEN "OK" ELSE "AGAIN")
      /\ c' = IF over
              THEN IF r.rest <= n THEN c
                   ELSE [c EXCEPT !.ready = FALSE, !.eof = (@ \/ peer = "fin"),
                                  !.error = (@ \/ peer = "reset")]
              ELSE [c EXCEPT !.ready = FALSE]
  BY <1>1 DEF ReadDiscardedRequestBody, Return
<1> HIDE DEF n
<1>8. UNCHANGED <<client, edge, buf, room, faults>> /\ faults' \in 0..Faults
  BY <1>3 DEF ReadDiscardedRequestBody, StoreB
<1>9. StoreB' /\ (net' # <<>> => net # <<>>) /\ (n = Len(net) => net' = <<>>)
  BY <1>3, <1>6, <1>7, <1>8, Drained
<1>10. /\ c'.open = c.open /\ c'.handler = c.handler /\ c'.rtimer = c.rtimer
       /\ c'.wtimer = c.wtimer /\ c'.nbusy = c.nbusy /\ c'.nfree = c.nfree
       /\ c'.large = c.large /\ DOMAIN c' = CFields
  BY <1>3, <1>7 DEF CFields
<1>11. /\ c.eof => c'.eof
       /\ c.error => c'.error
       /\ c'.ready => c.ready /\ r.rest <= n
       /\ r.rest > n /\ c.ready /\ peer = "fin" => c'.eof
       /\ r.rest > n /\ c.ready /\ peer = "reset" => c'.error
       /\ r.rest <= n => c' = c
  <2>1. CASE r.rest <= n
    <3>1. c' = c
      BY <1>7, <2>1
    <3> QED
      BY <1>4, <1>6, <2>1, <3>1
  <2>2. CASE r.rest > n /\ c.ready /\ peer # "open"
    <3>1. ~(r.rest <= n) /\ over
      BY <1>4, <1>6, <2>2
    <3>2. c' = [c EXCEPT !.ready = FALSE, !.eof = (@ \/ peer = "fin"),
                         !.error = (@ \/ peer = "reset")]
      BY <1>7, <3>1
    <3>3. /\ ~c'.ready /\ (c.eof => c'.eof) /\ (c.error => c'.error)
          /\ (peer = "fin" => c'.eof) /\ (peer = "reset" => c'.error)
      BY <1>3, <3>2 DEF CFields
    <3> QED
      BY <3>1, <3>3
  <2>3. CASE r.rest > n /\ ~(c.ready /\ peer # "open")
    <3>1. ~(r.rest <= n) /\ ~over
      BY <1>4, <1>6, <2>3
    <3>2. c' = [c EXCEPT !.ready = FALSE]
      BY <1>7, <3>1
    <3>3. ~c'.ready /\ c'.eof = c.eof /\ c'.error = c.error
      BY <1>3, <3>2 DEF CFields
    <3>4. c.ready => peer = "open"
      BY <2>3
    <3> QED
      BY <3>1, <3>3, <3>4
  <2> QED
    BY <1>4, <1>6, <2>1, <2>2, <2>3
<1> HIDE DEF over
<1>12. StoreC(c)'
  BY <1>3, <1>10 DEF StoreC
<1>13. Edge'
  <2>1. UNCHANGED <<edge, peer>> /\ peer \in {"open", "fin", "reset"}
    BY <1>3, <1>8 DEF client, StoreB
  <2>2. CASE r.rest <= n
    BY <1>3, <1>9, <1>11, <2>1, <2>2 DEF Edge
  <2>3. CASE r.rest > n /\ c.ready
    <3>1. net' = <<>>
      BY <1>4, <1>6, <1>9, <2>3
    <3> QED
      BY <1>11, <2>1, <2>3, <3>1 DEF Edge
  <2>4. CASE ~c.ready
    BY <1>3, <1>9, <1>10, <1>11, <2>1, <2>4 DEF Edge
  <2> QED
    BY <1>4, <1>6, <2>2, <2>3, <2>4
<1>14. /\ DOMAIN r' = RFields /\ r'.rest = r.rest - n /\ r'.weh = r.weh /\ r'.count = r.count
       /\ r'.reh = (IF r.rest = n THEN "block" ELSE r.reh)
       /\ r'.live = r.live /\ r'.posted = r.posted
  BY <1>3, <1>7 DEF RFields
<1>15. /\ r'.later = r.later /\ r'.discard_body = r.discard_body
       /\ r'.request_body = r.request_body /\ r'.no_buffering = r.no_buffering
       /\ r'.state = r.state /\ r'.reading_body = r.reading_body
       /\ r'.lingering_time = r.lingering_time
  BY <1>3, <1>7 DEF RFields
<1>16. r'.rest \in Int /\ r'.rest >= 0
  BY <1>4, <1>6, <1>14
<1>17. StoreR(r)'
  BY <1>3, <1>14, <1>15, <1>16 DEF StoreR, Handlers
<1>18. Store'
  BY <1>9, <1>12, <1>17 DEF Store
(* What stays to be read is awaited. *)
<1>19. /\ r.rest # n => Dry' /\ ~c'.ready
       /\ rc' \in {"OK", "AGAIN"} /\ (r.rest = n => rc' = "OK")
       /\ rc' # "OK" => ~c'.ready
  BY <1>4, <1>6, <1>7, <1>11 DEF Dry, over
<1>20. ASSUME t = Push("discarded_done", K1), Serving, Watched, Counted, r.reh = "discarded",
              Guarded, r.weh = "writer" => c.wtimer
       PROVE  IInv'
  <2>1. Serving' /\ Guarded'
    BY <1>10, <1>11, <1>14, <1>15, <1>20 DEF Serving, Guarded
  <2>2. /\ r.weh # "none" /\ ~r.later
        /\ r.discard_body => ~r.request_body /\ r.weh \in {"writer", "empty"}
    BY <1>20 DEF Watched
  <2>3. Answering' <=> Answering
    BY <1>14, <1>15, <1>20 DEF Answering
  <2>4. Counted'
    BY <1>14, <1>15, <1>20, <2>3 DEF Counted, Num
  <2>5. InDiscardedDone(K1)'
    BY <1>10, <1>14, <1>15, <1>19, <1>20, <2>1, <2>2, <2>4 DEF InDiscardedDone
  <2>6. Facts("discarded_done", K1)' /\ "discarded_done" \in Names
    BY <2>5 DEF Facts, Handlers, Names
  <2> QED
    BY <1>1, <1>7, <1>10, <1>13, <1>18, <1>20, <2>6, Frames, Goes
<1>21. ASSUME NEW x \in Discards, t = Push("discard_rest", x), Unasked PROVE IInv'
  <2>1. Pending(K1) /\ c.handler = "request" /\ ~r.discard_body /\ ~r.request_body
    BY <1>21 DEF Unasked, Answered
  <2>2. /\ r'.reh \notin {"body", "unbuffered"}
        /\ r'.reh = "discarded" => Dry'
    BY <1>14, <1>19, <2>1 DEF Pending
  <2>3. Pending(K1)'
    BY <1>14, <1>15, <2>1, <2>2, Low, Distinct DEF Pending
  <2>4. Unasked'
    BY <1>10, <1>15, <2>1, <2>3 DEF Unasked, Answered
  <2>5. InDiscardRest(x)'
    BY <1>16, <1>19, <1>21, <2>4 DEF InDiscardRest
  <2>6. Facts("discard_rest", x)' /\ "discard_rest" \in Names /\ x \in Stacks
    BY <2>5, DiscardsIn DEF Facts, Handlers, Names
  <2> QED
    BY <1>1, <1>7, <1>10, <1>13, <1>18, <1>21, <2>6, Goes
<1> QED
  BY <1>2, <1>20, <1>21 DEF InReadDiscarded

LEMMA DiscardedRequestBodyHandlerStep == ASSUME IInv, DiscardedRequestBodyHandler PROVE IInv'
<1>1. PICK t \in Stacks : t = Tail(stack) /\ c.open /\ Facts("discarded", t)
  BY Running DEF DiscardedRequestBodyHandler
<1>2. InReader("discarded", t) /\ t = K1
  BY <1>1 DEF Facts, Handlers, InReader
<1>3. StoreR(r) /\ StoreC(c) /\ DOMAIN r = RFields /\ DOMAIN c = CFields
  BY DEF IInv, Store, StoreR, StoreC
<1>4. r.count \in 1..2 /\ r.live /\ ~r.posted /\ c.handler = "request" /\ r.weh # "none"
  BY <1>2, CountedFew DEF InReader, Serving, Watched
<1>5. ASSUME rc' = "ERROR", r'.live, ~r'.posted, r'.weh # "none", r'.count = r.count,
             c'.handler = "request"
      PROVE  InFinalize(K1)'
  BY <1>4, <1>5, Low, Distinct, Owing DEF InFinalize
<1>6. CASE c.rtimedout
  <2>1. /\ c' = [c EXCEPT !.error = TRUE] /\ UNCHANGED r
        /\ rc' = "ERROR" /\ stack' = Push("finalize", K1)
    BY <1>1, <1>2, <1>6 DEF DiscardedRequestBodyHandler, Call, Push
  <2>2. /\ c'.open = c.open /\ c'.handler = c.handler /\ c'.ready = c.ready /\ c'.eof = c.eof
        /\ c'.error
    BY <1>3, <2>1 DEF CFields
  <2>3. StoreC(c)' /\ StoreR(r)'
    BY <1>3, <2>1 DEF StoreC, StoreR, CFields
  <2>4. Store' /\ Edge'
    BY <2>2, <2>3, Quiet DEF DiscardedRequestBodyHandler
  <2>5. InFinalize(K1)'
    BY <1>4, <1>5, <2>1, <2>2
  <2> QED
    BY <1>1, <2>1, <2>2, <2>4, <2>5, AreKonts, Finalizes
<1>7. CASE ~c.rtimedout /\ r.lingering_time = "passed"
  <2>1. /\ r' = [r EXCEPT !.discard_body = FALSE, !.lingering_close = FALSE] /\ UNCHANGED c
        /\ rc' = "ERROR" /\ stack' = Push("finalize", K1)
    BY <1>1, <1>2, <1>7 DEF DiscardedRequestBodyHandler, Call, Push
  <2>2. r'.live = r.live /\ r'.posted = r.posted /\ r'.weh = r.weh /\ r'.count = r.count
    BY <1>3, <2>1 DEF RFields
  <2>3. StoreR(r)'
    BY <1>3, <2>1 DEF StoreR, RFields
  <2>4. Store' /\ Edge'
    BY <2>1, <2>3, QuietC DEF DiscardedRequestBodyHandler
  <2>5. InFinalize(K1)'
    BY <1>4, <1>5, <2>1, <2>2
  <2> QED
    BY <1>1, <2>1, <2>4, <2>5, AreKonts, Finalizes
<1>8. CASE ~c.rtimedout /\ r.lingering_time # "passed"
  <2>1. /\ UNCHANGED <<c, r>> /\ stack' = <<"read_discarded", "discarded_done">> \o t
    BY <1>1, <1>8 DEF DiscardedRequestBodyHandler, Call
  <2>2. Store' /\ Edge'
    BY <2>1, QuietCR DEF DiscardedRequestBodyHandler
  <2>3. Serving /\ Watched /\ Counted /\ Guarded
    BY <1>2, <1>8 DEF InReader, Guarded, Guard
  <2>4. Serving' /\ Watched' /\ Counted' /\ Guarded'
    BY <2>1, <2>3, UnmovedMore
  <2>5. InReadDiscarded(Push("discarded_done", K1))'
    BY <1>2, <2>1, <2>4 DEF InReadDiscarded, InReader
  <2>6. Facts("read_discarded", Push("discarded_done", K1))'
    BY <2>5 DEF Facts, Handlers
  <2>7. "read_discarded" \in Names /\ "discarded_done" \in Names
    BY DEF Names
  <2>8. <<"read_discarded", "discarded_done">> \o t
          = Push("read_discarded", Push("discarded_done", t))
    BY Zenon, <2>7, Call2
  <2>9. stack' = Push("read_discarded", Push("discarded_done", K1))
    BY <1>2, <2>1, <2>8
  <2>10. Push("discarded_done", K1) \in Stacks
    BY <2>7, Frames, Pushed
  <2> QED
    BY <1>1, <2>1, <2>2, <2>6, <2>7, <2>9, <2>10, Goes
<1> QED
  BY <1>6, <1>7, <1>8

LEMMA DiscardedDoneStep == ASSUME IInv, DiscardedDone PROVE IInv'
<1>1. PICK t \in Stacks : t = Tail(stack) /\ c.open /\ Facts("discarded_done", t)
  BY Running DEF DiscardedDone
<1>2. InDiscardedDone(t) /\ t = K1
  BY <1>1 DEF Facts, InDiscardedDone
<1>3. StoreR(r) /\ StoreC(c) /\ DOMAIN r = RFields /\ DOMAIN c = CFields
  BY DEF IInv, Store, StoreR, StoreC
<1>4. /\ c.handler = "request" /\ r.live /\ ~r.posted /\ ~r.later /\ r.weh # "none"
      /\ r.reh \in {"block", "discarded"} /\ (r.weh = "writer" => c.wtimer)
      /\ (r.reh = "discarded" => Dry)
      /\ r.discard_body => ~r.request_body /\ r.weh \in {"writer", "empty"}
  BY <1>2 DEF InDiscardedDone, Serving
<1>5. r.count = Num(r.discard_body) + Num(Answering) /\ r.count >= 1
  BY <1>2 DEF InDiscardedDone, Counted
<1>6. Answering <=> r.weh = "writer"
  BY <1>4 DEF Answering
<1>7. CASE rc = "OK"
  <2>1. /\ r' = [r EXCEPT !.discard_body = FALSE, !.lingering_close = FALSE]
        /\ rc' = "DONE" /\ UNCHANGED c /\ stack' = Push("finalize", K1)
    BY <1>1, <1>2, <1>7 DEF DiscardedDone, Call, Push
  <2>2. /\ r'.live = r.live /\ r'.posted = r.posted /\ r'.weh = r.weh /\ r'.count = r.count
        /\ r'.later = r.later /\ r'.reh = r.reh /\ ~r'.discard_body
    BY <1>3, <2>1 DEF RFields
  <2>3. StoreR(r)'
    BY <1>3, <2>1 DEF StoreR, RFields
  <2>4. Store' /\ Edge'
    BY <2>1, <2>3, QuietC DEF DiscardedDone
  <2>5. ASSUME r.count # 1 PROVE r.count = 2 /\ r.weh = "writer"
    BY <1>5, <1>6, <2>5 DEF Num
  <2>6. ASSUME r.count # 1 PROVE Held(K1, r.count - 1)'
    <3>1. Serving' /\ Watched' /\ Timed' /\ Answering'
      BY <1>4, <2>1, <2>2, <2>5, <2>6
         DEF Serving, Watched, Timed, Answering, Dry
    <3>2. r'.count - 1 = 1
      BY <2>2, <2>5, <2>6
    <3> QED
      BY <2>2, <3>1, <3>2, Owing DEF Held, Num
  <2>7. InFinalize(K1)'
    BY <1>4, <2>1, <2>2, <2>6, Low DEF InFinalize, Half
  <2> QED
    BY <1>1, <2>1, <2>4, <2>7, AreKonts, Finalizes
<1>8. CASE rc # "OK"
  <2>1. /\ c' = [c EXCEPT !.rtimer = @ \/ r.lingering_time = "set"]
        /\ UNCHANGED r /\ stack' = K1
    BY <1>1, <1>2, <1>8 DEF DiscardedDone, Return
  <2>2. /\ c'.open = c.open /\ c'.handler = c.handler /\ c'.ready = c.ready
        /\ c'.eof = c.eof /\ c'.error = c.error /\ c'.wtimer = c.wtimer
        /\ (c.rtimer => c'.rtimer)
    BY <1>3, <2>1 DEF CFields
  <2>3. StoreC(c)' /\ StoreR(r)'
    BY <1>3, <2>1 DEF StoreC, StoreR, CFields
  <2>4. Store' /\ Edge'
    BY <2>2, <2>3, Quiet DEF DiscardedDone
  <2>5. r.reh = "discarded" /\ Dry /\ Guarded
    BY <1>2, <1>4, <1>8 DEF InDiscardedDone
  <2>6. Serving' /\ Watched' /\ Timed' /\ Guarded' /\ Dry'
    BY <1>4, <2>1, <2>2, <2>5 DEF Serving, Watched, Timed, Guarded, Dry
  <2>7. r'.count = Num(r'.discard_body) + Num(Answering') + Owed(K1) /\ r'.count >= 1
    BY <1>5, <2>1, Owing DEF Num, Answering
  <2>8. Returned(K1, r.count)'
    BY <2>6, <2>7 DEF Returned, Held
  <2> QED
    BY <1>1, <2>1, <2>2, <2>4, <2>8, Low, Back
<1> QED
  BY <1>7, <1>8
-----------------------------------------------------------------------------
(* What the client sends is made of units. *)
LEMMA Induction ==
  ASSUME NEW T, T \subseteq Nat, 0 \in T, \A n \in T : n + 1 \in T
  PROVE  T = Nat
<1> DEFINE R == {ss \in Nat \X Nat : ss[1] < ss[2]}
           U == Nat \ T
<1>1. IsWellFoundedOn(R, Nat)
  BY NatLessThanWellFounded DEF OpToRel
<1>2. SUFFICES ASSUME U # {} PROVE FALSE
  OBVIOUS
<1>3. \E x \in U : \A y \in U : ~(<<y, x>> \in R)
  <2> HIDE DEF R, U
  <2>1. U \subseteq Nat
    BY DEF U
  <2> QED
    BY <1>1, <1>2, <2>1, WFMin
<1>4. PICK x \in U : \A y \in U : ~(<<y, x>> \in R)
  BY <1>3
<1>5. x \in Nat /\ x # 0 /\ x - 1 \in Nat
  OBVIOUS
<1>6. <<x - 1, x>> \in R
  BY <1>5
<1>7. x - 1 \notin U
  BY <1>4, <1>6
<1>8. x - 1 \in T
  BY <1>7, <1>5
<1>9. x - 1 + 1 \in T
  BY <1>8
<1> QED
  BY <1>9, <1>5

(* The units of a script, and the function by which Stream() joins them. *)
UnitsOf(s) == [k : {"part", "line", "hdr", "head", "body"}, q : 1..Len(s)]
Joined(s, f, n) == f = [q \in 0..n |-> IF q = 0 THEN <<>> ELSE f[q - 1] \o Units(s, q)]

LEMMA UnitsAre ==
  ASSUME NEW s \in Seq(Requests), NEW q \in 1..Len(s)
  PROVE  Units(s, q) \in Seq(UnitsOf(s))
<1>1. s[q] \in Requests
  OBVIOUS
<1>2. s[q].line \in Nat /\ s[q].hdrs \in Nat /\ s[q].body \in Int
  BY <1>1 DEF Requests
<1>3. Size(s[q].body) \in Nat
  BY <1>2 DEF Size
<1> DEFINE n == s[q].line + s[q].hdrs + 1 + Size(s[q].body)
<1>4. n \in Nat
  <2>1. ASSUME NEW a \in Nat, NEW b \in Nat, NEW d \in Nat PROVE a + b + 1 + d \in Nat
    OBVIOUS
  <2> QED
    BY <1>2, <1>3, <2>1
<1>5. ASSUME NEW k \in {"part", "line", "hdr", "head", "body"} PROVE Unit(k, q) \in UnitsOf(s)
  BY DEF Unit, UnitsOf
<1> DEFINE u(i) == CASE i < s[q].line                     -> Unit("part", q)
                     [] i = s[q].line                     -> Unit("line", q)
                     [] i \in (s[q].line + 1)..(s[q].line + s[q].hdrs) -> Unit("hdr", q)
                     [] i = s[q].line + s[q].hdrs + 1     -> Unit("head", q)
                     [] OTHER                             -> Unit("body", q)
<1>6. ASSUME NEW i \in 1..n PROVE u(i) \in UnitsOf(s)
  BY <1>2, <1>5
<1>7. Units(s, q) = [i \in 1..n |-> u(i)]
  BY DEF Units
<1>8. Units(s, q) \in [1..n -> UnitsOf(s)]
  <2> HIDE DEF u, n
  <2> QED
    BY <1>6, <1>7
<1> QED
  <2> HIDE DEF n
  <2> QED
    BY <1>4, <1>8

LEMMA JoinedExists ==
  ASSUME NEW s \in Seq(Requests), NEW n \in Nat
  PROVE  \E f : Joined(s, f, n)
<1> DEFINE T == {m \in Nat : \E f : Joined(s, f, m)}
<1>1. 0 \in T
  <2>1. Joined(s, [q \in 0..0 |-> <<>>], 0)
    BY DEF Joined
  <2> QED
    BY <2>1
<1>2. ASSUME NEW m \in T PROVE m + 1 \in T
  <2>1. PICK f : Joined(s, f, m)
    OBVIOUS
  <2> DEFINE g == [q \in 0..(m + 1) |-> IF q = m + 1 THEN f[m] \o Units(s, m + 1) ELSE f[q]]
  <2>2. ASSUME NEW q \in 0..(m + 1)
        PROVE  g[q] = IF q = 0 THEN <<>> ELSE g[q - 1] \o Units(s, q)
    <3>1. CASE q = m + 1
      <4>1. q # 0 /\ q - 1 = m /\ m \in 0..(m + 1) /\ m # m + 1
        BY <3>1
      <4>2. g[q - 1] = f[m]
        BY <4>1
      <4>3. g[q] = f[m] \o Units(s, m + 1)
        BY <3>1
      <4> QED
        BY <3>1, <4>1, <4>2, <4>3
    <3>2. CASE q # m + 1
      <4>1. q \in 0..m /\ g[q] = f[q]
        BY <3>2
      <4>2. f[q] = IF q = 0 THEN <<>> ELSE f[q - 1] \o Units(s, q)
        BY <4>1, <2>1 DEF Joined
      <4>3. q # 0 => q - 1 \in 0..(m + 1) /\ q - 1 # m + 1
        BY <4>1
      <4>4. q # 0 => g[q - 1] = f[q - 1]
        BY <4>3
      <4> QED
        BY <4>1, <4>2, <4>4
    <3> QED
      BY <3>1, <3>2
  <2>3. Joined(s, g, m + 1)
    <3>1. g = [q \in 0..(m + 1) |-> g[q]]
      OBVIOUS
    <3> HIDE DEF g
    <3>2. [q \in 0..(m + 1) |-> g[q]] =
            [q \in 0..(m + 1) |-> IF q = 0 THEN <<>> ELSE g[q - 1] \o Units(s, q)]
      BY <2>2
    <3> QED
      BY <3>1, <3>2 DEF Joined
  <2> QED
    BY <2>3
<1>3. T = Nat
  <2> HIDE DEF T
  <2>1. T \subseteq Nat
    BY DEF T
  <2> QED
    BY <1>1, <1>2, <2>1, Induction
<1> QED
  BY <1>3

LEMMA StreamIs ==
  ASSUME NEW s \in Seq(Requests)
  PROVE  Stream(s) \in Seq(UnitsOf(s))
<1>1. Len(s) \in Nat
  OBVIOUS
<1>2. \E f : Joined(s, f, Len(s))
  BY <1>1, JoinedExists
<1> DEFINE g == CHOOSE f : Joined(s, f, Len(s))
<1>3. Joined(s, g, Len(s))
  BY <1>2
<1>4. Stream(s) = g[Len(s)]
  BY DEF Stream, Joined
<1> HIDE DEF g
<1> DEFINE T == {m \in Nat : m <= Len(s) => g[m] \in Seq(UnitsOf(s))}
<1>5. 0 \in T
  <2>1. 0 \in 0..Len(s)
    BY <1>1
  <2>2. ASSUME NEW q \in 0..Len(s), q = 0 PROVE g[q] = <<>>
    BY <1>3, <2>2 DEF Joined
  <2>3. g[0] = <<>>
    BY <2>1, <2>2
  <2>4. <<>> \in Seq(UnitsOf(s))
    BY EmptySeq
  <2>5. 0 <= Len(s) => g[0] \in Seq(UnitsOf(s))
    BY <2>3, <2>4
  <2> QED
    BY <2>5
<1>6. ASSUME NEW m \in T PROVE m + 1 \in T
  <2>1. CASE m + 1 <= Len(s)
    <3>1. m + 1 \in 0..Len(s) /\ m + 1 # 0 /\ (m + 1) - 1 = m /\ m + 1 \in 1..Len(s)
      BY <1>1, <2>1
    <3>2. g[m + 1] = g[m] \o Units(s, m + 1)
      BY <1>3, <3>1 DEF Joined
    <3>3. g[m] \in Seq(UnitsOf(s))
      BY <1>1, <2>1
    <3>4. Units(s, m + 1) \in Seq(UnitsOf(s))
      BY <3>1, UnitsAre
    <3>5. g[m + 1] \in Seq(UnitsOf(s))
      BY <3>2, <3>3, <3>4
    <3> QED
      BY <3>5
  <2>2. CASE ~(m + 1 <= Len(s))
    BY <2>2
  <2> QED
    BY <2>1, <2>2
<1>7. T = Nat
  <2> HIDE DEF T
  <2>1. T \subseteq Nat
    BY DEF T
  <2> QED
    BY <1>5, <1>6, <2>1, Induction
<1>8. g[Len(s)] \in Seq(UnitsOf(s))
  BY <1>1, <1>7
<1> QED
  BY <1>4, <1>8

LEMMA InitIInv == Init => IInv
<1> SUFFICES ASSUME Init PROVE IInv
  OBVIOUS
<1>1. script \in Seq(Requests)
  BY ScriptsAssumption DEF Init, Requests
<1>2. todo \in Seq(UnitSet)
  BY <1>1, StreamIs DEF Init, UnitsOf, UnitSet
<1>3. StoreB
  BY <1>1, <1>2, HttpConnectionAssumption DEF StoreB, Init
<1>4. StoreC(c)
  BY HttpConnectionAssumption DEF StoreC, Init, NewConnection, CFields, Readers
<1>5. StoreR(r)
  BY DEF StoreR, Init, NoRequest, NewRequest, RFields, Handlers
<1>6. Edge
  BY DEF Edge, Init
<1>7. Idle
  BY DEF Idle, Init, NewConnection, Dry
<1>8. stack \in Stacks /\ Shape
  BY <1>7 DEF Init, Stacks, Shape, AtLoop
<1> QED
  BY <1>3, <1>4, <1>5, <1>6, <1>8 DEF IInv, Store

-----------------------------------------------------------------------------
(* Every step keeps the invariant. *)
LEMMA DoneStep == ASSUME IInv, UNCHANGED vars PROVE IInv'
<1>1. UNCHANGED <<c, r, rc, script, stack>> /\ UNCHANGED <<client, net, edge, buf, room, faults>>
  BY DEF vars, client
<1>2. Store'
  <2>1. StoreC(c)' /\ StoreR(r)'
    BY <1>1 DEF IInv, Store, StoreC, StoreR
  <2>2. StoreB'
    BY <1>1, StoreStill DEF IInv, Store, StoreB
  <2> QED
    BY <2>1, <2>2 DEF Store
<1>3. Edge'
  BY <1>1, EdgeStill DEF IInv
<1> QED
  BY <1>1, <1>2, <1>3, Elsewhere

LEMMA EventsStep == ASSUME IInv, Events PROVE IInv'
BY ReadableStep, PostedEventStep, ReadTimerStep, WritableStep, WriteTimerStep, LaterDoneStep,
   UpstreamSendsRequestStep, LingeringTimePassesStep DEF Events

LEMMA ReadsHeadStep == ASSUME IInv, ReadsHead PROVE IInv'
BY WaitRequestHandlerStep, HeadTimedOutStep, AllocLargeHeaderBufferStep, ReadRequestHeaderStep,
   ParseRequestLineStep, ParseHeaderLineStep DEF ReadsHead

LEMMA HandlesRequestStep == ASSUME IInv, HandlesRequest PROVE IInv'
<1>1. ASSUME NEW how \in {"now", "later", "unbuffered"}, ContentReads(how) PROVE IInv'
  BY <1>1, ContentReadsStep
<1>2. ASSUME NEW code \in {"404", "500"}, ContentRefuses(code) PROVE IInv'
  BY <1>2, ContentRefusesStep
<1>3. CASE ProcessRequest \/ TooLarge \/ ReadEventHandler \/ BlockReading \/ TestReading
  BY <1>3, ProcessRequestStep, TooLargeStep, ReadEventHandlerStep, BlockReadingStep,
     TestReadingStep
<1>4. CASE ContentDiscards \/ UnlessFailed \/ ReadDone \/ Output \/ Writer \/ Written
  BY <1>4, ContentDiscardsStep, UnlessFailedStep, ReadDoneStep, OutputStep, WriterStep,
     WrittenStep
<1> QED
  BY <1>1, <1>2, <1>3, <1>4 DEF HandlesRequest

LEMMA HandlesBodyStep == ASSUME IInv, HandlesBody PROVE IInv'
<1>1. CASE \/ ReadClientRequestBody \/ BodyOk \/ BodyDone \/ DoReadClientRequestBody
           \/ ReadBodyHandler \/ IfFailed \/ PostHandlerAnswers \/ PostHandlerUpstream
  BY <1>1, ReadClientRequestBodyStep, BodyOkStep, BodyDoneStep, DoReadClientRequestBodyStep,
     ReadBodyHandlerStep, IfFailedStep, PostHandlerAnswersStep, PostHandlerUpstreamStep
<1>2. CASE \/ ReadUnbufferedRequestBody \/ UnbufferedDone \/ DiscardRequestBody
           \/ ReadDiscardedRequestBody \/ DiscardRest
           \/ DiscardedRequestBodyHandler \/ DiscardedDone
  BY <1>2, ReadUnbufferedRequestBodyStep, UnbufferedDoneStep, DiscardRequestBodyStep,
     ReadDiscardedRequestBodyStep, DiscardRestStep, DiscardedRequestBodyHandlerStep,
     DiscardedDoneStep
<1> QED
  BY <1>1, <1>2 DEF HandlesBody

LEMMA EndsRequestStep == ASSUME IInv, EndsRequest PROVE IInv'
<1>1. CASE \/ CloseConnection \/ CloseRequest \/ TerminateRequest \/ RunPostedRequests
           \/ FinalizeDone \/ FinalizeError \/ FinalizeSpecial \/ SpecialResponse
           \/ FinalizeBuffered \/ FinalizeComplete
  BY <1>1, CloseConnectionStep, CloseRequestStep, TerminateRequestStep, RunPostedRequestsStep,
     FinalizeDoneStep, FinalizeErrorStep, FinalizeSpecialStep, SpecialResponseStep,
     FinalizeBufferedStep, FinalizeCompleteStep
<1>2. CASE \/ FinalizeConnectionShared \/ FinalizeConnectionLast
           \/ SetKeepalivePipelined \/ SetKeepaliveIdle
           \/ KeepaliveHandler \/ SetLingeringClose \/ LingeringCloseHandler
  BY <1>2, FinalizeConnectionSharedStep, FinalizeConnectionLastStep,
     SetKeepalivePipelinedStep, SetKeepaliveIdleStep, KeepaliveHandlerStep,
     SetLingeringCloseStep, LingeringCloseHandlerStep
<1> QED
  BY <1>1, <1>2 DEF EndsRequest

LEMMA NextStep == ASSUME IInv, [Next]_vars PROVE IInv'
<1>1. ASSUME NEW how \in {"fin", "reset"}, ClientCloses(how) PROVE IInv'
  BY <1>1, ClientClosesStep
<1>2. CASE Runs
  BY <1>2, ReadsHeadStep, HandlesRequestStep, HandlesBodyStep, EndsRequestStep DEF Runs
<1>3. CASE ClientSends \/ Events \/ DrainConnection \/ Exit
  BY <1>3, ClientSendsStep, EventsStep, DrainConnectionStep, ExitStep
<1>4. CASE Done \/ UNCHANGED vars
  <2>1. UNCHANGED vars
    BY <1>4 DEF Done
  <2> QED
    BY <2>1, DoneStep
<1> QED
  BY <1>1, <1>2, <1>3, <1>4 DEF Next

-----------------------------------------------------------------------------
(* What the invariant says of a connection at rest. *)
LEMMA RestHeld ==
  ASSUME Held(K0, r.count)
  PROVE  r.count = Num(r.discard_body) + Num(Answering) /\ r.count >= 1 /\ Timed /\ Watched
<1>1. Owed(K0) = 0
  BY Owing
<1>2. Num(r.discard_body) \in Nat /\ Num(Answering) \in Nat
  BY DEF Num
<1> QED
  BY <1>1, <1>2 DEF Held

LEMMA SoundAtRest == ASSUME IInv PROVE RestSound
<1>1. TypeOK
  BY HttpConnectionAssumption DEF IInv, Store, StoreC, StoreR, StoreB, TypeOK, Handlers
<1>2. ASSUME AtRest
      PROVE  Idle \/ Reading \/ (Held(K0, r.count) /\ Guarded) \/ Lingers(K0, r.count)
  BY <1>2, AtRestIs
<1>3. AbandonedOnlyAtEof
  <2> SUFFICES ASSUME AtRest PROVE Attended \/ Forgotten
    BY DEF AbandonedOnlyAtEof
  <2>1. CASE Idle \/ Reading \/ Lingers(K0, r.count)
    BY <2>1 DEF Idle, Reading, Lingers, Attended
  <2>2. CASE Held(K0, r.count) /\ Guarded
    <3>1. Timed /\ Watched /\ (Answering \/ r.discard_body)
      BY <2>2, RestHeld DEF Num
    <3>2. CASE Answering
      BY <3>1, <3>2 DEF Answering, Timed, Attended
    <3>3. CASE ~Answering /\ r.discard_body
      BY <2>2, <3>1, <3>3 DEF Answering, Watched, Guarded, Attended, Forgotten
    <3> QED
      BY <3>1, <3>2, <3>3
  <2> QED
    BY <1>2, <2>1, <2>2
<1>4. NoLostEdge
  <2> SUFFICES ASSUME AtRest, net # <<>> \/ peer # "open",
                      c.handler # "request" \/ r.reh \in {"body", "discarded", "unbuffered"}
               PROVE  edge \/ c.posted \/ c.eof \/ c.error
    BY DEF NoLostEdge
  <2>1. edge \/ c.ready \/ c.eof \/ c.error
    BY DEF IInv, Edge, AtRest
  <2>2. CASE Held(K0, r.count)
    <3>1. c.handler = "request" /\ Timed
      BY <2>2 DEF Held, Serving
    <3> QED
      BY <2>1, <3>1 DEF Timed, Dry
  <2>3. CASE Idle \/ Reading \/ Lingers(K0, r.count)
    BY <2>1, <2>3 DEF Idle, Reading, Lingers, Dry
  <2> QED
    BY <1>2, <2>2, <2>3
<1>5. CountExact
  <2> SUFFICES ASSUME AtRest, r.live, c.handler = "request"
               PROVE  r.count = (IF r.discard_body THEN 1 ELSE 0)
                        + (IF r.later \/ r.reh = "body" \/ r.weh = "writer" THEN 1 ELSE 0)
    BY DEF CountExact
  <2>1. Held(K0, r.count)
    BY <1>2 DEF Idle, Reading, Lingers
  <2> QED
    BY <2>1, RestHeld DEF Num, Answering
<1> QED
  BY <1>1, <1>3, <1>4, <1>5 DEF RestSound

(* Whenever the worker waits for events, an open connection has a timer, a  *)
(* posted event or an upstream request that comes back to it, or the client *)
(* left while its body was discarded; what arrived is reported or noted;    *)
(* and r->main->count is the number of those who still use the request      *)
(* (ngx_http_finalize_request(), ngx_http_set_keepalive(),                  *)
(* ngx_http_discard_request_body() and all that calls them).                *)
THEOREM RestKept == Spec => []RestSound
<1>1. Init => IInv
  BY InitIInv
<1>2. IInv /\ [Next]_vars => IInv'
  BY NextStep
<1>3. IInv => RestSound
  BY SoundAtRest
<1> QED
  BY <1>1, <1>2, <1>3, PTL DEF Spec

-----------------------------------------------------------------------------
(* FramingKept.  What nobody has looked at yet has the form of what a       *)
(* client sends: every unit is followed by one that may follow it, the      *)
(* empty line that ends a head by as many units of a body as the request    *)
(* announces.                                                               *)
BodyLen(q) == Size(Body(q))
Follows(s, i) ==
  /\ s[i].k = "part" /\ i < Len(s) => s[i + 1].k \in {"part", "line"}
  /\ s[i].k \in {"line", "hdr"} /\ i < Len(s) =>
       s[i + 1].k \in {"hdr", "head"} /\ s[i + 1].q = s[i].q
  /\ s[i].k = "head" =>
       /\ \A j \in (i + 1)..(i + BodyLen(s[i].q)) : j <= Len(s) => s[j] = Unit("body", s[i].q)
       /\ i + BodyLen(s[i].q) < Len(s) => s[i + BodyLen(s[i].q) + 1].k \in {"part", "line"}
Framed(s) == \A i \in 1..Len(s) : Follows(s, i)

(* A request comes first, or a header line of request q, or n units of the  *)
(* body of q and then a request.                                            *)
Begins(s) == s # <<>> => s[1].k \in {"part", "line"}
Heads(s, q) == s # <<>> => s[1].k \in {"hdr", "head"} /\ s[1].q = q
Ahead(s, n, q) ==
  /\ \A i \in 1..n : i <= Len(s) => s[i] = Unit("body", q)
  /\ n < Len(s) => s[n + 1].k \in {"part", "line"}

(* What holds wherever the worker is; a reset takes away what was sent, and *)
(* a lingering close throws it away.                                        *)
Form == peer # "reset" /\ c.handler # "lingering" => Framed(Unread)
Bodies ==
  peer # "reset" /\ c.handler = "request" /\ r.live /\ (r.keepalive \/ r.rest > 0) =>
    Ahead(Unread, Size(r.rest), r.q)
Asked == r.request_body \/ r.discard_body \/ r.reh = "discarded"
Emptied == c.handler = "request" /\ r.live /\ Asked /\ r.rest > 0 => buf = <<>>
General ==
  /\ Form /\ Bodies /\ Emptied
  /\ c.handler \in {"wait", "keepalive"} => buf = <<>>
  /\ c.handler \in {"line", "headers"} => ~r.keepalive
  /\ r.live /\ r.reh = "unbuffered" => r.reading_body

(* The next request may follow: the body was read to its end, or there will *)
(* be no next request on this connection.                                   *)
Ended == peer = "fin" /\ net = <<>> /\ buf = <<>>
Spent == r.rest <= 0 \/ ~r.keepalive \/ r.reading_body \/ Ended \/ peer = "reset"
Left == Spent \/ r.discard_body
Settled == c.handler = "request" /\ r.live => Left \/ r.reh = "body" \/ r.posted
Refused == r.request_body /\ rc \in Special \ NoKeepalive => Spent

Starts == peer # "reset" => Begins(Unread)
Header == peer # "reset" => Heads(Unread, r.q)
HeadRead == peer # "reset" /\ r.q \in 1..Len(script) => Ahead(Unread, BodyLen(r.q), r.q)
Resting ==
  /\ c.handler \in {"wait", "keepalive", "line"} => Starts
  /\ c.handler = "headers" => Header
  /\ Settled

(* The clause of every function again. *)
Clause(f, t) ==
  /\ f \in {"wait", "keepalive", "line", "set_keepalive"} => Starts
  /\ f = "headers" => Header
  /\ f = "process_request" => HeadRead
  /\ f \in {"read_discarded", "discard_rest"} /\ r.rest > 0 => buf = <<>>
  /\ f \in {"finalize_connection", "set_keepalive"} => c.handler = "request"
  /\ f \in {"request", "write", "posted", "body_ok"} \cup Handlers => Settled
  /\ f \in {"output", "written", "discarded_done"} => Left
  /\ f = "special" /\ rc = "OK" => Left
  /\ f = "discard" /\ r.request_body => Spent
  /\ f = "read_discarded" /\ Head(t) = "discarded_done" => Left
  /\ f \in {"discard_rest", "discarded_done"} /\ rc = "OK" => Spent
  /\ f = "unless_failed" /\ rc = "OK" => Left
  /\ f \in {"read_done", "if_failed"} => Refused /\ (rc \notin Special => Settled)
  /\ f = "body_done" => Settled /\ (rc = "OK" /\ r.no_buffering => r.rest <= 0)
  /\ f = "unbuffered_done" => r.reading_body /\ (rc = "OK" => r.rest <= 0)
  /\ f = "post_handler" => Spent
  /\ f = "finalize" =>
       /\ c.handler \in {"line", "headers", "request"}
       /\ rc = "DONE" => c.handler = "request" /\ Settled /\ (r.count = 1 => Spent)
       /\ rc \in {"OK", "AGAIN"} => Left
       /\ Refused
  /\ f = "finalize_connection" => Settled /\ (r.count = 1 => Spent)
  /\ f = "close_request" /\ r.count # 1 => Settled
FInv ==
  c.open =>
    General /\ IF stack = <<>> THEN Resting ELSE Clause(Head(stack), Tail(stack))

(* The shape of a part of a text. *)
LEMMA BodyLenOf ==
  ASSUME script \in Seq(Requests), NEW q \in 1..Len(script)
  PROVE  BodyLen(q) \in Nat
<1>1. script[q] \in Requests
  OBVIOUS
<1>2. Body(q) \in Int
  BY <1>1 DEF Body, Requests
<1> QED
  BY <1>2 DEF BodyLen, Size

LEMMA BodyLenIn ==
  ASSUME script \in Seq(Requests), NEW u \in UnitSet
  PROVE  u.q \in 1..Len(script) /\ BodyLen(u.q) \in Nat
         /\ u.k \in {"part", "line", "hdr", "head", "body"}
<1>1. u.q \in 1..Len(script) /\ u.k \in {"part", "line", "hdr", "head", "body"}
  BY DEF UnitSet
<1> QED
  BY <1>1, BodyLenOf

LEMMA Window ==
  ASSUME script \in Seq(Requests), NEW s \in Seq(UnitSet), NEW t \in Seq(UnitSet),
         NEW d \in Nat, Len(t) + d <= Len(s), \A i \in 1..Len(t) : t[i] = s[i + d], Framed(s)
  PROVE  Framed(t)
<1> SUFFICES ASSUME NEW i \in 1..Len(t) PROVE Follows(t, i)
  BY DEF Framed
<1>1. Len(s) \in Nat /\ Len(t) \in Nat
  OBVIOUS
<1>2. i + d \in 1..Len(s) /\ t[i] = s[i + d] /\ t[i] \in UnitSet
  BY <1>1
<1>3. Follows(s, i + d)
  BY <1>2 DEF Framed
<1>4. i < Len(t) => /\ i + d < Len(s) /\ i + 1 \in 1..Len(t)
                    /\ t[i + 1] = s[i + 1 + d] /\ i + 1 + d = i + d + 1
  BY <1>1
<1> DEFINE q == t[i].q
           n == BodyLen(q)
<1>5. n \in Nat
  BY <1>2, BodyLenIn
<1>6. /\ t[i].k = "part" /\ i < Len(t) => t[i + 1].k \in {"part", "line"}
      /\ t[i].k \in {"line", "hdr"} /\ i < Len(t) =>
           t[i + 1].k \in {"hdr", "head"} /\ t[i + 1].q = t[i].q
  <2>1. /\ s[i + d].k = "part" /\ i + d < Len(s) => s[i + d + 1].k \in {"part", "line"}
        /\ s[i + d].k \in {"line", "hdr"} /\ i + d < Len(s) =>
             s[i + d + 1].k \in {"hdr", "head"} /\ s[i + d + 1].q = s[i + d].q
    BY <1>3 DEF Follows
  <2>2. i < Len(t) => t[i + 1] = s[i + d + 1] /\ i + d < Len(s)
    BY <1>4
  <2> QED
    BY <1>2, <2>1, <2>2
<1> HIDE DEF n
<1>9. s[i + d].k = "head" =>
       /\ \A j \in (i + d + 1)..(i + d + n) : j <= Len(s) => s[j] = Unit("body", q)
       /\ i + d + n < Len(s) => s[i + d + n + 1].k \in {"part", "line"}
  BY <1>2, <1>3 DEF Follows, n
<1>7. ASSUME t[i].k = "head", NEW j \in (i + 1)..(i + n), j <= Len(t) PROVE t[j] = Unit("body", q)
  <2>1. j \in 1..Len(t) /\ t[j] = s[j + d]
    BY <1>1, <1>5, <1>7
  <2>2. j + d \in (i + d + 1)..(i + d + n) /\ j + d <= Len(s)
    BY <1>1, <1>5, <1>7
  <2> QED
    BY <1>2, <1>7, <1>9, <2>1, <2>2
<1>8. ASSUME t[i].k = "head", i + n < Len(t) PROVE t[i + n + 1].k \in {"part", "line"}
  <2>1. i + n + 1 \in 1..Len(t) /\ i + n + 1 + d = i + d + n + 1 /\ i + d + n < Len(s)
    BY <1>1, <1>5, <1>8
  <2>2. t[i + n + 1] = s[i + d + n + 1]
    BY <2>1
  <2>3. s[i + d + n + 1].k \in {"part", "line"}
    BY <1>2, <1>8, <1>9, <2>1
  <2> QED
    BY <2>2, <2>3
<1> QED
  BY <1>6, <1>7, <1>8 DEF Follows, n

LEMMA RestIs ==
  ASSUME NEW U, NEW s \in Seq(U), NEW n \in 0..Len(s)
  PROVE  /\ Rest(s, n) \in Seq(U) /\ Len(Rest(s, n)) = Len(s) - n /\ Len(Rest(s, n)) \in Nat
         /\ \A i \in 1..Len(Rest(s, n)) : Rest(s, n)[i] = s[i + n]
<1>1. Len(s) \in Nat /\ \A i \in (n + 1)..Len(s) : s[i] \in U
  OBVIOUS
<1>2. Rest(s, n) \in Seq(U) /\ Len(Rest(s, n)) = Len(s) - n
  BY Taken
<1>3. \A i \in 1..(Len(s) - (n + 1) + 1) : SubSeq(s, n + 1, Len(s))[i] = s[n + 1 + i - 1]
  BY <1>1, SubSeqProperties
<1>4. ASSUME NEW i \in 1..Len(Rest(s, n)) PROVE Rest(s, n)[i] = s[i + n]
  <2>1. i \in 1..(Len(s) - (n + 1) + 1) /\ n + 1 + i - 1 = i + n
    BY <1>1, <1>2
  <2>2. SubSeq(s, n + 1, Len(s))[i] = s[i + n]
    BY <1>3, <2>1
  <2> QED
    BY <2>2 DEF Rest
<1> QED
  BY <1>1, <1>2, <1>4

(* What remains of a body, and of the units that follow one that was taken. *)
LEMMA AheadRest ==
  ASSUME NEW s \in Seq(UnitSet), NEW n \in Nat, NEW m \in 0..n, m <= Len(s), NEW q,
         Ahead(s, n, q)
  PROVE  Ahead(Rest(s, m), n - m, q)
<1> DEFINE t == Rest(s, m)
<1>1. m \in 0..Len(s) /\ Len(s) \in Nat
  OBVIOUS
<1>2. Len(t) = Len(s) - m /\ \A i \in 1..Len(t) : t[i] = s[i + m]
  BY <1>1, RestIs
<1> HIDE DEF t
<1>3. ASSUME NEW i \in 1..(n - m), i <= Len(t) PROVE t[i] = Unit("body", q)
  <2>1. i \in 1..Len(t) /\ i + m \in 1..n /\ i + m <= Len(s)
    BY <1>1, <1>2, <1>3
  <2> QED
    BY <1>2, <2>1 DEF Ahead
<1>4. ASSUME n - m < Len(t) PROVE t[n - m + 1].k \in {"part", "line"}
  <2>1. n - m + 1 \in 1..Len(t) /\ n - m + 1 + m = n + 1 /\ n < Len(s)
    BY <1>1, <1>2, <1>4
  <2>2. t[n - m + 1] = s[n + 1]
    BY <1>2, <2>1
  <2> QED
    BY <2>1, <2>2 DEF Ahead
<1> QED
  BY <1>3, <1>4 DEF Ahead, t

LEMMA Next1 ==
  ASSUME script \in Seq(Requests), NEW s \in Seq(UnitSet), s # <<>>, Framed(s)
  PROVE  /\ Framed(Rest(s, 1)) /\ s[1] \in UnitSet
         /\ s[1].k = "part" => Begins(Rest(s, 1))
         /\ s[1].k \in {"line", "hdr"} => Heads(Rest(s, 1), s[1].q)
         /\ s[1].k = "head" => Ahead(Rest(s, 1), BodyLen(s[1].q), s[1].q)
<1> DEFINE t == Rest(s, 1)
<1>1. Len(s) \in Nat /\ Len(s) >= 1
  BY EmptySeq
<1>2. 1 \in 0..Len(s) /\ 1 \in 1..Len(s)
  BY <1>1
<1>3. t \in Seq(UnitSet) /\ Len(t) = Len(s) - 1 /\ \A i \in 1..Len(t) : t[i] = s[i + 1]
  BY <1>2, RestIs
<1> HIDE DEF t
<1>4. Framed(t)
  BY <1>1, <1>3, Window
<1>5. Follows(s, 1) /\ s[1] \in UnitSet
  BY <1>2 DEF Framed
<1>6. t # <<>> => 1 < Len(s) /\ t[1] = s[1 + 1]
  <2>1. t # <<>> => Len(t) >= 1
    BY <1>3, EmptySeq
  <2> QED
    BY <1>1, <1>3, <2>1
<1>7. s[1].k = "part" => Begins(t)
  BY <1>5, <1>6 DEF Follows, Begins
<1>8. s[1].k \in {"line", "hdr"} => Heads(t, s[1].q)
  BY <1>5, <1>6 DEF Follows, Heads
<1>9. ASSUME s[1].k = "head" PROVE Ahead(t, BodyLen(s[1].q), s[1].q)
  <2> DEFINE q == s[1].q
             n == BodyLen(q)
  <2>1. n \in Nat
    BY <1>5, BodyLenIn
  <2> HIDE DEF n, q
  <2>2. /\ \A j \in (1 + 1)..(1 + n) : j <= Len(s) => s[j] = Unit("body", q)
        /\ 1 + n < Len(s) => s[1 + n + 1].k \in {"part", "line"}
    BY <1>5, <1>9 DEF Follows, n, q
  <2>3. ASSUME NEW i \in 1..n, i <= Len(t) PROVE t[i] = Unit("body", q)
    <3>1. i \in 1..Len(t) /\ i + 1 \in (1 + 1)..(1 + n) /\ i + 1 <= Len(s)
      BY <1>1, <1>3, <2>1, <2>3
    <3> QED
      BY <1>3, <2>2, <3>1
  <2>4. ASSUME n < Len(t) PROVE t[n + 1].k \in {"part", "line"}
    <3>1. n + 1 \in 1..Len(t) /\ 1 + n < Len(s) /\ n + 1 + 1 = 1 + n + 1
      BY <1>1, <1>3, <2>1, <2>4
    <3>2. t[n + 1] = s[1 + n + 1]
      BY <1>3, <3>1
    <3> QED
      BY <2>2, <3>1, <3>2
  <2> QED
    BY <2>3, <2>4 DEF Ahead, n, q
<1> QED
  BY <1>4, <1>5, <1>7, <1>8, <1>9 DEF t

(* A beginning of a text. *)
LEMMA Cut ==
  ASSUME script \in Seq(Requests), NEW s \in Seq(UnitSet), NEW t \in Seq(UnitSet),
         Len(t) <= Len(s), \A i \in 1..Len(t) : t[i] = s[i]
  PROVE  /\ Framed(s) => Framed(t)
         /\ Begins(s) => Begins(t)
         /\ \A q : Heads(s, q) => Heads(t, q)
         /\ \A n \in Nat : \A q : Ahead(s, n, q) => Ahead(t, n, q)
<1>1. Len(s) \in Nat /\ Len(t) \in Nat
  OBVIOUS
<1>2. Framed(s) => Framed(t)
  <2>1. 0 \in Nat /\ Len(t) + 0 <= Len(s)
    BY <1>1
  <2>2. \A i \in 1..Len(t) : t[i] = s[i + 0]
    BY <1>1
  <2> QED
    BY <2>1, <2>2, Window
<1>3. t # <<>> => s # <<>> /\ t[1] = s[1]
  <2>1. t # <<>> => Len(t) >= 1
    BY EmptySeq
  <2>2. s = <<>> => Len(s) = 0
    BY EmptySeq
  <2> QED
    BY <1>1, <2>1, <2>2
<1>4. Begins(s) => Begins(t)
  BY <1>3 DEF Begins
<1>5. ASSUME NEW q, Heads(s, q) PROVE Heads(t, q)
  BY <1>3, <1>5 DEF Heads
<1>6. ASSUME NEW n \in Nat, NEW q, Ahead(s, n, q) PROVE Ahead(t, n, q)
  <2>1. ASSUME NEW i \in 1..n, i <= Len(t) PROVE t[i] = Unit("body", q)
    <3>1. i \in 1..Len(t) /\ i <= Len(s)
      BY <1>1, <2>1
    <3> QED
      BY <1>6, <3>1 DEF Ahead
  <2>2. ASSUME n < Len(t) PROVE t[n + 1].k \in {"part", "line"}
    <3>1. n + 1 \in 1..Len(t) /\ n < Len(s)
      BY <1>1, <2>2
    <3> QED
      BY <1>6, <3>1 DEF Ahead
  <2> QED
    BY <2>1, <2>2 DEF Ahead
<1> QED
  BY <1>2, <1>4, <1>5, <1>6

-----------------------------------------------------------------------------
(* What is unread, after a step. *)
LEMMA UnreadIn ==
  ASSUME StoreB
  PROVE  /\ Unread \in Seq(UnitSet)
         /\ peer # "open" => Unread = buf \o net /\ buf \o net \in Seq(UnitSet)
<1>1. buf \in Seq(UnitSet) /\ net \in Seq(UnitSet) /\ todo \in Seq(UnitSet)
  BY DEF StoreB
<1>2. (IF peer = "open" THEN todo ELSE <<>>) \in Seq(UnitSet)
  BY <1>1
<1>3. buf \o net \in Seq(UnitSet)
  BY <1>1, ConcatProperties
<1>4. peer # "open" => (IF peer = "open" THEN todo ELSE <<>>) = <<>>
  OBVIOUS
<1>5. (buf \o net) \o <<>> = buf \o net
  BY <1>3, ConcatEmptySeq
<1> DEFINE rest == IF peer = "open" THEN todo ELSE <<>>
<1>6. rest \in Seq(UnitSet)
  BY <1>2
<1> HIDE DEF rest
<1>7. (buf \o net) \o rest \in Seq(UnitSet)
  BY <1>3, <1>6, ConcatProperties
<1>8. Unread = (buf \o net) \o rest
  BY DEF Unread, rest
<1>9. peer # "open" => rest = <<>>
  BY DEF rest
<1> QED
  BY <1>3, <1>5, <1>7, <1>8, <1>9

LEMMA UnreadSame == ASSUME UNCHANGED <<client, net, buf>> PROVE Unread' = Unread
BY DEF Unread, client

(* Units are taken from the front. *)
LEMMA Sucked ==
  ASSUME NEW a \in Seq(UnitSet), NEW b \in Seq(UnitSet), NEW n \in 0..Len(a)
  PROVE  Rest(a, n) \o b = Rest(a \o b, n)
<1> DEFINE x == Rest(a, n)
           z == a \o b
           y == Rest(z, n)
<1>1. /\ Len(a) \in Nat /\ Len(b) \in Nat /\ z \in Seq(UnitSet) /\ Len(z) = Len(a) + Len(b)
      /\ \A i \in 1..(Len(a) + Len(b)) : z[i] = IF i <= Len(a) THEN a[i] ELSE b[i - Len(a)]
  BY ConcatProperties
<1> HIDE DEF z
<1>2. n \in 0..Len(z)
  BY <1>1
<1>3. /\ x \in Seq(UnitSet) /\ Len(x) = Len(a) - n /\ Len(x) \in Nat
      /\ \A i \in 1..Len(x) : x[i] = a[i + n]
  BY RestIs
<1> DEFINE S == UnitSet
<1>9. z \in Seq(S)
  BY <1>1
<1> HIDE DEF S
<1>4. /\ y \in Seq(S) /\ Len(y) = Len(z) - n /\ Len(y) \in Nat
      /\ \A i \in 1..Len(y) : y[i] = z[i + n]
  BY <1>2, <1>9, RestIs
<1> HIDE DEF x, y
<1>5. /\ x \o b \in Seq(UnitSet) /\ Len(x \o b) = Len(x) + Len(b)
      /\ \A i \in 1..(Len(x) + Len(b)) : (x \o b)[i] = IF i <= Len(x) THEN x[i] ELSE b[i - Len(x)]
  BY <1>3, ConcatProperties
<1>6. Len(x \o b) = Len(y)
  BY <1>1, <1>3, <1>4, <1>5
<1>7. ASSUME NEW i \in 1..Len(x \o b) PROVE (x \o b)[i] = y[i]
  <2>1. i \in 1..Len(y) /\ i \in 1..(Len(x) + Len(b)) /\ i + n \in 1..(Len(a) + Len(b))
    BY <1>1, <1>3, <1>5, <1>6
  <2>6. y[i] = z[i + n]
    BY <1>4, <2>1
  <2>2. y[i] = IF i + n <= Len(a) THEN a[i + n] ELSE b[i + n - Len(a)]
    BY <1>1, <2>1, <2>6
  <2>3. (x \o b)[i] = IF i <= Len(x) THEN x[i] ELSE b[i - Len(x)]
    BY <1>5, <2>1
  <2>4. CASE i <= Len(x)
    <3>1. i \in 1..Len(x) /\ i + n <= Len(a)
      BY <1>1, <1>3, <2>1, <2>4
    <3>2. x[i] = a[i + n]
      BY <1>3, <3>1
    <3> QED
      BY <2>2, <2>3, <2>4, <3>1, <3>2
  <2>5. CASE ~(i <= Len(x))
    <3>1. ~(i + n <= Len(a)) /\ i - Len(x) = i + n - Len(a)
      BY <1>1, <1>3, <2>1, <2>5
    <3> QED
      BY <2>2, <2>3, <2>5, <3>1
  <2> QED
    BY <2>4, <2>5
<1>8. x \o b = y
  BY <1>4, <1>5, <1>6, <1>7, SeqEqual DEF S
<1> QED
  BY <1>8 DEF x, y, z

(* The buffer is filled, a part of it is used, and units are read past it. *)
LEMMA UnreadFilled ==
  ASSUME StoreB, NEW n \in 0..Len(net), buf = <<>>, buf' = First(net, n),
         net' = Rest(net, n), UNCHANGED client
  PROVE  Unread' = Unread
<1> DEFINE rest == IF peer = "open" THEN todo ELSE <<>>
<1>1. Len(net) \in Nat /\ net \in Seq(UnitSet)
  BY DEF StoreB
<1>7. /\ 1 \in 1..(Len(net) + 1) /\ n \in (1 - 1)..Len(net) /\ Len(net) \in n..Len(net)
  BY <1>1
<1>2. SubSeq(net, 1, n) \o SubSeq(net, n + 1, Len(net)) = SubSeq(net, 1, Len(net))
  BY <1>1, <1>7, ConcatAdjacentSubSeq
<1>3. SubSeq(net, 1, Len(net)) = net /\ <<>> \o net = net
  BY <1>1, SubSeqFull, ConcatEmptySeq
<1>8. buf' = SubSeq(net, 1, n) /\ net' = SubSeq(net, n + 1, Len(net))
  BY DEF First, Rest
<1>4. buf' \o net' = buf \o net
  BY <1>2, <1>3, <1>8, Zenon
<1>5. Unread = (buf \o net) \o rest
  BY DEF Unread
<1>6. Unread' = (buf' \o net') \o rest
  BY DEF Unread, client
<1> QED
  BY <1>4, <1>5, <1>6, Zenon

LEMMA UnreadEaten ==
  ASSUME StoreB, NEW n \in 0..Len(buf), buf' = Rest(buf, n), UNCHANGED <<client, net>>
  PROVE  Unread' = Rest(Unread, n) /\ n \in 0..Len(Unread)
<1> DEFINE rest == IF peer = "open" THEN todo ELSE <<>>
<1>1. buf \in Seq(UnitSet) /\ net \in Seq(UnitSet) /\ rest \in Seq(UnitSet)
  BY DEF StoreB
<1>2. Unread = (buf \o net) \o rest /\ Unread' = (buf' \o net) \o rest
  BY DEF Unread, client
<1> HIDE DEF rest
<1>3. buf \o net \in Seq(UnitSet) /\ Len(buf \o net) = Len(buf) + Len(net)
      /\ Len(buf) \in Nat /\ Len(net) \in Nat /\ Len(rest) \in Nat
  BY <1>1, ConcatProperties
<1>4. Len((buf \o net) \o rest) = Len(buf \o net) + Len(rest)
  BY <1>1, <1>3, ConcatProperties
<1>5. buf' \o net = Rest(buf \o net, n)
  BY <1>1, Sucked
<1>6. n \in 0..Len(buf \o net) /\ n \in 0..Len(Unread)
  BY <1>2, <1>3, <1>4
<1>7. Rest(buf \o net, n) \o rest = Rest((buf \o net) \o rest, n)
  BY <1>1, <1>3, <1>6, Sucked
<1> QED
  BY <1>2, <1>5, <1>6, <1>7

LEMMA UnreadDrained ==
  ASSUME StoreB, NEW n \in 0..Len(net), buf = <<>>, net' = Rest(net, n), UNCHANGED <<client, buf>>
  PROVE  Unread' = Rest(Unread, n) /\ n \in 0..Len(Unread)
<1> DEFINE rest == IF peer = "open" THEN todo ELSE <<>>
<1>1. net \in Seq(UnitSet) /\ rest \in Seq(UnitSet) /\ net' \in Seq(UnitSet)
  BY Taken DEF StoreB
<1>2. Unread = (<<>> \o net) \o rest /\ Unread' = (<<>> \o net') \o rest
  BY DEF Unread, client
<1> HIDE DEF rest
<1>3. <<>> \o net = net /\ <<>> \o net' = net'
  BY <1>1, ConcatEmptySeq
<1>4. Rest(net, n) \o rest = Rest(net \o rest, n)
  BY <1>1, Sucked
<1>5. Len(net) \in Nat /\ Len(rest) \in Nat /\ Len(net \o rest) = Len(net) + Len(rest)
  BY <1>1, ConcatProperties
<1> QED
  BY <1>2, <1>3, <1>4, <1>5

(* One unit is parsed. *)
LEMMA UnreadParsed ==
  ASSUME StoreB, buf # <<>>, buf' = Tail(buf), UNCHANGED <<client, net>>
  PROVE  Unread' = Rest(Unread, 1) /\ Unread # <<>> /\ Unread[1] = Head(buf)
<1>1. buf \in Seq(UnitSet) /\ net \in Seq(UnitSet) /\ Unread \in Seq(UnitSet)
  BY UnreadIn DEF StoreB
<1>2. Len(buf) \in Nat /\ Len(buf) >= 1
  BY <1>1, EmptySeq
<1>3. buf' = Rest(buf, 1)
  BY <1>1, TailIsSubSeq DEF Rest
<1>4. 1 \in 0..Len(buf)
  BY <1>2
<1>5. Unread' = Rest(Unread, 1) /\ 1 \in 0..Len(Unread)
  BY <1>3, <1>4, UnreadEaten
<1>6. Unread # <<>>
  BY <1>1, <1>5, EmptySeq
<1> DEFINE rest == IF peer = "open" THEN todo ELSE <<>>
<1>7. Unread = (buf \o net) \o rest /\ rest \in Seq(UnitSet)
  BY DEF Unread, StoreB
<1> HIDE DEF rest
<1>8. /\ buf \o net \in Seq(UnitSet) /\ Len(buf \o net) = Len(buf) + Len(net) /\ Len(net) \in Nat
      /\ \A i \in 1..(Len(buf) + Len(net)) :
           (buf \o net)[i] = IF i <= Len(buf) THEN buf[i] ELSE net[i - Len(buf)]
  BY <1>1, ConcatProperties
<1> DEFINE z == buf \o net
<1> HIDE DEF z
<1>9. \A i \in 1..(Len(z) + Len(rest)) :
        (z \o rest)[i] = IF i <= Len(z) THEN z[i] ELSE rest[i - Len(z)]
  BY <1>7, <1>8, ConcatProperties DEF z
<1>10. Len(z) \in Nat /\ Len(z) >= 1 /\ Len(rest) \in Nat
  BY <1>2, <1>7, <1>8 DEF z
<1>11. (z \o rest)[1] = z[1]
  BY <1>9, <1>10
<1>12. z[1] = buf[1]
  BY <1>2, <1>8 DEF z
<1>13. buf[1] = Head(buf)
  BY <1>1
<1> QED
  BY <1>5, <1>6, <1>7, <1>11, <1>12, <1>13 DEF z
-----------------------------------------------------------------------------
(* The function that runs, and the clause of the one that runs next. *)
LEMMA Runs2 ==
  ASSUME IInv, FInv, NEW f, Top(f)
  PROVE  \E t \in Stacks : t = Tail(stack) /\ c.open /\ Facts(f, t) /\ General /\ Clause(f, t)
<1>1. PICK t \in Stacks : t = Tail(stack) /\ c.open /\ Facts(f, t)
  BY Running
<1>2. stack # <<>> /\ Head(stack) = f
  BY DEF Top
<1>3. General /\ Clause(f, t)
  BY <1>1, <1>2 DEF FInv
<1> QED
  BY <1>1, <1>3

LEMMA Goes2 ==
  ASSUME NEW f \in Names, NEW t \in Stacks, stack' = Push(f, t), General', Clause(f, t)'
  PROVE  FInv'
<1>1. stack' # <<>> /\ Head(stack') = f /\ Tail(stack') = t
  BY Pushed
<1> QED
  BY <1>1 DEF FInv

LEMMA Rests2 ==
  ASSUME stack' = K0, General', Resting'
  PROVE  FInv'
BY DEF FInv, K0

LEMMA Closed2 == ASSUME ~c'.open PROVE FInv'
BY DEF FInv

(* A return to one of the functions that end nothing. *)
LEMMA Back2 ==
  ASSUME NEW k \in Konts, stack' = k, General', Settled',
         k = K0 => c'.handler \in {"request", "lingering"}
  PROVE  FInv'
<1>1. CASE k = K0
  <2>1. Resting'
    BY <1>1 DEF Resting
  <2> QED
    BY <1>1, <2>1, Rests2
<1>2. CASE k # K0
  <2>1. \E f \in {"posted", "body_ok"}, t \in Stacks : k = Push(f, t)
    BY <1>2, Frames DEF Konts, K1, K2, K3, K4
  <2>2. PICK f \in {"posted", "body_ok"}, t \in Stacks : k = Push(f, t)
    BY <2>1
  <2>3. Clause(f, t)'
    BY DEF Clause
  <2> QED
    BY <2>2, <2>3, Goes2 DEF Names
<1> QED
  BY <1>1, <1>2

(* Functions with nothing to keep, and with one thing. *)
Plain == {"content", "read_body", "do_read", "too_large", "terminate", "close_connection",
          "set_lingering", "lingering"}
LEMMA Plain2 ==
  ASSUME NEW f \in Plain, NEW t \in Stacks, stack' = Push(f, t), General'
  PROVE  FInv'
<1>1. Clause(f, t)'
  BY DEF Clause, Plain, Handlers
<1> QED
  BY <1>1, Goes2 DEF Plain, Names, Readers

LEMMA Handles2 ==
  ASSUME NEW f \in {"request", "write", "posted", "body_ok"} \cup Handlers, NEW t \in Stacks,
         stack' = Push(f, t), General', Settled'
  PROVE  FInv'
<1>1. Clause(f, t)'
  BY DEF Clause, Handlers
<1> QED
  BY <1>1, Goes2 DEF Handlers, Names, Readers

LEMMA Ends2 ==
  ASSUME NEW t \in Stacks, stack' = Push("close_request", t), General', r'.count # 1 => Settled'
  PROVE  FInv'
<1>1. Clause("close_request", t)'
  BY DEF Clause, Handlers
<1> QED
  BY <1>1, Goes2 DEF Names

LEMMA Outputs2 ==
  ASSUME NEW t \in Stacks, stack' = Push("output", t), General', Left'
  PROVE  FInv'
<1>1. Clause("output", t)'
  BY DEF Clause, Handlers
<1> QED
  BY <1>1, Goes2 DEF Names

LEMMA Finalizes2 ==
  ASSUME NEW t \in Stacks, stack' = Push("finalize", t), General',
         c'.handler \in {"line", "headers", "request"},
         rc' = "DONE" => c'.handler = "request" /\ Settled' /\ (r'.count = 1 => Spent'),
         rc' \in {"OK", "AGAIN"} => Left', Refused'
  PROVE  FInv'
<1>1. Clause("finalize", t)'
  BY DEF Clause, Handlers
<1> QED
  BY <1>1, Goes2 DEF Names

-----------------------------------------------------------------------------
(* What a step keeps that leaves the text alone. *)
Still == UNCHANGED <<client, net, buf>>
StillR ==
  r'.rest = r.rest /\ (r'.keepalive => r.keepalive) /\ (r.reading_body => r'.reading_body)
Steady ==
  /\ c'.handler = c.handler /\ (r'.live => r.live) /\ r'.q = r.q /\ r'.rest = r.rest
  /\ r'.keepalive => r.keepalive
  /\ Asked' => Asked
  /\ r'.reh = "unbuffered" => r.reh = "unbuffered" /\ (r.reading_body => r'.reading_body)

LEMMA TextKept ==
  ASSUME Still
  PROVE  /\ Unread' = Unread /\ Ended' = Ended /\ Starts' = Starts /\ peer' = peer
         /\ r'.q = r.q => Header' = Header /\ HeadRead' = HeadRead
<1>1. Unread' = Unread /\ peer' = peer /\ script' = script /\ net' = net /\ buf' = buf
  BY UnreadSame DEF Still, client
<1>2. Ended' = Ended /\ Starts' = Starts
  BY <1>1 DEF Ended, Starts, Begins
<1>3. r'.q = r.q => Header' = Header
  BY <1>1 DEF Header, Heads
<1>4. r'.q = r.q => HeadRead' = HeadRead
  BY <1>1 DEF HeadRead, Ahead, BodyLen, Size, Body
<1> QED
  BY <1>1, <1>2, <1>3, <1>4

LEMMA SpentKept == ASSUME Spent, Still, StillR PROVE Spent'
<1>1. Ended' = Ended /\ peer' = peer
  BY TextKept
<1> QED
  BY <1>1 DEF Spent, StillR

LEMMA LeftKept ==
  ASSUME Left, Still, StillR, r.discard_body => r'.discard_body
  PROVE  Left'
<1>1. Spent => Spent'
  BY SpentKept
<1> QED
  BY <1>1 DEF Left

LEMMA SettledKept ==
  ASSUME Settled, Still, StillR, r.discard_body => r'.discard_body, c'.handler = c.handler,
         r'.live => r.live, r.reh = "body" => r'.reh = "body", r.posted => r'.posted
  PROVE  Settled'
<1>1. Left => Left'
  BY LeftKept
<1> QED
  BY <1>1 DEF Settled

LEMMA FormKept ==
  ASSUME Form, Unread' = Unread, peer' = peer, script' = script,
         c'.handler # "lingering" => c.handler # "lingering"
  PROVE  Form'
BY DEF Form, Framed, Follows, BodyLen, Size, Body

LEMMA GeneralKept == ASSUME General, Still, Steady PROVE General'
<1>1. Unread' = Unread /\ peer' = peer /\ buf' = buf /\ script' = script
  BY TextKept DEF Still, client
<1>2. Form'
  BY <1>1, FormKept DEF General, Steady
<1>3. Bodies'
  BY <1>1 DEF General, Steady, Bodies, Ahead, Size
<1>4. Emptied'
  BY <1>1 DEF General, Steady, Emptied
<1>5. c'.handler \in {"wait", "keepalive"} => buf' = <<>>
  BY <1>1 DEF General, Steady
<1>6. c'.handler \in {"line", "headers"} => ~r'.keepalive
  BY DEF General, Steady
<1>7. r'.live /\ r'.reh = "unbuffered" => r'.reading_body
  BY DEF General, Steady
<1> QED
  BY <1>2, <1>3, <1>4, <1>5, <1>6, <1>7 DEF General

(* A step that leaves the request alone too. *)
LEMMA Same2 ==
  ASSUME Still, r' = r, c'.handler = c.handler
  PROVE  /\ General => General'
         /\ Settled' = Settled /\ Left' = Left /\ Spent' = Spent
         /\ Header' = Header /\ HeadRead' = HeadRead /\ Starts' = Starts
<1>1. Steady /\ StillR
  BY DEF Steady, StillR, Asked
<1>2. General => General'
  BY <1>1, GeneralKept
<1>3. /\ peer' = peer /\ Ended' = Ended /\ Starts' = Starts /\ Header' = Header
      /\ HeadRead' = HeadRead
  BY TextKept
<1>4. Spent' = Spent
  BY <1>3 DEF Spent
<1>5. Left' = Left
  BY <1>4 DEF Left
<1>6. Settled' = Settled
  BY <1>5 DEF Settled
<1> QED
  BY <1>2, <1>3, <1>4, <1>5, <1>6

-----------------------------------------------------------------------------
(* The client. *)
(* What a longer text promised, a beginning of it still does. *)
LEMMA Weaker2 ==
  ASSUME FInv, UNCHANGED <<c, r, rc, buf, stack, script>>,
         Form => Form', Bodies => Bodies', Spent => Spent', Starts => Starts',
         Header => Header', HeadRead => HeadRead'
  PROVE  FInv'
<1>1. General => General'
  BY DEF General, Emptied, Asked
<1>2. Left => Left'
  BY DEF Left
<1>3. Settled => Settled'
  BY <1>2 DEF Settled
<1>4. Refused => Refused'
  BY DEF Refused
<1>5. Resting => Resting'
  BY <1>3 DEF Resting
<1>6. ASSUME NEW f, NEW t, Clause(f, t) PROVE Clause(f, t)'
  BY <1>2, <1>3, <1>4, <1>6 DEF Clause
<1> QED
  BY <1>1, <1>5, <1>6 DEF FInv

Joined2(a, b) == a \o b
LEMMA Regrouped2 ==
  ASSUME NEW S, NEW a \in Seq(S), NEW b \in Seq(S), NEW d \in Seq(S)
  PROVE  Joined2(Joined2(a, b), d) = Joined2(a, Joined2(b, d))
BY ConcatAssociative, SMTT(20) DEF Joined2

LEMMA Sent2 ==
  ASSUME NEW S, NEW a \in Seq(S), NEW b \in Seq(S), NEW d \in Seq(S), d # <<>>
  PROVE  Joined2(Joined2(a, Append(b, Head(d))), Tail(d)) = Joined2(Joined2(a, b), d)
<1> DEFINE h == <<Head(d)>>
           x == Tail(d)
           y == Append(b, Head(d))
<1>1. Head(d) \in S /\ x \in Seq(S) /\ y \in Seq(S)
  BY HeadTailProperties, AppendProperties
<1>2. h \in Seq(S)
  BY <1>1
<1>3. y = Joined2(b, h)
  BY <1>1, AppendIsConcat DEF Joined2
<1>4. Joined2(h, x) = d
  BY <1>1 DEF Joined2
<1> HIDE DEF h, x, y
<1>6. Joined2(Joined2(a, y), x) = Joined2(a, Joined2(y, x))
  BY <1>1, Regrouped2
<1>7. Joined2(Joined2(b, h), x) = Joined2(b, Joined2(h, x))
  BY <1>1, <1>2, Regrouped2
<1>8. Joined2(a, Joined2(b, d)) = Joined2(Joined2(a, b), d)
  BY Regrouped2
<1>9. Joined2(Joined2(a, y), x) = Joined2(Joined2(a, b), d)
  BY <1>3, <1>4, <1>6, <1>7, <1>8, Zenon
<1> QED
  BY <1>9 DEF x, y

LEMMA ClientSends2 == ASSUME IInv, FInv, ClientSends PROVE FInv'
<1>1. peer = "open" /\ peer' = "open" /\ script' = script
  BY DEF ClientSends
<1>2. UNCHANGED <<c, r, rc, buf, stack, script>>
  BY DEF ClientSends
<1>3. buf \in Seq(UnitSet) /\ net \in Seq(UnitSet) /\ todo \in Seq(UnitSet) /\ todo # <<>>
  BY DEF IInv, Store, StoreB, ClientSends
<1>4. Unread' = Unread
  <2>1. /\ Unread = Joined2(Joined2(buf, net), todo)
        /\ Unread' = Joined2(Joined2(buf', net'), todo')
    BY <1>1, <1>2 DEF Unread, Joined2
  <2>2. net' = Append(net, Head(todo)) /\ todo' = Tail(todo) /\ buf' = buf
    BY <1>2 DEF ClientSends
  <2>3. Joined2(Joined2(buf, Append(net, Head(todo))), Tail(todo))
          = Joined2(Joined2(buf, net), todo)
    BY <1>3, Sent2
  <2> QED
    BY <2>1, <2>2, <2>3, Zenon
<1>5. Ended' = Ended
  BY <1>1 DEF Ended
<1>6. Form => Form'
  BY <1>1, <1>2, <1>4, FormKept
<1>7. Bodies => Bodies'
  BY <1>1, <1>2, <1>4 DEF Bodies, Ahead, Size
<1>8. Spent => Spent'
  BY <1>1, <1>2, <1>5 DEF Spent
<1>9. (Starts => Starts') /\ (Header => Header')
  BY <1>1, <1>2, <1>4 DEF Starts, Begins, Header, Heads
<1>10. HeadRead => HeadRead'
  BY <1>1, <1>2, <1>4 DEF HeadRead, Ahead, BodyLen, Size, Body
<1> QED
  BY <1>2, <1>6, <1>7, <1>8, <1>9, <1>10, Weaker2

LEMMA ClientCloses2 ==
  ASSUME IInv, FInv, NEW how \in {"fin", "reset"}, ClientCloses(how)
  PROVE  FInv'
<1>1. UNCHANGED <<c, r, rc, buf, stack, script>> /\ peer' = how
  BY DEF ClientCloses
<1>2. CASE how = "reset"
  <2>1. peer' = "reset"
    BY <1>1, <1>2
  <2>2. Form' /\ Bodies' /\ Spent' /\ Starts' /\ Header' /\ HeadRead'
    BY <2>1 DEF Form, Bodies, Spent, Starts, Header, HeadRead
  <2> QED
    BY <1>1, <2>2, Weaker2
<1>3. CASE how = "fin"
  <2>1. peer = "open" /\ peer' = "fin" /\ net' = net /\ script' = script
    BY <1>1, <1>3 DEF ClientCloses
  <2> DEFINE s == Unread
             z == buf \o net
  <2>2. StoreB
    BY DEF IInv, Store
  <2>3. script \in Seq(Requests) /\ s \in Seq(UnitSet) /\ todo \in Seq(UnitSet)
    BY <2>2, UnreadIn DEF StoreB
  <2>4. z \in Seq(UnitSet)
    BY <2>2, ConcatProperties DEF StoreB
  <2>5. Unread' = z
    BY <1>1, <2>1, <2>4, ConcatEmptySeq DEF Unread
  <2>6. s = z \o todo
    BY <2>1 DEF Unread
  <2> HIDE DEF z, s
  <2>7. /\ Len(z) \in Nat /\ Len(todo) \in Nat /\ Len(s) = Len(z) + Len(todo)
        /\ \A i \in 1..(Len(z) + Len(todo)) : s[i] = IF i <= Len(z) THEN z[i] ELSE todo[i - Len(z)]
    BY <2>3, <2>4, <2>6, ConcatProperties
  <2>8. Len(z) <= Len(s) /\ \A i \in 1..Len(z) : z[i] = s[i]
    BY <2>7
  <2>9. /\ Framed(s) => Framed(z)
        /\ Begins(s) => Begins(z)
        /\ \A q : Heads(s, q) => Heads(z, q)
        /\ \A n \in Nat : \A q : Ahead(s, n, q) => Ahead(z, n, q)
    BY <2>3, <2>4, <2>8, Cut
  <2>10. Form => Form'
    <3>1. Framed(Unread)' <=> Framed(z)
      BY <1>1, <2>1, <2>5 DEF Framed, Follows, BodyLen, Size, Body
    <3> QED
      BY <1>1, <2>1, <2>5, <2>9, <3>1 DEF Form, s
  <2>11. Bodies => Bodies'
    <3>1. Size(r.rest) \in Nat
      BY DEF IInv, Store, StoreR, Size
    <3>2. Ahead(s, Size(r.rest), r.q) => Ahead(z, Size(r.rest), r.q)
      BY <2>9, <3>1
    <3> QED
      BY <1>1, <2>1, <2>5, <3>2 DEF Bodies, s, Ahead
  <2>12. Spent => Spent'
    BY <1>1, <2>1 DEF Spent, Ended
  <2>13. (Starts => Starts') /\ (Header => Header')
    BY <1>1, <2>1, <2>5, <2>9 DEF Starts, Header, s, Begins, Heads
  <2>14. HeadRead => HeadRead'
    <3>1. BodyLen(r.q)' = BodyLen(r.q) /\ r' = r
      BY <1>1 DEF BodyLen, Size, Body
    <3>2. Ahead(Unread, BodyLen(r.q), r.q)' <=> Ahead(z, BodyLen(r.q), r.q)
      BY <2>5, <3>1 DEF Ahead
    <3>3. r.q \in 1..Len(script) => BodyLen(r.q) \in Nat
      BY <2>3, BodyLenOf
    <3>4. r.q \in 1..Len(script) =>
            (Ahead(s, BodyLen(r.q), r.q) => Ahead(z, BodyLen(r.q), r.q))
      BY <2>9, <3>3
    <3>5. HeadRead <=> (r.q \in 1..Len(script) => Ahead(s, BodyLen(r.q), r.q))
      BY <2>1 DEF HeadRead, s
    <3>6. HeadRead' <=> (r.q \in 1..Len(script) => Ahead(Unread, BodyLen(r.q), r.q)')
      BY <2>1, <3>1 DEF HeadRead
    <3> QED
      BY <3>2, <3>4, <3>5, <3>6
  <2> QED
    BY <1>1, <2>10, <2>11, <2>12, <2>13, <2>14, Weaker2
<1> QED
  BY <1>2, <1>3
-----------------------------------------------------------------------------
(* The events. *)
LEMMA Called2 ==
  ASSUME IInv, FInv, AtRest, Still, r' = r, c'.handler = c.handler,
         stack' = <<c.handler>>
  PROVE  FInv'
<1>1. General /\ Resting /\ c.handler \in Readers
  BY DEF AtRest, FInv, IInv, Store, StoreC
<1>2. General'
  BY <1>1, Same2
<1>3. Resting'
  <2>1. Settled' = Settled /\ Header' = Header /\ Starts' = Starts
    BY Same2
  <2> QED
    BY <1>1, <2>1 DEF Resting
<1>4. PICK f \in Readers : f = c.handler
  BY <1>1
<1>5. f \in Names
  BY DEF Names
<1>6. <<f>> = Push(f, K0)
  BY <1>5, Base
<1>7. Clause(f, K0)'
  <2>1. c'.handler = f
    BY <1>4
  <2> QED
    BY <1>3, <2>1 DEF Clause, Resting, Readers, Handlers
<1>8. stack' = Push(f, K0)
  BY <1>4, <1>6
<1> QED
  BY <1>2, <1>5, <1>7, <1>8, Frames, Goes2

LEMMA Readable2 == ASSUME IInv, FInv, Readable PROVE FInv'
<1>1. DOMAIN c = CFields
  BY DEF IInv, Store, StoreC
<1>2. c'.handler = c.handler
  BY <1>1 DEF Readable, CFields
<1>3. AtRest /\ Still /\ r' = r /\ stack' = <<c.handler>>
  BY DEF Readable, Still
<1> QED
  BY <1>2, <1>3, Called2

LEMMA PostedEvent2 == ASSUME IInv, FInv, PostedEvent PROVE FInv'
<1>1. DOMAIN c = CFields
  BY DEF IInv, Store, StoreC
<1>2. c'.handler = c.handler
  BY <1>1 DEF PostedEvent, CFields
<1>3. AtRest /\ Still /\ r' = r /\ stack' = <<c.handler>>
  BY DEF PostedEvent, Still
<1> QED
  BY <1>2, <1>3, Called2

LEMMA ReadTimer2 == ASSUME IInv, FInv, ReadTimer PROVE FInv'
<1>1. DOMAIN c = CFields
  BY DEF IInv, Store, StoreC
<1>2. c'.handler = c.handler
  BY <1>1 DEF ReadTimer, CFields
<1>3. AtRest /\ Still /\ r' = r /\ stack' = <<c.handler>>
  BY DEF ReadTimer, Still
<1> QED
  BY <1>2, <1>3, Called2

LEMMA DrainConnection2 == ASSUME IInv, FInv, DrainConnection PROVE FInv'
<1>1. DOMAIN c = CFields
  BY DEF IInv, Store, StoreC
<1>2. c'.handler = c.handler
  BY <1>1 DEF DrainConnection, CFields
<1>3. AtRest /\ Still /\ r' = r /\ stack' = <<c.handler>>
  BY DEF DrainConnection, Still
<1> QED
  BY <1>2, <1>3, Called2

(* Nothing of what the invariant speaks of changes. *)
LEMMA Nothing2 ==
  ASSUME FInv, Still, UNCHANGED <<c, r, rc, stack>>
  PROVE  FInv'
<1>1. /\ General => General'
      /\ Settled' = Settled /\ Left' = Left /\ Spent' = Spent
      /\ Header' = Header /\ HeadRead' = HeadRead /\ Starts' = Starts
  BY Same2
<1>2. buf' = buf
  BY DEF Still
<1>3. Refused' = Refused
  BY <1>1 DEF Refused
<1>4. Resting => Resting'
  BY <1>1 DEF Resting
<1>5. ASSUME NEW f, NEW t, Clause(f, t) PROVE Clause(f, t)'
  BY <1>1, <1>2, <1>3, <1>5 DEF Clause
<1> QED
  BY <1>1, <1>4, <1>5 DEF FInv

LEMMA Exit2 == ASSUME IInv, FInv, Exit PROVE FInv'
<1>1. Still /\ r' = r /\ rc' = rc /\ stack = <<>>
  BY DEF Exit, Still
<1>2. ASSUME c.open /\ c.idle PROVE FInv'
  <2>1. DOMAIN c = CFields
    BY DEF IInv, Store, StoreC
  <2>2. c' = [c EXCEPT !.close = TRUE] /\ stack' = <<c.handler>>
    BY <1>2 DEF Exit
  <2>3. c'.handler = c.handler
    BY <2>1, <2>2 DEF CFields
  <2> QED
    BY <1>1, <1>2, <2>2, <2>3, Called2 DEF AtRest
<1>3. ASSUME ~(c.open /\ c.idle) PROVE FInv'
  <2>1. UNCHANGED <<c, stack>>
    BY <1>3 DEF Exit
  <2> QED
    BY <1>1, <2>1, Nothing2
<1> QED
  BY <1>2, <1>3

LEMMA AtRest2 ==
  ASSUME FInv, AtRest
  PROVE  General /\ Resting /\ Settled
BY DEF AtRest, FInv, Resting

LEMMA WriteCalled2 ==
  ASSUME IInv, FInv, AtRest, Still, r' = r, c'.handler = c.handler,
         stack' = <<"write", "posted">>
  PROVE  FInv'
<1>1. General' /\ Settled'
  BY AtRest2, Same2
<1>2. <<"write", "posted">> = Push("write", K1)
  BY Base DEF K1, Names
<1> QED
  BY <1>1, <1>2, Frames, Handles2

LEMMA Writable2 == ASSUME IInv, FInv, Writable PROVE FInv'
<1>1. AtRest /\ Still /\ r' = r /\ c' = c /\ stack' = <<"write", "posted">>
  BY DEF Writable, Still
<1> QED
  BY <1>1, WriteCalled2

LEMMA WriteTimer2 == ASSUME IInv, FInv, WriteTimer PROVE FInv'
<1>1. DOMAIN c = CFields
  BY DEF IInv, Store, StoreC
<1>2. c'.handler = c.handler
  BY <1>1 DEF WriteTimer, CFields
<1>3. AtRest /\ Still /\ r' = r
  BY DEF WriteTimer, Still
<1>4. CASE stack' = <<"write", "posted">>
  BY <1>2, <1>3, <1>4, WriteCalled2
<1>5. CASE stack' = <<>>
  <2>1. General /\ Resting
    BY <1>3, AtRest2
  <2>2. /\ General => General'
        /\ Settled' = Settled /\ Header' = Header /\ Starts' = Starts
    BY <1>2, <1>3, Same2
  <2>3. Resting'
    BY <1>2, <2>1, <2>2 DEF Resting
  <2> QED
    BY <1>5, <2>1, <2>2, <2>3, Rests2 DEF K0
<1> QED
  BY <1>4, <1>5 DEF WriteTimer

(* An answer that comes later is the last thing the request waits for. *)
LEMMA Later2 ==
  ASSUME IInv, FInv, AtRest, r.later
  PROVE  /\ c.handler = "request" /\ r.live /\ ~r.posted /\ r.request_body /\ ~r.discard_body
         /\ r.reh \in {"broken", "unbuffered"} /\ Spent
<1>1. Idle \/ Reading \/ (Held(K0, r.count) /\ Guarded) \/ Lingers(K0, r.count)
  BY AtRestIs
<1>2. Held(K0, r.count)
  BY <1>1 DEF Idle, Reading, Lingers, Fresh, NoRequest, NewRequest
<1>3. Serving /\ Watched
  BY <1>2 DEF Held
<1>4. /\ c.handler = "request" /\ r.live /\ ~r.posted /\ r.request_body /\ ~r.discard_body
      /\ r.reh \in {"broken", "unbuffered"}
  BY <1>3 DEF Serving, Watched
<1>5. Settled
  BY AtRest2
<1>6. Spent
  BY <1>4, <1>5 DEF Settled, Left
<1> QED
  BY <1>4, <1>6

LEMMA LaterDone2 == ASSUME IInv, FInv, LaterDone PROVE FInv'
<1>1. AtRest /\ r.later /\ Still /\ c' = c /\ DOMAIN r = RFields
  BY DEF LaterDone, Still, IInv, Store, StoreR
<1>2. /\ c.handler = "request" /\ r.live /\ ~r.posted /\ r.request_body /\ ~r.discard_body
      /\ r.reh \in {"broken", "unbuffered"} /\ Spent
  BY <1>1, Later2
<1>3. r' = [r EXCEPT !.later = FALSE]
  BY DEF LaterDone
<1>4. Steady /\ StillR
  BY <1>1, <1>3 DEF Steady, StillR, Asked, RFields
<1>5. General' /\ Spent'
  BY <1>1, <1>2, <1>4, AtRest2, GeneralKept, SpentKept
<1>6. CASE stack' = <<"output", "finalize", "posted">>
  <2>2. "output" \in Names /\ "finalize" \in Names /\ "posted" \in Names
    BY DEF Names
  <2>1. stack' = Push("output", Tail1)
    BY Zenon, <1>6, <2>2, Base DEF Tail1, K1
  <2> QED
    BY <1>5, <2>1, Frames, Outputs2 DEF Left
<1>7. CASE stack' = <<"finalize", "posted">> /\ rc' = "502"
  <2>1. stack' = Push("finalize", K1)
    BY <1>7, Base DEF K1, Names
  <2>2. Refused'
    BY <1>5 DEF Refused
  <2> QED
    BY <1>1, <1>2, <1>5, <1>7, <2>1, <2>2, Frames, Finalizes2
<1> QED
  BY <1>6, <1>7 DEF LaterDone

LEMMA UpstreamSendsRequest2 == ASSUME IInv, FInv, UpstreamSendsRequest PROVE FInv'
<1>1. AtRest /\ r.later /\ r.reading_body /\ Still /\ c' = c /\ DOMAIN r = RFields
  BY DEF UpstreamSendsRequest, Still, IInv, Store, StoreR
<1>2. General
  BY <1>1, AtRest2
<1>3. r' = [r EXCEPT !.reh = "unbuffered"] /\ r.reh = "broken"
  BY DEF UpstreamSendsRequest
<1>4. r'.reading_body /\ r'.reh = "unbuffered"
  BY <1>1, <1>3 DEF RFields
<1>5. General'
  <2>1. Unread' = Unread /\ peer' = peer /\ buf' = buf /\ script' = script
    BY <1>1, TextKept DEF Still, client
  <2>2. r'.live = r.live /\ r'.q = r.q /\ r'.rest = r.rest /\ (r'.keepalive <=> r.keepalive)
        /\ (Asked' => Asked)
    BY <1>1, <1>3 DEF RFields, Asked
  <2>3. Form'
    BY <1>1, <1>2, <2>1, FormKept DEF General
  <2>4. Bodies'
    BY <1>1, <1>2, <2>1, <2>2 DEF General, Bodies, Ahead, Size
  <2>5. Emptied'
    BY <1>1, <1>2, <2>1, <2>2 DEF General, Emptied
  <2> QED
    BY <1>1, <1>2, <1>4, <2>1, <2>2, <2>3, <2>4, <2>5 DEF General
<1>6. stack' = Push("do_read", Push("unbuffered_done", K1))
  BY Base DEF UpstreamSendsRequest, K1, Names
<1>7. Push("unbuffered_done", K1) \in Stacks
  BY Frames, Pushed DEF Names
<1> QED
  BY <1>5, <1>6, <1>7, Plain2 DEF Plain

LEMMA LingeringTimePasses2 == ASSUME IInv, FInv, LingeringTimePasses PROVE FInv'
<1>1. AtRest /\ Still /\ c' = c /\ stack' = <<>> /\ DOMAIN r = RFields
  BY DEF LingeringTimePasses, Still, AtRest, IInv, Store, StoreR
<1>2. r' = [r EXCEPT !.lingering_time = "passed"]
  BY DEF LingeringTimePasses
<1>3. Steady /\ StillR /\ r'.q = r.q
  BY <1>1, <1>2 DEF Steady, StillR, Asked, RFields
<1>4. r'.discard_body = r.discard_body /\ r'.live = r.live /\ r'.reh = r.reh
      /\ r'.posted = r.posted
  BY <1>1, <1>2 DEF RFields
<1>5. General /\ Resting /\ Settled
  BY <1>1, AtRest2
<1>6. General'
  BY <1>1, <1>3, <1>5, GeneralKept
<1>7. Settled'
  BY <1>1, <1>3, <1>4, <1>5, SettledKept
<1>8. Resting'
  <2>1. Starts' = Starts /\ Header' = Header
    BY <1>1, <1>3, TextKept
  <2> QED
    BY <1>1, <1>5, <1>7, <2>1 DEF Resting
<1> QED
  BY <1>1, <1>6, <1>8, Rests2 DEF K0
-----------------------------------------------------------------------------
(* The end of a request. *)
LEMMA Fields2 ==
  ASSUME IInv
  PROVE  /\ DOMAIN c = CFields /\ DOMAIN r = RFields /\ r.count \in 0..3 /\ r.rest \in Int
         /\ StoreB /\ c.handler \in Readers
         /\ r.rest < 0 => r.reh \notin {"body", "discarded", "unbuffered"}
BY DEF IInv, Store, StoreC, StoreR

LEMMA CloseConnection2 == ASSUME IInv, FInv, CloseConnection PROVE FInv'
<1>1. ~c'.open
  BY DEF CloseConnection, NewConnection
<1> QED
  BY <1>1, Closed2

LEMMA CloseRequest2 == ASSUME IInv, FInv, CloseRequest PROVE FInv'
<1>1. PICK t \in Stacks : /\ t = Tail(stack) /\ c.open /\ Facts("close_request", t)
                          /\ General /\ Clause("close_request", t)
  BY Runs2 DEF CloseRequest
<1>2. InCloseRequest(t) /\ (r.count # 1 => Settled)
  BY <1>1 DEF Facts, Clause
<1>3. Ctx(t) /\ t \in Konts /\ r.live /\ (r.count # 1 => t # K0)
  BY <1>2 DEF InCloseRequest, Ctx
<1>4. DOMAIN r = RFields /\ Still /\ c' = c
  BY Fields2 DEF CloseRequest, Still
<1>5. r' = [r EXCEPT !.count = @ - 1, !.live = (r.count # 1)]
  BY DEF CloseRequest
<1>6. Steady /\ StillR
  BY <1>3, <1>4, <1>5 DEF Steady, StillR, Asked, RFields
<1>7. r'.discard_body = r.discard_body /\ r'.reh = r.reh /\ r'.posted = r.posted
  BY <1>4, <1>5 DEF RFields
<1>8. General'
  BY <1>1, <1>4, <1>6, GeneralKept
<1>9. ASSUME r.count # 1 PROVE FInv'
  <2>1. Settled'
    BY <1>2, <1>3, <1>4, <1>6, <1>7, <1>9, SettledKept
  <2>2. stack' = t
    BY <1>1, <1>9 DEF CloseRequest, Return
  <2> QED
    BY <1>3, <1>8, <1>9, <2>1, <2>2, Back2
<1>10. ASSUME r.count = 1 PROVE FInv'
  <2>1. stack' = Push("close_connection", t)
    BY <1>1, <1>10 DEF CloseRequest, Call, Push
  <2> QED
    BY <1>8, <2>1, Plain2 DEF Plain
<1> QED
  BY <1>9, <1>10

LEMMA TerminateRequest2 == ASSUME IInv, FInv, TerminateRequest PROVE FInv'
<1>1. PICK t \in Stacks : /\ t = Tail(stack) /\ c.open /\ Facts("terminate", t)
                          /\ General /\ Clause("terminate", t)
  BY Runs2 DEF TerminateRequest
<1>2. Ctx(t) /\ r.live /\ (t = K0 <=> r.weh = "none") /\ (t = K0 => r.count = 1) /\ t \in Konts
  BY <1>1 DEF Facts, InTerminate, Ctx
<1>3. DOMAIN r = RFields /\ Still /\ c' = c
  BY Fields2 DEF TerminateRequest, Still
<1>4. ASSUME r.weh # "none" PROVE FInv'
  <2>1. r' = [r EXCEPT !.weh = "terminate", !.posted = TRUE] /\ stack' = t
    BY <1>1, <1>4 DEF TerminateRequest, Return
  <2>2. Steady
    BY <1>3, <2>1 DEF Steady, Asked, RFields
  <2>3. r'.posted
    BY <1>3, <2>1 DEF RFields
  <2>4. General' /\ Settled'
    BY <1>1, <1>3, <2>2, <2>3, GeneralKept DEF Settled
  <2> QED
    BY <1>2, <1>4, <2>1, <2>4, Back2
<1>5. ASSUME r.weh = "none" PROVE FInv'
  <2>1. r' = r /\ stack' = Push("close_request", t) /\ r.count = 1
    BY <1>1, <1>2, <1>5 DEF TerminateRequest, Call, Push
  <2>2. General'
    BY <1>1, <1>3, <2>1, Same2
  <2> QED
    BY <2>1, <2>2, Ends2
<1> QED
  BY <1>4, <1>5

LEMMA RunPostedRequests2 == ASSUME IInv, FInv, RunPostedRequests PROVE FInv'
<1>1. PICK t \in Stacks : /\ t = Tail(stack) /\ c.open /\ Facts("posted", t)
                          /\ General /\ Clause("posted", t)
  BY Runs2 DEF RunPostedRequests
<1>2. t = K0 /\ Returned(K1, r.count) /\ Settled
  BY <1>1 DEF Facts, InPosted, Clause
<1>3. DOMAIN r = RFields /\ Still /\ c' = c
  BY Fields2 DEF RunPostedRequests, Still
<1>4. ASSUME r.live /\ r.posted PROVE FInv'
  <2>1. r' = [r EXCEPT !.posted = FALSE, !.count = 1] /\ stack' = Push("close_request", t)
    BY <1>1, <1>4 DEF RunPostedRequests, Call, Push
  <2>2. Steady /\ r'.count = 1
    BY <1>3, <2>1 DEF Steady, Asked, RFields
  <2>3. General'
    BY <1>1, <1>3, <2>2, GeneralKept
  <2> QED
    BY <2>1, <2>2, <2>3, Ends2
<1>5. ASSUME ~(r.live /\ r.posted) PROVE FInv'
  <2>1. r' = r /\ stack' = t
    BY <1>1, <1>5 DEF RunPostedRequests, Return
  <2>2. General' /\ Settled'
    BY <1>1, <1>2, <1>3, <2>1, Same2
  <2>3. c.handler \in {"request", "lingering"}
    BY <1>2, <1>5 DEF Returned, Terminated, Held, Serving, Lingers
  <2> QED
    BY <1>2, <1>3, <2>1, <2>2, <2>3, AreKonts, Back2
<1> QED
  BY <1>4, <1>5

LEMMA FinalizeDone2 == ASSUME IInv, FInv, FinalizeDone PROVE FInv'
<1>1. PICK t \in Stacks : /\ t = Tail(stack) /\ c.open /\ Facts("finalize", t)
                          /\ General /\ Clause("finalize", t)
  BY Runs2 DEF FinalizeDone
<1>2. c.handler = "request" /\ Settled /\ (r.count = 1 => Spent)
  BY <1>1 DEF Clause, FinalizeDone
<1>3. Still /\ c' = c /\ r' = r /\ stack' = Push("finalize_connection", t)
  BY <1>1 DEF FinalizeDone, Still, Call, Push
<1>4. General' /\ Settled' /\ (r'.count = 1 => Spent')
  BY <1>1, <1>2, <1>3, Same2
<1>5. Clause("finalize_connection", t)'
  BY <1>2, <1>3, <1>4 DEF Clause, Handlers
<1> QED
  BY <1>3, <1>4, <1>5, Goes2 DEF Names

LEMMA FinalizeError2 == ASSUME IInv, FInv, FinalizeError PROVE FInv'
<1>1. PICK t \in Stacks : /\ t = Tail(stack) /\ c.open /\ Facts("finalize", t)
                          /\ General /\ Clause("finalize", t)
  BY Runs2 DEF FinalizeError
<1>2. Still /\ c' = c /\ r' = r /\ stack' = Push("terminate", t)
  BY <1>1 DEF FinalizeError, Still, Call, Push
<1>3. General'
  BY <1>1, <1>2, Same2
<1> QED
  BY <1>2, <1>3, Plain2 DEF Plain

LEMMA FinalizeSpecial2 == ASSUME IInv, FInv, FinalizeSpecial PROVE FInv'
<1>1. PICK t \in Stacks : /\ t = Tail(stack) /\ c.open /\ Facts("finalize", t)
                          /\ General /\ Clause("finalize", t)
  BY Runs2 DEF FinalizeSpecial
<1>2. c.handler \in {"line", "headers", "request"} /\ Refused
  BY <1>1 DEF Clause
<1>3. rc \in Special /\ Still /\ rc' = rc
  BY DEF FinalizeSpecial, Still
<1>4. Pending(t) /\ t \in Konts
  BY <1>1 DEF Facts, FinalizeSpecial, InFinalize, Ctx, Special
<1>5. DOMAIN c = CFields /\ DOMAIN r = RFields
  BY Fields2
<1>6. c'.handler = "request"
  BY <1>5 DEF FinalizeSpecial, CFields
<1>7. /\ r'.live = r.live /\ r'.q = r.q /\ r'.rest = r.rest /\ r'.reh = r.reh
      /\ r'.request_body = r.request_body /\ r'.discard_body = r.discard_body
      /\ r'.reading_body = r.reading_body
      /\ r'.keepalive => r.keepalive /\ rc \notin NoKeepalive
  BY <1>5 DEF FinalizeSpecial, RFields
<1>8. c.handler # "request" => t = K0 /\ r.rest = -1 /\ ~r.keepalive
  <2>1. t # K0 => c.handler = "request"
    BY <1>1 DEF Facts, FinalizeSpecial, InFinalize, Special
  <2>2. t = K0 => r.rest = -1
    BY <1>4 DEF Pending, Fresh
  <2>3. c.handler \in {"line", "headers"} => ~r.keepalive
    BY <1>1 DEF General
  <2> QED
    BY <1>2, <2>1, <2>2, <2>3
<1>9. General'
  <2>1. Unread' = Unread /\ peer' = peer /\ buf' = buf /\ script' = script
    BY <1>3, TextKept DEF Still, client
  <2>2. Form'
    BY <1>1, <1>2, <2>1, FormKept DEF General
  <2>3. Bodies'
    <3>2. r'.rest > 0 => c.handler = "request" /\ r.rest > 0
      BY <1>7, <1>8
    <3>3. r'.keepalive => c.handler = "request" /\ r.keepalive
      BY <1>7, <1>8
    <3>1. r'.keepalive \/ r'.rest > 0 => c.handler = "request" /\ (r.keepalive \/ r.rest > 0)
      BY <3>2, <3>3
    <3> QED
      BY <1>1, <1>7, <2>1, <3>1 DEF General, Bodies, Ahead, Size
  <2>4. Emptied'
    <3>1. r'.rest > 0 => c.handler = "request"
      BY <1>7, <1>8
    <3> QED
      BY <1>1, <1>7, <2>1, <3>1 DEF General, Emptied, Asked
  <2>5. r'.live /\ r'.reh = "unbuffered" => r'.reading_body
    BY <1>1, <1>7 DEF General
  <2> QED
    BY <1>6, <2>2, <2>3, <2>4, <2>5 DEF General
<1>10. r'.request_body => Spent'
  <2>1. StillR
    BY <1>7 DEF StillR
  <2>2. CASE rc \in NoKeepalive
    BY <1>7, <2>2 DEF Spent
  <2>3. CASE rc \notin NoKeepalive
    BY <1>2, <1>3, <1>7, <2>1, <2>3, SpentKept DEF Refused
  <2> QED
    BY <2>2, <2>3
<1>11. Clause("discard", Push("special", Chain(t)))'
  BY <1>10 DEF Clause, Handlers
<1>12. /\ "discard" \in Names /\ "special" \in Names
       /\ "output" \in Names /\ "finalize" \in Names
  BY DEF Names
<1>13. stack' = <<"discard", "special", "output", "finalize">> \o t
  BY <1>1 DEF FinalizeSpecial, Call
<1>14. stack' = Push("discard", Push("special", Chain(t)))
  BY SMT, <1>12, <1>13, Call4 DEF Chain
<1> QED
  BY <1>4, <1>9, <1>11, <1>12, <1>14, ChainIn, Goes2

LEMMA SpecialResponse2 == ASSUME IInv, FInv, SpecialResponse PROVE FInv'
<1>1. PICK t \in Stacks : /\ t = Tail(stack) /\ c.open /\ Facts("special", t)
                          /\ General /\ Clause("special", t)
  BY Runs2 DEF SpecialResponse
<1>2. PICK k \in Konts : t = Chain(k) /\ Answered(k)
  BY <1>1 DEF Facts, InSpecial
<1>3. rc = "OK" => Left
  BY <1>1 DEF Clause
<1>4. Still /\ c' = c /\ DOMAIN r = RFields /\ r' = [r EXCEPT !.keepalive = @ /\ rc = "OK"]
  BY Fields2 DEF SpecialResponse, Still
<1>5. Steady /\ StillR
  BY <1>4 DEF Steady, StillR, Asked, RFields
<1>6. r'.keepalive = (r.keepalive /\ rc = "OK") /\ r'.discard_body = r.discard_body
  BY <1>4 DEF RFields
<1>7. General'
  BY <1>1, <1>4, <1>5, GeneralKept
<1>8. Left'
  <2>1. CASE rc = "OK"
    BY <1>3, <1>4, <1>5, <1>6, <2>1, LeftKept
  <2>2. CASE rc # "OK"
    BY <1>6, <2>2 DEF Left, Spent
  <2> QED
    BY <2>1, <2>2
<1>9. stack' = Push("output", Push("finalize", k))
  BY <1>1, <1>2 DEF SpecialResponse, Return, Chain
<1> QED
  BY <1>7, <1>8, <1>9, ChainIn, Outputs2

LEMMA FinalizeBuffered2 == ASSUME IInv, FInv, FinalizeBuffered PROVE FInv'
<1>1. PICK t \in Stacks : /\ t = Tail(stack) /\ c.open /\ Facts("finalize", t)
                          /\ General /\ Clause("finalize", t)
  BY Runs2 DEF FinalizeBuffered
<1>2. t \in Konts /\ c.handler = "request"
  BY <1>1 DEF Facts, FinalizeBuffered, InFinalize, Ctx, Special
<1>3. Left
  BY <1>1 DEF Clause, FinalizeBuffered
<1>4. DOMAIN c = CFields /\ DOMAIN r = RFields /\ Still
  BY Fields2 DEF FinalizeBuffered, Still
<1>5. c'.handler = c.handler
  BY <1>4 DEF FinalizeBuffered, CFields
<1>6. /\ r'.live = r.live /\ r'.q = r.q /\ r'.rest = r.rest
      /\ r'.reh = (IF r.discard_body THEN "discarded" ELSE "test")
      /\ r'.request_body = r.request_body /\ r'.discard_body = r.discard_body
      /\ r'.reading_body = r.reading_body /\ r'.keepalive = r.keepalive
  BY <1>4 DEF FinalizeBuffered, RFields
<1>7. Steady /\ StillR
  BY <1>5, <1>6 DEF Steady, StillR, Asked
<1>8. General' /\ Left'
  BY <1>1, <1>3, <1>4, <1>6, <1>7, GeneralKept, LeftKept
<1>9. stack' = t
  BY <1>1 DEF FinalizeBuffered, Return
<1> QED
  BY <1>2, <1>5, <1>8, <1>9, Back2 DEF Settled

LEMMA FinalizeComplete2 == ASSUME IInv, FInv, FinalizeComplete PROVE FInv'
<1>1. PICK t \in Stacks : /\ t = Tail(stack) /\ c.open /\ Facts("finalize", t)
                          /\ General /\ Clause("finalize", t)
  BY Runs2 DEF FinalizeComplete
<1>2. Pending(t) /\ t \in Konts /\ c.handler = "request"
  BY <1>1 DEF Facts, FinalizeComplete, InFinalize, Ctx, Special
<1>3. Left
  BY <1>1 DEF Clause, FinalizeComplete
<1>4. DOMAIN c = CFields /\ DOMAIN r = RFields /\ Still
  BY Fields2 DEF FinalizeComplete, Still
<1>5. c'.handler = c.handler
  BY <1>4 DEF FinalizeComplete, CFields
<1>6. /\ r'.live = r.live /\ r'.q = r.q /\ r'.rest = r.rest /\ r'.reh = r.reh
      /\ r'.request_body = r.request_body /\ r'.discard_body = r.discard_body
      /\ r'.reading_body = r.reading_body /\ r'.keepalive = r.keepalive /\ r'.count = r.count
  BY <1>4 DEF FinalizeComplete, RFields
<1>7. Steady /\ StillR
  BY <1>5, <1>6 DEF Steady, StillR, Asked
<1>8. General' /\ Left' /\ Settled'
  BY <1>1, <1>3, <1>4, <1>6, <1>7, GeneralKept, LeftKept DEF Settled
<1>9. r'.count = 1 => Spent'
  <2>1. r.count = 1 => ~r.discard_body
    BY <1>2, KontIn DEF Pending, Num
  <2> QED
    BY <1>6, <1>8, <2>1 DEF Left
<1>10. CASE c.eof
  <2>1. stack' = Push("close_request", t)
    BY <1>1, <1>10 DEF FinalizeComplete, Call, Push
  <2> QED
    BY <1>8, <2>1, Ends2
<1>11. CASE ~c.eof
  <2>1. stack' = Push("finalize_connection", t)
    BY <1>1, <1>11 DEF FinalizeComplete, Call, Push
  <2>2. Clause("finalize_connection", t)'
    BY <1>2, <1>5, <1>8, <1>9 DEF Clause, Handlers
  <2> QED
    BY <1>8, <2>1, <2>2, Goes2 DEF Names
<1> QED
  BY <1>10, <1>11

LEMMA FinalizeConnectionShared2 == ASSUME IInv, FInv, FinalizeConnectionShared PROVE FInv'
<1>1. PICK t \in Stacks : /\ t = Tail(stack) /\ c.open /\ Facts("finalize_connection", t)
                          /\ General /\ Clause("finalize_connection", t)
  BY Runs2 DEF FinalizeConnectionShared
<1>2. c.handler = "request" /\ Settled
  BY <1>1 DEF Clause
<1>3. DOMAIN c = CFields /\ DOMAIN r = RFields /\ Still
  BY Fields2 DEF FinalizeConnectionShared, Still
<1>4. c'.handler = c.handler
  BY <1>3 DEF FinalizeConnectionShared, CFields
<1>5. /\ r'.live = r.live /\ r'.q = r.q /\ r'.rest = r.rest
      /\ r'.reh = (IF r.discard_body THEN "discarded" ELSE r.reh)
      /\ r'.request_body = r.request_body /\ r'.discard_body = r.discard_body
      /\ r'.reading_body = r.reading_body /\ r'.keepalive = r.keepalive
      /\ r'.posted = r.posted
  <2>1. CASE r.discard_body
    <3>1. r' = [r EXCEPT !.reh = "discarded",
                         !.lingering_time = IF @ = "none" THEN "set" ELSE @]
      BY <2>1 DEF FinalizeConnectionShared
    <3> QED
      BY <1>3, <2>1, <3>1 DEF RFields
  <2>2. CASE ~r.discard_body
    BY <2>2 DEF FinalizeConnectionShared
  <2> QED
    BY <2>1, <2>2
<1>6. Steady /\ StillR
  BY <1>4, <1>5 DEF Steady, StillR, Asked
<1>7. General'
  BY <1>1, <1>3, <1>6, GeneralKept
<1>8. Settled'
  <2>1. Left => Left'
    BY <1>3, <1>5, <1>6, LeftKept
  <2>2. r.discard_body => Left
    BY DEF Left
  <2> QED
    BY <1>2, <1>4, <1>5, <2>1, <2>2 DEF Settled
<1>9. stack' = Push("close_request", t)
  BY <1>1 DEF FinalizeConnectionShared, Call, Push
<1> QED
  BY <1>7, <1>8, <1>9, Ends2

(* A connection is kept when what follows begins a request. *)
LEMMA Begun2 ==
  ASSUME IInv, General, Spent, c.handler = "request", r.live, r.keepalive, ~r.reading_body
  PROVE  Starts
<1> SUFFICES ASSUME peer # "reset" PROVE Begins(Unread)
  BY DEF Starts
<1>1. r.rest \in Int /\ StoreB
  BY Fields2
<1>2. Unread \in Seq(UnitSet) /\ (peer # "open" => Unread = buf \o net)
  BY <1>1, UnreadIn
<1>3. CASE Ended
  <2>1. Unread = buf \o net /\ buf = <<>> /\ net = <<>>
    BY <1>2, <1>3 DEF Ended
  <2>2. Unread = <<>>
    BY <2>1, ConcatEmptySeq, EmptySeq
  <2> QED
    BY <2>2 DEF Begins
<1>4. CASE r.rest <= 0
  <2>1. Ahead(Unread, Size(r.rest), r.q)
    BY DEF General, Bodies
  <2>2. Size(r.rest) = 0
    BY <1>1, <1>4 DEF Size
  <2>3. 0 < Len(Unread) => Unread[0 + 1].k \in {"part", "line"}
    BY <2>1, <2>2 DEF Ahead
  <2>4. Unread # <<>> => 0 < Len(Unread)
    BY <1>2, EmptySeq
  <2> QED
    BY <2>3, <2>4 DEF Begins
<1> QED
  BY <1>3, <1>4 DEF Spent

LEMMA FinalizeConnectionLast2 == ASSUME IInv, FInv, FinalizeConnectionLast PROVE FInv'
<1>1. PICK t \in Stacks : /\ t = Tail(stack) /\ c.open /\ Facts("finalize_connection", t)
                          /\ General /\ Clause("finalize_connection", t)
  BY Runs2 DEF FinalizeConnectionLast
<1>2. r.count = 1 /\ r' = AfterReading
  BY DEF FinalizeConnectionLast
<1>3. c.handler = "request" /\ Spent
  BY <1>1, <1>2 DEF Clause
<1>4. r.live
  BY <1>1, <1>2 DEF Facts, InFinalizeConnection, Alone
<1>5. DOMAIN r = RFields /\ Still /\ c' = c
  BY Fields2 DEF FinalizeConnectionLast, Still
<1>6. /\ r'.live = r.live /\ r'.q = r.q /\ r'.rest = r.rest /\ r'.reh = r.reh
      /\ r'.request_body = r.request_body /\ r'.discard_body = r.discard_body
      /\ r'.reading_body = r.reading_body /\ r'.count = r.count
  BY <1>2, <1>5 DEF AfterReading, RFields
<1>7. r'.keepalive => r.keepalive /\ ~r.reading_body
  BY <1>2, <1>5 DEF AfterReading, RFields
<1>8. Steady
  BY <1>5, <1>6, <1>7 DEF Steady, Asked
<1>9. General'
  BY <1>1, <1>5, <1>8, GeneralKept
<1>10. \/ r'.keepalive /\ stack' = Push("set_keepalive", t)
       \/ stack' = Push("set_lingering", t)
       \/ stack' = Push("close_request", t)
  <2>1. CASE r'.keepalive /\ ~exiting
    BY <1>1, <2>1 DEF FinalizeConnectionLast, Call, Push
  <2>2. CASE ~(r'.keepalive /\ ~exiting) /\ (r'.lingering_close \/ buf # <<>> \/ c.ready)
    BY <1>1, <2>2 DEF FinalizeConnectionLast, Call, Push
  <2>3. CASE ~(r'.keepalive /\ ~exiting) /\ ~(r'.lingering_close \/ buf # <<>> \/ c.ready)
    BY <1>1, <2>3 DEF FinalizeConnectionLast, Call, Push
  <2> QED
    BY <2>1, <2>2, <2>3
<1>11. CASE r'.keepalive /\ stack' = Push("set_keepalive", t)
  <2>1. Starts
    BY <1>1, <1>3, <1>4, <1>7, <1>11, Begun2
  <2>2. Starts'
    BY <1>5, <2>1, TextKept
  <2>3. Clause("set_keepalive", t)'
    BY <1>3, <1>5, <2>2 DEF Clause, Handlers
  <2> QED
    BY <1>9, <1>11, <2>3, Goes2 DEF Names
<1>12. CASE stack' = Push("set_lingering", t)
  BY <1>9, <1>12, Plain2 DEF Plain
<1>13. CASE stack' = Push("close_request", t)
  BY <1>2, <1>6, <1>9, <1>13, Ends2
<1> QED
  BY <1>10, <1>11, <1>12, <1>13

-----------------------------------------------------------------------------
(* The next request, and the last bytes. *)
LEMMA Renewed2 ==
  ASSUME General, Starts, c.handler # "lingering", Unread' = Unread, UNCHANGED client,
         r' = NewRequest \/ r' = NoRequest, c'.handler \in {"keepalive", "line"},
         c'.handler = "keepalive" => buf' = <<>>
  PROVE  General' /\ Starts' /\ Settled'
<1>1. peer' = peer /\ script' = script
  BY DEF client
<1>7. Form
  BY DEF General
<1>2. Form'
  BY <1>1, <1>7, FormKept
<1>3. r'.reh = "block" /\ ~r'.keepalive
  <2>1. CASE r' = NewRequest
    BY <2>1 DEF NewRequest
  <2>2. CASE r' = NoRequest
    BY <2>2 DEF NewRequest, NoRequest
  <2> QED
    BY <2>1, <2>2
<1>4. Bodies' /\ Emptied' /\ Settled'
  BY DEF Bodies, Emptied, Settled
<1>5. Starts'
  BY <1>1 DEF Starts, Begins
<1>6. General'
  BY <1>2, <1>3, <1>4 DEF General
<1> QED
  BY <1>4, <1>5, <1>6

LEMMA SetKeepalivePipelined2 == ASSUME IInv, FInv, SetKeepalivePipelined PROVE FInv'
<1>1. PICK t \in Stacks : /\ t = Tail(stack) /\ c.open /\ Facts("set_keepalive", t)
                          /\ General /\ Clause("set_keepalive", t)
  BY Runs2 DEF SetKeepalivePipelined
<1>2. Starts /\ c.handler = "request"
  BY <1>1 DEF Clause
<1>3. r' = NewRequest /\ Still /\ stack' = <<>> /\ UNCHANGED client
  BY DEF SetKeepalivePipelined, Still
<1>4. c'.handler = "line"
  BY Fields2 DEF SetKeepalivePipelined, CFields
<1>5. Unread' = Unread
  BY <1>3, TextKept
<1>6. General' /\ Starts' /\ Settled'
  BY <1>1, <1>2, <1>3, <1>4, <1>5, Renewed2
<1> QED
  BY <1>3, <1>4, <1>6, Rests2 DEF Resting, K0

LEMMA SetKeepaliveIdle2 == ASSUME IInv, FInv, SetKeepaliveIdle PROVE FInv'
<1>1. PICK t \in Stacks : /\ t = Tail(stack) /\ c.open /\ Facts("set_keepalive", t)
                          /\ General /\ Clause("set_keepalive", t)
  BY Runs2 DEF SetKeepaliveIdle
<1>2. Starts /\ c.handler = "request"
  BY <1>1 DEF Clause
<1>3. r' = NoRequest /\ Still /\ stack' = <<>> /\ UNCHANGED client /\ buf' = <<>>
  BY DEF SetKeepaliveIdle, Still
<1>4. c'.handler = "keepalive"
  BY Fields2 DEF SetKeepaliveIdle, CFields
<1>5. Unread' = Unread
  BY <1>3, TextKept
<1>6. General' /\ Starts' /\ Settled'
  BY <1>1, <1>2, <1>3, <1>4, <1>5, Renewed2
<1> QED
  BY <1>3, <1>4, <1>6, Rests2 DEF Resting, K0

(* A connection that waits for a request: the first bytes of it are read. *)
LEMMA FirstRead2 ==
  ASSUME IInv, NEW t \in Stacks, General, Starts, c.handler \in {"wait", "keepalive"},
         NEW n, n = Min2(HeaderBuffer, Len(net)), buf' = First(net, n), net' = Rest(net, n),
         UNCHANGED client, r' = NewRequest, c'.handler = "line", stack' = Push("line", t)
  PROVE  FInv'
<1>1. StoreB /\ buf = <<>>
  BY Fields2 DEF General
<1>2. Len(net) \in Nat
  BY <1>1 DEF StoreB
<1>3. n \in 0..Len(net)
  BY <1>2, HttpConnectionAssumption DEF Min2
<1>4. Unread' = Unread
  BY <1>1, <1>3, UnreadFilled
<1>5. General' /\ Starts'
  BY <1>4, Renewed2
<1>6. Clause("line", t)'
  BY <1>5 DEF Clause, Handlers
<1> QED
  BY <1>5, <1>6, Goes2 DEF Names, Readers

LEMMA KeepaliveHandler2 == ASSUME IInv, FInv, KeepaliveHandler PROVE FInv'
<1>1. PICK t \in Stacks : /\ t = Tail(stack) /\ c.open /\ Facts("keepalive", t)
                          /\ General /\ Clause("keepalive", t)
  BY Runs2 DEF KeepaliveHandler
<1>2. Starts /\ t = K0 /\ c.handler = "keepalive"
  BY <1>1 DEF Clause, Facts, InWait
<1>3. UNCHANGED client /\ DOMAIN c = CFields
  BY Fields2 DEF KeepaliveHandler
<1>4. CASE c.rtimedout \/ c.close \/ Recv \in {"eof", "error"}
  <2>1. stack' = Push("close_connection", t) /\ Still /\ c' = c /\ r' = r
    BY <1>1, <1>4 DEF KeepaliveHandler, Call, Push, Still
  <2>2. General'
    BY <1>1, <2>1, Same2
  <2> QED
    BY <2>1, <2>2, Plain2 DEF Plain
<1>5. CASE ~(c.rtimedout \/ c.close \/ Recv \in {"eof", "error"}) /\ Recv = "again"
  <2>1. stack' = t /\ Still /\ r' = r
    BY <1>1, <1>5 DEF KeepaliveHandler, Return, Still
  <2>5. c' = AfterRecv(c)
    BY <1>5 DEF KeepaliveHandler
  <2>2. c'.handler = c.handler
    BY <1>3, <2>5 DEF AfterRecv, CFields
  <2>3. General' /\ Starts' /\ (Settled' <=> Settled)
    BY <1>1, <1>2, <2>1, <2>2, Same2
  <2>4. Resting'
    BY <1>2, <2>2, <2>3 DEF Resting, Settled
  <2> QED
    BY <1>2, <2>1, <2>3, <2>4, Rests2
<1>6. CASE ~(c.rtimedout \/ c.close \/ Recv \in {"eof", "error"}) /\ Recv # "again"
  <2> DEFINE n == Min2(HeaderBuffer, Len(net))
  <2>1. buf' = First(net, n) /\ net' = Rest(net, n) /\ r' = NewRequest
    BY <1>6 DEF KeepaliveHandler
  <2>2. stack' = Push("line", t)
    BY <1>1, <1>6 DEF KeepaliveHandler, Call, Push
  <2>3. c'.handler = "line"
    BY <1>3, <1>6 DEF KeepaliveHandler, CFields
  <2> HIDE DEF n
  <2> QED
    BY <1>1, <1>2, <1>3, <2>1, <2>2, <2>3, FirstRead2 DEF n
<1> QED
  BY <1>4, <1>5, <1>6

LEMMA WaitRequestHandler2 == ASSUME IInv, FInv, WaitRequestHandler PROVE FInv'
<1>1. PICK t \in Stacks : /\ t = Tail(stack) /\ c.open /\ Facts("wait", t)
                          /\ General /\ Clause("wait", t)
  BY Runs2 DEF WaitRequestHandler
<1>2. Starts /\ t = K0 /\ c.handler = "wait"
  BY <1>1 DEF Clause, Facts, InWait
<1>3. UNCHANGED client /\ DOMAIN c = CFields
  BY Fields2 DEF WaitRequestHandler
<1>4. CASE c.rtimedout \/ c.close \/ Recv \in {"eof", "error"}
  <2>1. stack' = Push("close_connection", t) /\ Still /\ c' = c /\ r' = r
    BY <1>1, <1>4 DEF WaitRequestHandler, Call, Push, Still
  <2>2. General'
    BY <1>1, <2>1, Same2
  <2> QED
    BY <2>1, <2>2, Plain2 DEF Plain
<1>5. CASE ~(c.rtimedout \/ c.close \/ Recv \in {"eof", "error"}) /\ Recv = "again"
  <2>1. stack' = t /\ Still /\ r' = r
    BY <1>1, <1>5 DEF WaitRequestHandler, Return, Still
  <2>5. c' = [AfterRecv(c) EXCEPT !.rtimer = TRUE, !.reusable = (@ \/ ~c.rtimer)]
    BY <1>5 DEF WaitRequestHandler
  <2>2. c'.handler = c.handler
    BY <1>3, <2>5 DEF AfterRecv, CFields
  <2>3. General' /\ Starts' /\ (Settled' <=> Settled)
    BY <1>1, <1>2, <2>1, <2>2, Same2
  <2>4. Resting'
    BY <1>2, <2>2, <2>3 DEF Resting, Settled
  <2> QED
    BY <1>2, <2>1, <2>3, <2>4, Rests2
<1>6. CASE ~(c.rtimedout \/ c.close \/ Recv \in {"eof", "error"}) /\ Recv # "again"
  <2> DEFINE n == Min2(HeaderBuffer, Len(net))
  <2>1. buf' = First(net, n) /\ net' = Rest(net, n) /\ r' = NewRequest
    BY <1>6 DEF WaitRequestHandler
  <2>2. stack' = Push("line", t)
    BY <1>1, <1>6 DEF WaitRequestHandler, Call, Push
  <2>3. c'.handler = "line"
    BY <1>3, <1>6 DEF WaitRequestHandler, CFields
  <2> HIDE DEF n
  <2> QED
    BY <1>1, <1>2, <1>3, <2>1, <2>2, <2>3, FirstRead2 DEF n
<1> QED
  BY <1>4, <1>5, <1>6

(* Nothing is promised of a connection that lingers. *)
LEMMA Lingering2 == ASSUME c'.handler = "lingering" , General, r'.reh = r.reh, r'.live => r.live,
                           r'.reading_body <=> r.reading_body
                    PROVE General' /\ Settled'
<1>1. Form' /\ Bodies' /\ Emptied' /\ Settled'
  BY DEF Form, Bodies, Emptied, Settled
<1> QED
  BY <1>1 DEF General

LEMMA SetLingeringClose2 == ASSUME IInv, FInv, SetLingeringClose PROVE FInv'
<1>1. PICK t \in Stacks : /\ t = Tail(stack) /\ c.open /\ Facts("set_lingering", t)
                          /\ General /\ Clause("set_lingering", t)
  BY Runs2 DEF SetLingeringClose
<1>2. t \in Konts /\ r.count = 1
  BY <1>1 DEF Facts, InLast, Alone, Ctx
<1>3. DOMAIN c = CFields /\ DOMAIN r = RFields
  BY Fields2
<1>4. c'.handler = "lingering"
  BY <1>3 DEF SetLingeringClose, CFields
<1>5. /\ r'.reh = r.reh /\ r'.live = r.live /\ r'.reading_body = r.reading_body
      /\ r'.count = r.count
  BY <1>3 DEF SetLingeringClose, RFields
<1>6. General' /\ Settled'
  BY <1>1, <1>4, <1>5, Lingering2
<1>7. stack' \in {t, Push("lingering", t), Push("close_request", t)}
  BY <1>1 DEF SetLingeringClose, Call, Return, Push
<1>8. CASE stack' = t
  BY <1>2, <1>4, <1>6, <1>8, Back2
<1>9. CASE stack' = Push("lingering", t)
  BY <1>6, <1>9, Plain2 DEF Plain
<1>10. CASE stack' = Push("close_request", t)
  BY <1>6, <1>10, Ends2
<1> QED
  BY <1>7, <1>8, <1>9, <1>10

LEMMA LingeringCloseHandler2 == ASSUME IInv, FInv, LingeringCloseHandler PROVE FInv'
<1>1. PICK t \in Stacks : /\ t = Tail(stack) /\ c.open /\ Facts("lingering", t)
                          /\ General /\ Clause("lingering", t)
  BY Runs2 DEF LingeringCloseHandler
<1>2. t \in Konts /\ c.handler = "lingering"
  BY <1>1 DEF Facts, InLingering, Alone, Ctx
<1>3. r' = r /\ DOMAIN c = CFields
  BY Fields2 DEF LingeringCloseHandler
<1>4. c'.handler = "lingering"
  BY <1>2, <1>3 DEF LingeringCloseHandler, CFields
<1>5. General' /\ Settled'
  BY <1>1, <1>3, <1>4, Lingering2
<1>6. stack' \in {t, Push("close_request", t)}
  BY <1>1 DEF LingeringCloseHandler, Call, Return, Push
<1>7. CASE stack' = t
  BY <1>2, <1>4, <1>5, <1>7, Back2
<1>8. CASE stack' = Push("close_request", t)
  BY <1>5, <1>8, Ends2
<1> QED
  BY <1>6, <1>7, <1>8

-----------------------------------------------------------------------------
(* The head of a request. *)
Heading(f) == (f = "line" => Starts) /\ (f = "headers" => Header)

LEMMA HeadRuns2 ==
  ASSUME IInv, FInv, Top("line") \/ Top("headers")
  PROVE  \E f \in {"line", "headers"}, t \in Stacks :
            /\ f = Head(stack) /\ t = Tail(stack) /\ stack # <<>> /\ Top(f)
            /\ t = K0 /\ Fresh /\ c.handler = f /\ General /\ Heading(f)
<1>1. PICK f \in {"line", "headers"}, t \in Stacks :
        /\ f = Head(stack) /\ t = Tail(stack) /\ stack # <<>> /\ Top(f)
        /\ c.open /\ t = K0 /\ Fresh /\ c.handler = f
  BY HeadRuns
<1>2. General /\ Clause(f, t)
  BY <1>1 DEF FInv
<1>3. Heading(f)
  BY <1>2 DEF Clause, Heading
<1> QED
  BY <1>1, <1>2, <1>3

(* The head is read on, or it is refused. *)
LEMMA HeadGeneral2 ==
  ASSUME Form', c'.handler \in {"line", "headers"}, ~r'.keepalive, r'.reh = "block"
  PROVE  General'
<1>1. Bodies' /\ Emptied'
  BY DEF Bodies, Emptied
<1> QED
  BY <1>1 DEF General

LEMMA HeadStays2 ==
  ASSUME NEW f \in {"line", "headers"}, stack' = stack, stack # <<>>, f = Head(stack),
         General', Heading(f)'
  PROVE  FInv'
<1>2. stack' # <<>> /\ Head(stack') = f
  OBVIOUS
<1>3. PICK x : x = Tail(stack)
  OBVIOUS
<1>4. Clause(f, x)'
  BY DEF Clause, Heading, Handlers
<1>5. Clause(Head(stack), Tail(stack))'
  BY <1>2, <1>3, <1>4
<1> QED
  BY <1>2, <1>5 DEF FInv

LEMMA HeadGoes2 ==
  ASSUME NEW f \in {"line", "headers"}, NEW t \in Stacks, stack' = Push(f, t),
         General', Heading(f)'
  PROVE  FInv'
<1>1. Clause(f, t)'
  BY DEF Clause, Heading, Handlers
<1> QED
  BY <1>1, Goes2 DEF Names, Readers

LEMMA HeadFails2 ==
  ASSUME stack' = Push("finalize", K0), General', c'.handler \in {"line", "headers"},
         ~r'.request_body, rc' \in Special
  PROVE  FInv'
<1>1. Refused' /\ rc' \notin {"DONE", "OK", "AGAIN"}
  BY DEF Refused, Special
<1> QED
  BY <1>1, Frames, Finalizes2

LEMMA HeadTimedOut2 == ASSUME IInv, FInv, HeadTimedOut PROVE FInv'
<1>1. PICK f \in {"line", "headers"}, t \in Stacks :
        /\ f = Head(stack) /\ t = Tail(stack) /\ stack # <<>> /\ Top(f)
        /\ t = K0 /\ Fresh /\ c.handler = f /\ General /\ Heading(f)
  BY HeadRuns2 DEF HeadTimedOut
<1>2. stack' = Push("close_request", t) /\ Still /\ r' = r /\ c' = c
  BY <1>1 DEF HeadTimedOut, Call, Push, Still
<1>3. General' /\ r'.count = 1
  BY <1>1, <1>2, Same2 DEF Fresh
<1> QED
  BY <1>2, <1>3, Ends2

LEMMA AllocLargeHeaderBuffer2 == ASSUME IInv, FInv, AllocLargeHeaderBuffer PROVE FInv'
<1>1. PICK f \in {"line", "headers"}, t \in Stacks :
        /\ f = Head(stack) /\ t = Tail(stack) /\ stack # <<>> /\ Top(f)
        /\ t = K0 /\ Fresh /\ c.handler = f /\ General /\ Heading(f)
  BY HeadRuns2 DEF AllocLargeHeaderBuffer
<1>2. Still /\ DOMAIN c = CFields /\ DOMAIN r = RFields
  BY Fields2 DEF AllocLargeHeaderBuffer, Still
<1>3. ASSUME r' = r, c'.handler = c.handler, stack' = stack PROVE FInv'
  <2>1. General' /\ Heading(f)'
    BY <1>1, <1>2, <1>3, Same2 DEF Heading
  <2> QED
    BY <1>1, <1>3, <2>1, HeadStays2
<1>4. CASE Top("line") /\ Carried = 0
  <2>1. UNCHANGED <<c, r, stack>>
    BY <1>4 DEF AllocLargeHeaderBuffer
  <2> QED
    BY <1>3, <2>1
<1>5. CASE ~(Top("line") /\ Carried = 0)
           /\ ((Carried # 0 /\ Carried >= LargeBuffer) \/ ~LargeLeft)
  <2>1. /\ rc' = (IF Top("line") THEN "414" ELSE "494")
        /\ Call(<<"finalize">>) /\ UNCHANGED <<c, room>>
    BY <1>5 DEF AllocLargeHeaderBuffer
  <2>2. r' = [r EXCEPT !.lingering_close = (@ \/ Top("headers"))]
    BY <1>5 DEF AllocLargeHeaderBuffer
  <2>3. Steady /\ ~r'.request_body
    BY <1>1, <1>2, <2>1, <2>2 DEF Steady, Asked, RFields, Fresh
  <2>4. General'
    BY <1>1, <1>2, <2>3, GeneralKept
  <2>5. stack' = Push("finalize", K0) /\ rc' \in Special
    BY <1>1, <2>1 DEF Call, Push, Special
  <2> QED
    BY <1>1, <2>1, <2>3, <2>4, <2>5, HeadFails2
<1>6. CASE ~(Top("line") /\ Carried = 0)
           /\ ~((Carried # 0 /\ Carried >= LargeBuffer) \/ ~LargeLeft)
  <2>1. r' = r /\ stack' = stack
    BY <1>6 DEF AllocLargeHeaderBuffer
  <2>2. c' = [c EXCEPT !.nfree = IF @ > 0 THEN @ - 1 ELSE 0, !.nbusy = @ + 1, !.large = TRUE]
    BY <1>6 DEF AllocLargeHeaderBuffer
  <2>3. c'.handler = c.handler
    BY <1>2, <2>2 DEF CFields
  <2> QED
    BY <1>3, <2>1, <2>3
<1> QED
  BY <1>4, <1>5, <1>6

LEMMA ReadRequestHeader2 == ASSUME IInv, FInv, ReadRequestHeader PROVE FInv'
<1>1. PICK f \in {"line", "headers"}, t \in Stacks :
        /\ f = Head(stack) /\ t = Tail(stack) /\ stack # <<>> /\ Top(f)
        /\ t = K0 /\ Fresh /\ c.handler = f /\ General /\ Heading(f)
  BY HeadRuns2 DEF ReadRequestHeader
<1>2. UNCHANGED client /\ r' = r /\ buf = <<>> /\ room > 0 /\ StoreB /\ DOMAIN c = CFields
  BY Fields2 DEF ReadRequestHeader
<1>3. ~r'.keepalive /\ r'.reh = "block" /\ ~r'.request_body
  BY <1>1, <1>2 DEF General, Fresh
<1>4. CASE c.ready /\ Recv = "data"
  <2> DEFINE n == Min2(room, Len(net))
  <2>1. buf' = First(net, n) /\ net' = Rest(net, n)
    BY <1>4 DEF ReadRequestHeader
  <2>2. c' = c /\ stack' = stack
    BY <1>4 DEF ReadRequestHeader
  <2>3. Len(net) \in Nat /\ room \in Nat
    BY <1>2, HttpConnectionAssumption DEF StoreB
  <2>4. n \in 0..Len(net)
    BY <2>3 DEF Min2
  <2> HIDE DEF n
  <2>5. Unread' = Unread
    BY <1>2, <2>1, <2>4, UnreadFilled
  <2>6. peer' = peer /\ script' = script
    BY <1>2 DEF client
  <2>7. Form
    BY <1>1 DEF General
  <2>8. Form'
    BY <2>2, <2>5, <2>6, <2>7, FormKept
  <2>9. General'
    BY <1>1, <1>3, <2>2, <2>8, HeadGeneral2
  <2>10. Heading(f)'
    BY <1>1, <1>2, <2>5, <2>6 DEF Heading, Starts, Begins, Header, Heads
  <2> QED
    BY <1>1, <2>2, <2>9, <2>10, HeadStays2
<1>5. CASE c.ready /\ Recv \in {"eof", "error"}
  <2>1. rc' = "400" /\ Call(<<"finalize">>) /\ Still
    BY <1>2, <1>5 DEF ReadRequestHeader, Still
  <2>2. c' = [[c EXCEPT !.ready = FALSE, !.eof = (@ \/ Recv = "eof")] EXCEPT !.error = TRUE]
    BY <1>5 DEF ReadRequestHeader, AfterRecv
  <2>3. c'.handler = c.handler
    BY <1>2, <2>2 DEF CFields
  <2>4. General'
    BY <1>1, <1>2, <2>1, <2>3, Same2
  <2>5. stack' = Push("finalize", K0) /\ rc' \in Special
    BY <1>1, <2>1 DEF Call, Push, Special
  <2> QED
    BY <1>1, <1>3, <2>3, <2>4, <2>5, HeadFails2
<1>6. CASE ~(c.ready /\ Recv = "data") /\ ~(c.ready /\ Recv \in {"eof", "error"})
  <2>1. c' = [c EXCEPT !.ready = FALSE, !.rtimer = TRUE] /\ stack' = K0 /\ Still
    BY <1>1, <1>2, <1>6 DEF ReadRequestHeader, Return, Still
  <2>2. c'.handler = c.handler
    BY <1>2, <2>1 DEF CFields
  <2>3. General' /\ Starts' = Starts /\ Header' = Header
    BY <1>1, <1>2, <2>1, <2>2, Same2
  <2>4. Resting'
    BY <1>1, <2>2, <2>3 DEF Resting, Heading, Settled
  <2> QED
    BY <2>1, <2>3, <2>4, Rests2
<1> QED
  BY <1>4, <1>5, <1>6

(* One unit is taken from the text. *)
LEMMA OneParsed2 ==
  ASSUME IInv, General, c.handler \in {"line", "headers"}, buf # <<>>, buf' = Tail(buf),
         UNCHANGED <<client, net>>, NEW u, u = Head(buf)
  PROVE  /\ Form' /\ u.q \in 1..Len(script)
         /\ peer # "reset" => Unread # <<>> /\ Unread[1] = u
         /\ peer # "reset" /\ u.k = "part" => Begins(Unread')
         /\ peer # "reset" /\ u.k \in {"line", "hdr"} => Heads(Unread', u.q)
         /\ peer # "reset" /\ u.k = "head" => Ahead(Unread', BodyLen(u.q), u.q)
<1>1. StoreB /\ script \in Seq(Requests) /\ peer' = peer /\ script' = script
  BY Fields2 DEF StoreB, client
<1>2. Unread' = Rest(Unread, 1) /\ Unread # <<>> /\ Unread[1] = u
  BY <1>1, UnreadParsed
<1>3. Unread \in Seq(UnitSet) /\ buf \in Seq(UnitSet)
  BY <1>1, UnreadIn DEF StoreB
<1>4. u \in UnitSet
  BY <1>3, HeadTailProperties
<1>5. u.q \in 1..Len(script)
  BY <1>4 DEF UnitSet
<1> DEFINE s == Unread
           x == Rest(s, 1)
<1>6. s \in Seq(UnitSet) /\ s # <<>> /\ s[1] = u
  BY <1>2, <1>3
<1>7. peer # "reset" => Framed(s)
  BY DEF General, Form
<1> HIDE DEF s
<1>8. peer # "reset" =>
       /\ Framed(x)
       /\ u.k = "part" => Begins(x)
       /\ u.k \in {"line", "hdr"} => Heads(x, u.q)
       /\ u.k = "head" => Ahead(x, BodyLen(u.q), u.q)
  BY <1>1, <1>6, <1>7, Next1
<1>9. Unread' = x
  BY <1>2 DEF s
<1>10. Form'
  <2>1. Framed(Unread)' <=> Framed(x)
    BY <1>1, <1>9 DEF Framed, Follows, BodyLen, Size, Body
  <2> QED
    BY <1>1, <1>8, <2>1 DEF Form
<1> QED
  BY <1>2, <1>5, <1>8, <1>9, <1>10

LEMMA ParseRequestLine2 == ASSUME IInv, FInv, ParseRequestLine PROVE FInv'
<1>1. PICK f \in {"line", "headers"}, t \in Stacks :
        /\ f = Head(stack) /\ t = Tail(stack) /\ stack # <<>> /\ Top(f)
        /\ t = K0 /\ Fresh /\ c.handler = f /\ General /\ Heading(f)
  BY HeadRuns2 DEF ParseRequestLine
<1>2. f = "line" /\ buf # <<>> /\ buf' = Tail(buf) /\ UNCHANGED <<client, net>>
  BY <1>1 DEF ParseRequestLine, Top
<1>3. DOMAIN c = CFields /\ DOMAIN r = RFields /\ peer' = peer /\ script' = script
  BY <1>2, Fields2 DEF client
<1>4. ~r.keepalive /\ r.reh = "block" /\ ~r.request_body
  BY <1>1 DEF General, Fresh
<1>5. PICK u : u = Head(buf)
  OBVIOUS
<1>6. /\ Form' /\ u.q \in 1..Len(script)
      /\ peer # "reset" /\ u.k = "part" => Begins(Unread')
      /\ peer # "reset" /\ u.k \in {"line", "hdr"} => Heads(Unread', u.q)
  BY <1>1, <1>2, <1>5, OneParsed2
<1>7. CASE u.k = "part"
  <2>1. r' = [r EXCEPT !.state = @ + 1] /\ c' = c /\ stack' = stack
    BY <1>5, <1>7 DEF ParseRequestLine
  <2>2. ~r'.keepalive /\ r'.reh = "block"
    BY <1>3, <1>4, <2>1 DEF RFields
  <2>3. General'
    BY <1>1, <1>6, <2>1, <2>2, HeadGeneral2
  <2>4. Begins(Unread)' <=> Begins(Unread')
    BY DEF Begins
  <2>5. Heading(f)'
    BY <1>2, <1>3, <1>6, <1>7, <2>4 DEF Heading, Starts
  <2> QED
    BY <1>1, <2>1, <2>3, <2>5, HeadStays2
<1>8. CASE u.k = "line" /\ script[u.q].bad # "line"
  <2>1. r' = [r EXCEPT !.state = 0, !.q = u.q]
    BY <1>5, <1>8 DEF ParseRequestLine
  <2>2. c' = [c EXCEPT !.handler = "headers"] /\ Call(<<"headers">>)
    BY <1>5, <1>8 DEF ParseRequestLine
  <2>3. ~r'.keepalive /\ r'.reh = "block" /\ r'.q = u.q /\ c'.handler = "headers"
    BY <1>3, <1>4, <2>1, <2>2 DEF RFields, CFields
  <2>4. General'
    BY <1>6, <2>3, HeadGeneral2
  <2>5. Heads(Unread, r.q)' <=> Heads(Unread', u.q)
    BY <2>3 DEF Heads
  <2>6. Heading("headers")'
    BY <1>3, <1>6, <1>8, <2>5 DEF Heading, Header
  <2>7. stack' = Push("headers", t)
    BY <1>1, <2>2 DEF Call, Push
  <2> QED
    BY <2>4, <2>6, <2>7, HeadGoes2
<1>9. CASE u.k # "part" /\ ~(u.k = "line" /\ script[u.q].bad # "line")
  <2>1. rc' = "400" /\ Call(<<"finalize">>) /\ UNCHANGED <<c, r>>
    BY <1>5, <1>9 DEF ParseRequestLine
  <2>2. General'
    BY <1>1, <1>4, <1>6, <2>1, HeadGeneral2
  <2>3. stack' = Push("finalize", K0) /\ rc' \in Special
    BY <1>1, <2>1 DEF Call, Push, Special
  <2> QED
    BY <1>1, <1>4, <2>1, <2>2, <2>3, HeadFails2
<1> QED
  BY <1>7, <1>8, <1>9

LEMMA ParseHeaderLine2 == ASSUME IInv, FInv, ParseHeaderLine PROVE FInv'
<1>1. PICK f \in {"line", "headers"}, t \in Stacks :
        /\ f = Head(stack) /\ t = Tail(stack) /\ stack # <<>> /\ Top(f)
        /\ t = K0 /\ Fresh /\ c.handler = f /\ General /\ Heading(f)
  BY HeadRuns2 DEF ParseHeaderLine
<1>2. f = "headers" /\ buf # <<>> /\ buf' = Tail(buf) /\ UNCHANGED <<client, net>>
      /\ c' = c /\ r' = r
  BY <1>1 DEF ParseHeaderLine, Top
<1>3. peer' = peer /\ script' = script
  BY <1>2 DEF client
<1>4. ~r.keepalive /\ r.reh = "block" /\ ~r.request_body
  BY <1>1 DEF General, Fresh
<1>5. PICK u : u = Head(buf)
  OBVIOUS
<1>6. /\ Form' /\ u.q \in 1..Len(script)
      /\ peer # "reset" => Unread # <<>> /\ Unread[1] = u
      /\ peer # "reset" /\ u.k \in {"line", "hdr"} => Heads(Unread', u.q)
      /\ peer # "reset" /\ u.k = "head" => Ahead(Unread', BodyLen(u.q), u.q)
  BY <1>1, <1>2, <1>5, OneParsed2
<1>7. General'
  BY <1>1, <1>2, <1>4, <1>6, HeadGeneral2
<1>8. peer # "reset" => u.q = r.q
  BY <1>1, <1>2, <1>6 DEF Heading, Header, Heads
<1>9. CASE u.k = "hdr"
  <2>1. stack' = stack
    BY <1>5, <1>9 DEF ParseHeaderLine
  <2>2. Heads(Unread, r.q)' <=> Heads(Unread', r.q)
    BY <1>2 DEF Heads
  <2>3. Heading(f)'
    BY <1>2, <1>3, <1>6, <1>8, <1>9, <2>2 DEF Heading, Header
  <2> QED
    BY <1>1, <1>7, <2>1, <2>3, HeadStays2
<1>10. CASE u.k = "head" /\ script[u.q].bad # "head"
  <2>1. Call(<<"process_request">>)
    BY <1>5, <1>10 DEF ParseHeaderLine
  <2>2. stack' = Push("process_request", t)
    BY <1>1, <2>1 DEF Call, Push
  <2>3. Ahead(Unread, BodyLen(r.q), r.q)' <=> Ahead(Unread', BodyLen(r.q), r.q)
    BY <1>2, <1>3 DEF Ahead, BodyLen, Size, Body
  <2>4. HeadRead'
    BY <1>3, <1>6, <1>8, <1>10, <2>3 DEF HeadRead
  <2>5. Clause("process_request", t)'
    BY <2>4 DEF Clause, Handlers
  <2> QED
    BY <1>7, <2>2, <2>5, Goes2 DEF Names
<1>11. CASE u.k # "hdr" /\ ~(u.k = "head" /\ script[u.q].bad # "head")
  <2>1. rc' = "400" /\ Call(<<"finalize">>)
    BY <1>5, <1>11 DEF ParseHeaderLine
  <2>2. stack' = Push("finalize", K0) /\ rc' \in Special
    BY <1>1, <2>1 DEF Call, Push, Special
  <2> QED
    BY <1>1, <1>2, <1>4, <1>7, <2>2, HeadFails2
<1> QED
  BY <1>9, <1>10, <1>11
-----------------------------------------------------------------------------
(* The request is handled. *)
LEMMA ProcessRequest2 == ASSUME IInv, FInv, ProcessRequest PROVE FInv'
<1>1. PICK t \in Stacks : /\ t = Tail(stack) /\ c.open /\ Facts("process_request", t)
                          /\ General /\ Clause("process_request", t)
  BY Runs2 DEF ProcessRequest
<1>2. t = K0 /\ Fresh /\ r.q \in 1..Len(script) /\ c.handler = "headers"
  BY <1>1 DEF Facts, InHead
<1>3. HeadRead
  BY <1>1 DEF Clause
<1>4. DOMAIN c = CFields /\ DOMAIN r = RFields /\ Still
  BY Fields2 DEF ProcessRequest, Still
<1>5. c'.handler = "request"
  BY <1>4 DEF ProcessRequest, CFields
<1>6. /\ r'.reh = "block" /\ r'.rest = Body(r.q) /\ r'.q = r.q
      /\ r'.discard_body = r.discard_body /\ r'.request_body = r.request_body
  BY <1>4 DEF ProcessRequest, RFields
<1>7. ~r'.discard_body /\ ~r'.request_body
  BY <1>2, <1>6 DEF Fresh
<1>8. General'
  <2>1. Unread' = Unread /\ peer' = peer /\ script' = script
    BY <1>4, TextKept DEF Still, client
  <2>2. Form'
    BY <1>1, <1>2, <2>1, FormKept DEF General
  <2>3. Bodies'
    <3>1. peer # "reset" => Ahead(Unread, BodyLen(r.q), r.q)
      BY <1>2, <1>3 DEF HeadRead
    <3>2. Size(r'.rest) = BodyLen(r.q)
      BY <1>6 DEF BodyLen
    <3>3. Ahead(Unread, Size(r.rest), r.q)' <=> Ahead(Unread, BodyLen(r.q), r.q)
      <4>1. Size(r.rest)' = BodyLen(r.q)
        BY <3>2 DEF Size
      <4> QED
        BY <1>6, <2>1, <4>1 DEF Ahead
    <3> QED
      BY <2>1, <3>1, <3>3 DEF Bodies
  <2>4. Emptied'
    BY <1>6, <1>7 DEF Emptied, Asked
  <2> QED
    BY <1>5, <1>6, <2>2, <2>3, <2>4 DEF General
<1>9. /\ "discard" \in Names /\ "too_large" \in Names /\ "finalize" \in Names
      /\ "posted" \in Names /\ "content" \in Names
  BY DEF Names
<1>10. CASE Body(r.q) > MaxBody /\ ~script[r.q].chunked
  <2> DEFINE u == Push("too_large", Tail1)
  <2>1. stack' = <<"discard", "too_large", "finalize", "posted">> \o t
    BY <1>1, <1>10 DEF ProcessRequest, Call
  <2>2. stack' = Push("discard", u)
    BY SMT, <1>2, <1>9, <2>1, Call4 DEF Tail1, K1
  <2>3. u \in Stacks
    BY DiscardsIn DEF Refusals
  <2> HIDE DEF u
  <2>4. Clause("discard", u)'
    BY <1>7 DEF Clause, Handlers
  <2> QED
    BY <1>8, <1>9, <2>2, <2>3, <2>4, Goes2
<1>11. CASE ~(Body(r.q) > MaxBody /\ ~script[r.q].chunked)
  <2>1. stack' = <<"content", "posted">> \o t
    BY <1>1, <1>11 DEF ProcessRequest, Call
  <2>2. stack' = Push("content", K1)
    BY SMT, <1>2, <1>9, <2>1, Call2 DEF K1
  <2> QED
    BY <1>8, <2>2, Frames, Plain2 DEF Plain
<1> QED
  BY <1>10, <1>11

LEMMA TooLarge2 == ASSUME IInv, FInv, TooLarge PROVE FInv'
<1>1. PICK t \in Stacks : /\ t = Tail(stack) /\ c.open /\ Facts("too_large", t)
                          /\ General /\ Clause("too_large", t)
  BY Runs2 DEF TooLarge
<1>2. t = Tail1 /\ c.handler = "request"
  BY <1>1 DEF Facts, InTooLarge, Answered
<1>3. Still /\ r' = r /\ c' = c /\ rc' = "413"
  BY DEF TooLarge, Still
<1>4. General' /\ Refused'
  BY <1>1, <1>3, Same2 DEF Refused, NoKeepalive
<1>5. stack' = Push("finalize", K1)
  BY <1>1, <1>2 DEF TooLarge, Return, Tail1
<1> QED
  BY <1>2, <1>3, <1>4, <1>5, Frames, Finalizes2

LEMMA ReadEventHandler2 == ASSUME IInv, FInv, ReadEventHandler PROVE FInv'
<1>1. PICK t \in Stacks : /\ t = Tail(stack) /\ c.open /\ Facts("request", t)
                          /\ General /\ Clause("request", t)
  BY Runs2 DEF ReadEventHandler
<1>2. t = K0 /\ Settled
  BY <1>1 DEF Facts, InRequest, Clause
<1>3. PICK f \in Handlers : f = r.reh
  BY DEF IInv, Store, StoreR
<1>4. Still /\ r' = r /\ c' = c
  BY DEF ReadEventHandler, Still
<1>5. General' /\ Settled'
  BY <1>1, <1>2, <1>4, Same2
<1>6. f \in Names /\ "posted" \in Names
  BY DEF Handlers, Names
<1>7. stack' = <<f, "posted">> \o t
  BY <1>1, <1>3 DEF ReadEventHandler, Call
<1>8. <<f, "posted">> \o t = Push(f, Push("posted", t))
  BY Zenon, <1>6, Call2
<1>9. stack' = Push(f, K1)
  BY <1>2, <1>7, <1>8 DEF K1
<1> QED
  BY <1>5, <1>9, Frames, Handles2

LEMMA BlockReading2 == ASSUME IInv, FInv, BlockReading PROVE FInv'
<1>1. PICK t \in Stacks : /\ t = Tail(stack) /\ c.open /\ Facts("block", t)
                          /\ General /\ Clause("block", t)
  BY Runs2 DEF BlockReading
<1>2. t = K1 /\ Settled
  BY <1>1 DEF Facts, InReader, Clause, Handlers
<1>3. Still /\ r' = r /\ c' = c /\ stack' = K1
  BY <1>1, <1>2 DEF BlockReading, Still, Return
<1>4. General' /\ Settled'
  BY <1>1, <1>2, <1>3, Same2
<1> QED
  BY <1>3, <1>4, AreKonts, Distinct, Back2

LEMMA TestReading2 == ASSUME IInv, FInv, TestReading PROVE FInv'
<1>1. PICK f \in {"test", "broken"} : Top(f)
  BY DEF TestReading
<1>2. PICK t \in Stacks : /\ t = Tail(stack) /\ c.open /\ Facts(f, t)
                          /\ General /\ Clause(f, t)
  BY <1>1, Runs2
<1>3. t = K1 /\ Settled /\ c.handler = "request"
  BY <1>2 DEF Facts, InReader, Serving, Clause, Handlers
<1>4. Still /\ DOMAIN c = CFields /\ DOMAIN r = RFields
  BY Fields2 DEF TestReading, Still
<1>5. CASE Recv \in {"eof", "error"}
  <2>1. /\ c' = [c EXCEPT !.eof = TRUE, !.error = TRUE] /\ r' = [r EXCEPT !.later = FALSE]
        /\ rc' = "499" /\ Call(<<"finalize">>)
    BY <1>5 DEF TestReading
  <2>2. Steady /\ c'.handler = "request"
    BY <1>3, <1>4, <2>1 DEF Steady, Asked, CFields, RFields
  <2>3. General'
    BY <1>2, <1>4, <2>2, GeneralKept
  <2>4. Refused' /\ rc' \notin {"DONE", "OK", "AGAIN"}
    BY <2>1 DEF Refused, Special
  <2>5. stack' = Push("finalize", K1)
    BY <1>2, <1>3, <2>1 DEF Call, Push
  <2> QED
    BY <2>2, <2>3, <2>4, <2>5, Frames, Finalizes2
<1>6. CASE Recv \notin {"eof", "error"}
  <2>1. c' = c /\ r' = r /\ stack' = K1
    BY <1>2, <1>3, <1>6 DEF TestReading, Return
  <2>2. General' /\ Settled'
    BY <1>2, <1>3, <1>4, <2>1, Same2
  <2> QED
    BY <2>1, <2>2, AreKonts, Distinct, Back2
<1> QED
  BY <1>5, <1>6

-----------------------------------------------------------------------------
(* A content handler starts. *)
LEMMA ContentDiscards2 == ASSUME IInv, FInv, ContentDiscards PROVE FInv'
<1>1. PICK t \in Stacks : /\ t = Tail(stack) /\ c.open /\ Facts("content", t)
                          /\ General /\ Clause("content", t)
  BY Runs2 DEF ContentDiscards
<1>2. t = K1 /\ ~r.request_body
  BY <1>1 DEF Facts, InContent, Unasked
<1>3. Still /\ r' = r /\ c' = c
  BY DEF ContentDiscards, Still
<1>4. General'
  BY <1>1, <1>3, Same2
<1> DEFINE u == Push("unless_failed", Chain(K1))
<1>5. u \in Stacks
  BY DiscardsIn DEF Refusals
<1>6. /\ "discard" \in Names /\ "unless_failed" \in Names
      /\ "output" \in Names /\ "finalize" \in Names
  BY DEF Names
<1>7. stack' = <<"discard", "unless_failed", "output", "finalize">> \o t
  BY <1>1 DEF ContentDiscards, Call
<1>8. <<"discard", "unless_failed", "output", "finalize">> \o t
        = Push("discard", Push("unless_failed", Push("output", Push("finalize", t))))
  BY SMT, <1>6, Call4
<1>9. stack' = Push("discard", u)
  BY <1>2, <1>7, <1>8 DEF Chain
<1> HIDE DEF u
<1>10. Clause("discard", u)'
  BY <1>2, <1>3 DEF Clause, Handlers
<1> QED
  BY <1>4, <1>5, <1>6, <1>9, <1>10, Goes2

LEMMA UnlessFailed2 == ASSUME IInv, FInv, UnlessFailed PROVE FInv'
<1>1. PICK t \in Stacks : /\ t = Tail(stack) /\ c.open /\ Facts("unless_failed", t)
                          /\ General /\ Clause("unless_failed", t)
  BY Runs2 DEF UnlessFailed
<1>2. t = Chain(K1) /\ c.handler = "request" /\ rc \in {"OK", "500"}
  BY <1>1 DEF Facts, InUnlessFailed, Answered
<1>3. Still /\ r' = r /\ c' = c /\ rc' = rc
  BY DEF UnlessFailed, Still
<1>4. General' /\ Left' = Left
  BY <1>1, <1>3, Same2
<1>5. "output" \in Names /\ "finalize" \in Names
  BY DEF Names
<1>6. Push("finalize", K1) \in Stacks
  BY AreKonts, ChainIn
<1>7. CASE rc = "OK"
  <2>1. stack' = Push("output", Push("finalize", K1))
    BY <1>1, <1>2, <1>7 DEF UnlessFailed, Chain
  <2>2. Left'
    BY <1>1, <1>4, <1>7 DEF Clause
  <2> QED
    BY <1>4, <1>6, <2>1, <2>2, Outputs2
<1>8. CASE rc = "500"
  <2>1. stack' = Tail(t)
    BY <1>1, <1>8 DEF UnlessFailed
  <2>2. Tail(t) = Push("finalize", K1)
    BY <1>2, <1>5, <1>6, Pushed DEF Chain
  <2>3. Refused' /\ rc' \notin {"DONE", "OK", "AGAIN"}
    BY <1>3, <1>8 DEF Refused, NoKeepalive
  <2> QED
    BY <1>2, <1>3, <1>4, <2>1, <2>2, <2>3, Frames, Finalizes2
<1> QED
  BY <1>2, <1>7, <1>8

LEMMA ContentReads2 ==
  ASSUME IInv, FInv, NEW how \in {"now", "later", "unbuffered"}, ContentReads(how)
  PROVE  FInv'
<1>1. PICK t \in Stacks : /\ t = Tail(stack) /\ c.open /\ Facts("content", t)
                          /\ General /\ Clause("content", t)
  BY Runs2 DEF ContentReads
<1>2. t = K1
  BY <1>1 DEF Facts, InContent
<1>3. Still /\ c' = c /\ DOMAIN r = RFields
  BY Fields2 DEF ContentReads, Still
<1>4. r' = [r EXCEPT !.answer = how, !.no_buffering = (how = "unbuffered")]
  BY DEF ContentReads
<1>5. Steady
  BY <1>3, <1>4 DEF Steady, Asked, RFields
<1>6. General'
  BY <1>1, <1>3, <1>5, GeneralKept
<1>7. "read_body" \in Names /\ "read_done" \in Names /\ "finalize" \in Names
  BY DEF Names
<1>8. stack' = <<"read_body", "read_done", "finalize">> \o t
  BY <1>1 DEF ContentReads, Call
<1>9. <<"read_body", "read_done", "finalize">> \o t
        = Push("read_body", Push("read_done", Push("finalize", t)))
  BY SMT, <1>7, Call3
<1>10. stack' = Push("read_body", Tail2)
  BY <1>2, <1>8, <1>9 DEF Tail2, Tail1
<1> QED
  BY <1>6, <1>10, Frames, Plain2 DEF Plain

LEMMA ContentRefuses2 ==
  ASSUME IInv, FInv, NEW code \in {"404", "500"}, ContentRefuses(code)
  PROVE  FInv'
<1>1. PICK t \in Stacks : /\ t = Tail(stack) /\ c.open /\ Facts("content", t)
                          /\ General /\ Clause("content", t)
  BY Runs2 DEF ContentRefuses
<1>2. t = K1 /\ c.handler = "request" /\ ~r.request_body
  BY <1>1 DEF Facts, InContent, Unasked, Answered
<1>3. Still /\ r' = r /\ c' = c /\ rc' \in {"404", "500"}
  BY DEF ContentRefuses, Still
<1>4. General' /\ Refused'
  BY <1>1, <1>2, <1>3, Same2 DEF Refused
<1>5. stack' = Push("finalize", K1)
  BY <1>1, <1>2 DEF ContentRefuses, Call, Push
<1> QED
  BY <1>2, <1>3, <1>4, <1>5, Frames, Finalizes2

(* The only reference is given back: nobody reads the body any more. *)
LEMMA LastSpent2 ==
  ASSUME Settled, Returned(K2, 1)
  PROVE  Spent
<1>1. Held(K2, 1)
  BY Owing DEF Returned, Terminated, Lingers
<1>2. Num(r.discard_body) + Num(Answering) = 0
  BY <1>1, Owing DEF Held, Num
<1>3. ~r.discard_body /\ ~Answering
  BY <1>2 DEF Num
<1> QED
  BY <1>1, <1>3 DEF Settled, Left, Answering, Held, Serving

LEMMA ReadDone2 == ASSUME IInv, FInv, ReadDone PROVE FInv'
<1>1. PICK t \in Stacks : /\ t = Tail(stack) /\ c.open /\ Facts("read_done", t)
                          /\ General /\ Clause("read_done", t)
  BY Runs2 DEF ReadDone
<1>2. /\ t = Tail1
      /\ IF rc \in Special THEN Answered(K1) ELSE Ctx(K2) /\ Returned(K2, r.count)
      /\ Refused /\ (rc \notin Special => Settled)
  BY <1>1 DEF Facts, InReadDone, Clause
<1>3. Still /\ r' = r /\ c' = c
  BY DEF ReadDone, Still
<1>4. General' /\ Settled' = Settled /\ Spent' = Spent
  BY <1>1, <1>3, Same2
<1>5. stack' = Push("finalize", K1)
  BY <1>1, <1>2 DEF ReadDone, Return, Tail1
<1>6. CASE rc \in Special
  <2>1. rc' = rc
    BY <1>6 DEF ReadDone
  <2>2. Refused' /\ rc' \notin {"DONE", "OK", "AGAIN"}
    BY <1>2, <1>3, <1>4, <1>6, <2>1 DEF Refused, Special
  <2>3. c'.handler = "request"
    BY <1>2, <1>3, <1>6 DEF Answered
  <2> QED
    BY <1>4, <1>5, <2>2, <2>3, Frames, Finalizes2
<1>7. CASE rc \notin Special
  <2>1. rc' = "DONE"
    BY <1>7 DEF ReadDone
  <2>2. c'.handler = "request"
    BY <1>2, <1>3, <1>7, GivenBack DEF IInv, Store
  <2>3. r'.count = 1 => Spent'
    BY <1>2, <1>3, <1>4, <1>7, LastSpent2
  <2>4. Refused'
    BY <2>1 DEF Refused, Special
  <2> QED
    BY <1>2, <1>4, <1>5, <1>7, <2>1, <2>2, <2>3, <2>4, Frames, Finalizes2
<1> QED
  BY <1>6, <1>7

-----------------------------------------------------------------------------
(* The answer is sent. *)
LEMMA Output2 == ASSUME IInv, FInv, Output PROVE FInv'
<1>1. PICK t \in Stacks : /\ t = Tail(stack) /\ c.open /\ Facts("output", t)
                          /\ General /\ Clause("output", t)
  BY Runs2 DEF Output
<1>2. InOutput(t) /\ Left
  BY <1>1 DEF Facts, Clause
<1>3. DOMAIN c = CFields /\ DOMAIN r = RFields /\ Still
  BY Fields2 DEF Output, Still
<1>4. stack' = t /\ rc' \in {"OK", "AGAIN", "ERROR"}
  BY <1>1 DEF Output, Return
<1>5. c'.handler = c.handler
  BY <1>3 DEF Output, CFields
<1>6. /\ r'.live = r.live /\ r'.q = r.q /\ r'.rest = r.rest /\ r'.reh = r.reh
      /\ r'.request_body = r.request_body /\ r'.discard_body = r.discard_body
      /\ r'.reading_body = r.reading_body /\ r'.keepalive = r.keepalive
  <2>1. r' = r \/ r' = [r EXCEPT !.sent = @ + 1]
    BY DEF Output
  <2> QED
    BY <1>3, <2>1 DEF RFields
<1>7. Steady /\ StillR
  BY <1>5, <1>6 DEF Steady, StillR, Asked
<1>8. General' /\ Left'
  BY <1>1, <1>2, <1>3, <1>6, <1>7, GeneralKept, LeftKept
<1>9. ASSUME NEW k \in Konts, t = Push("finalize", k), Answered(k) PROVE FInv'
  <2>1. Refused' /\ rc' # "DONE"
    BY <1>4 DEF Refused, Special
  <2>2. c'.handler = "request"
    BY <1>5, <1>9 DEF Answered
  <2> QED
    BY <1>4, <1>8, <1>9, <2>1, <2>2, KontIn, Finalizes2
<1>10. ASSUME t = Push("written", K1) PROVE FInv'
  <2>1. Clause("written", K1)'
    BY <1>8 DEF Clause, Handlers
  <2> QED
    BY <1>4, <1>8, <1>10, <2>1, Frames, Goes2 DEF Names
<1> QED
  BY <1>2, <1>9, <1>10 DEF InOutput

LEMMA Writer2 == ASSUME IInv, FInv, Writer PROVE FInv'
<1>1. PICK t \in Stacks : /\ t = Tail(stack) /\ c.open /\ Facts("write", t)
                          /\ General /\ Clause("write", t)
  BY Runs2 DEF Writer
<1>2. InWrite(t) /\ Settled /\ r.weh = "writer"
  BY <1>1 DEF Facts, Clause, Writer
<1>3. Still /\ r' = r /\ c' = c
  BY DEF Writer, Still
<1>4. t = K1 /\ Serving /\ r.reh # "body"
  BY <1>2 DEF InWrite, Watched
<1>5. Left
  BY <1>2, <1>4 DEF Settled, Serving
<1>6. General' /\ Left'
  BY <1>1, <1>3, <1>5, Same2
<1>7. CASE c.wtimedout
  <2>1. rc' = "408" /\ stack' = Push("finalize", K1)
    BY <1>1, <1>4, <1>7 DEF Writer, Call, Push
  <2>2. Refused' /\ rc' \notin {"DONE", "OK", "AGAIN"} /\ c'.handler = "request"
    BY <1>3, <1>4, <2>1 DEF Refused, Special, Serving
  <2> QED
    BY <1>6, <2>1, <2>2, Frames, Finalizes2
<1>8. CASE ~c.wtimedout
  <2>1. "output" \in Names /\ "written" \in Names
    BY DEF Names
  <2>2. stack' = <<"output", "written">> \o t
    BY <1>1, <1>8 DEF Writer, Call
  <2>3. <<"output", "written">> \o t = Push("output", Push("written", t))
    BY Zenon, <2>1, Call2
  <2>4. Push("written", t) \in Stacks
    BY <2>1, Pushed
  <2> QED
    BY <1>6, <2>2, <2>3, <2>4, Outputs2
<1> QED
  BY <1>7, <1>8

LEMMA Written2 == ASSUME IInv, FInv, Written PROVE FInv'
<1>1. PICK t \in Stacks : /\ t = Tail(stack) /\ c.open /\ Facts("written", t)
                          /\ General /\ Clause("written", t)
  BY Runs2 DEF Written
<1>2. t = K1 /\ c.handler = "request" /\ rc \in {"OK", "AGAIN", "ERROR"} /\ Left
  BY <1>1 DEF Facts, InWritten, Writing, Serving, Clause
<1>3. DOMAIN c = CFields /\ DOMAIN r = RFields /\ Still /\ rc' = rc
  BY Fields2 DEF Written, Still
<1>4. c'.handler = c.handler
  <2>1. c' = c \/ c' = [c EXCEPT !.wtimer = TRUE]
    BY DEF Written
  <2> QED
    BY <1>3, <2>1 DEF CFields
<1>5. /\ r'.live = r.live /\ r'.q = r.q /\ r'.rest = r.rest /\ r'.reh = r.reh
      /\ r'.request_body = r.request_body /\ r'.discard_body = r.discard_body
      /\ r'.reading_body = r.reading_body /\ r'.keepalive = r.keepalive
  <2>1. r' = r \/ r' = [r EXCEPT !.weh = IF rc = "ERROR" THEN @ ELSE "empty"]
    BY DEF Written
  <2> QED
    BY <1>3, <2>1 DEF RFields
<1>6. Steady /\ StillR
  BY <1>4, <1>5 DEF Steady, StillR, Asked
<1>7. General' /\ Left'
  BY <1>1, <1>2, <1>3, <1>5, <1>6, GeneralKept, LeftKept
<1>8. CASE rc # "ERROR" /\ c.buffered
  <2>1. stack' = K1
    BY <1>1, <1>2, <1>8 DEF Written, Return
  <2> QED
    BY <1>7, <2>1, AreKonts, Distinct, Back2 DEF Settled
<1>9. CASE ~(rc # "ERROR" /\ c.buffered)
  <2>1. stack' = Push("finalize", K1)
    BY <1>1, <1>2, <1>9 DEF Written, Call, Push
  <2>2. Refused' /\ rc' # "DONE"
    BY <1>2, <1>3 DEF Refused, Special
  <2> QED
    BY <1>2, <1>4, <1>7, <2>1, <2>2, Frames, Finalizes2
<1> QED
  BY <1>8, <1>9
-----------------------------------------------------------------------------
(* Units of the body are taken. *)
LEMMA Taken2 ==
  ASSUME IInv, General, c.handler = "request", r.live, NEW n \in 0..Len(Unread),
         Unread' = Rest(Unread, n), UNCHANGED <<peer, script>>, n = 0 \/ n <= r.rest,
         r'.rest = r.rest - n, r'.q = r.q, r'.live = r.live, r'.keepalive => r.keepalive,
         c'.handler = "request"
  PROVE  Form' /\ Bodies'
<1> DEFINE x == Rest(Unread, n)
<1>1. Unread \in Seq(UnitSet) /\ script \in Seq(Requests) /\ r.rest \in Int
  BY UnreadIn DEF IInv, Store, StoreB, StoreR
<1>2. x \in Seq(UnitSet) /\ Len(x) = Len(Unread) - n /\ \A i \in 1..Len(x) : x[i] = Unread[i + n]
  BY <1>1, RestIs
<1>3. Len(Unread) \in Nat /\ n \in Nat /\ n <= Len(Unread)
  BY <1>1
<1> HIDE DEF x
<1>4. Framed(Unread) => Framed(x)
  <2>1. Len(x) + n <= Len(Unread)
    BY <1>1, <1>2, <1>3
  <2> QED
    BY <1>1, <1>2, <1>3, <2>1, Window
<1>5. Unread' = x
  BY DEF x
<1>6. Form'
  <2>1. Framed(Unread)' <=> Framed(x)
    BY <1>5 DEF Framed, Follows, BodyLen, Size, Body
  <2> QED
    BY <1>4, <2>1 DEF General, Form
<1>7. ASSUME peer # "reset", r'.keepalive \/ r'.rest > 0
      PROVE  Ahead(x, Size(r'.rest), r.q)
  <2>1. r.keepalive \/ r.rest > 0
    BY <1>1, <1>3, <1>7
  <2>2. Ahead(Unread, Size(r.rest), r.q)
    BY <1>7, <2>1 DEF General, Bodies
  <2>3. Size(r.rest) \in Nat /\ n \in 0..Size(r.rest) /\ Size(r.rest) - n = Size(r'.rest)
    BY <1>1, <1>3 DEF Size
  <2> QED
    BY <1>1, <1>3, <2>2, <2>3, AheadRest DEF x
<1>8. Bodies'
  <2>1. Ahead(Unread, Size(r.rest), r.q)' <=> Ahead(x, Size(r'.rest), r.q)
    BY <1>5 DEF Ahead, Size
  <2> QED
    BY <1>7, <2>1 DEF Bodies
<1> QED
  BY <1>6, <1>8

(* ... out of the buffer or, behind it, out of the socket. *)
LEMMA Drained2 ==
  ASSUME StoreB, NEW n \in 0..Len(net), n = 0 \/ buf = <<>>, net' = Rest(net, n),
         UNCHANGED <<client, buf>>
  PROVE  Unread' = Rest(Unread, n) /\ n \in 0..Len(Unread)
<1>1. CASE n = 0
  <2>1. Unread \in Seq(UnitSet) /\ net \in Seq(UnitSet)
    BY UnreadIn DEF StoreB
  <2>2. Rest(net, 0) = net /\ Rest(Unread, 0) = Unread
    BY <2>1, SubSeqFull DEF Rest
  <2>3. Unread' = Unread
    BY <1>1, <2>2, UnreadSame
  <2> QED
    BY <1>1, <2>1, <2>2, <2>3
<1>2. CASE n # 0
  BY <1>2, UnreadDrained
<1> QED
  BY <1>1, <1>2

(* What reading the body leaves of the form. *)
LEMMA Reading2 ==
  ASSUME Form', Bodies', c'.handler = "request", Asked' /\ r'.rest > 0 => buf' = <<>>,
         r'.reh = "unbuffered" => r'.reading_body
  PROVE  General'
<1>1. Emptied'
  BY DEF Emptied
<1> QED
  BY <1>1 DEF General

LEMMA SpentThen == ASSUME Spent' PROVE Left' /\ Settled' /\ Refused'
BY DEF Left, Settled, Refused

-----------------------------------------------------------------------------
(* The body of the request is read. *)
LEMMA ReadClientRequestBody2 == ASSUME IInv, FInv, ReadClientRequestBody PROVE FInv'
<1>1. PICK t \in Stacks : /\ t = Tail(stack) /\ c.open /\ Facts("read_body", t)
                          /\ General /\ Clause("read_body", t)
  BY Runs2 DEF ReadClientRequestBody
<1>2. t = Tail2 /\ c.handler = "request" /\ r.live /\ ~r.request_body /\ r.reh = "block"
  BY <1>1 DEF Facts, InReadBody, Unasked, Answered, Pending
<1>3. DOMAIN r = RFields /\ c' = c /\ UNCHANGED <<client, net>> /\ StoreB /\ r.rest \in Int
  BY Fields2 DEF ReadClientRequestBody, IInv, Store, StoreR
<1>4. CASE rc' = "500" /\ Return /\ UNCHANGED <<r, buf>>
  <2>1. Still /\ stack' = Push("read_done", Tail1)
    BY <1>1, <1>2, <1>3, <1>4 DEF Return, Tail2, Still
  <2>2. General' /\ Refused'
    BY <1>1, <1>2, <1>3, <1>4, <2>1, Same2 DEF Refused
  <2>3. Clause("read_done", Tail1)'
    BY <1>4, <2>2 DEF Clause, Handlers, Special
  <2> QED
    BY <2>1, <2>2, <2>3, Frames, Goes2 DEF Names
<1>5. CASE ~(rc' = "500" /\ Return /\ UNCHANGED <<r, buf>>)
  <2> DEFINE n == IF NoBody THEN 0 ELSE Min2(r.rest, Len(buf))
             done == NoBody \/ r.rest = n
  <2>1. /\ buf' = Rest(buf, n)
        /\ r' = [r EXCEPT !.count = @ + 1, !.request_body = TRUE, !.rest = @ - n,
                          !.no_buffering = @ /\ ~done,
                          !.reh = IF done THEN @ ELSE "body",
                          !.weh = IF done THEN @ ELSE "empty"]
        /\ stack' = (IF done THEN <<"post_handler", "body_ok">>
                             ELSE <<"do_read", "body_done">>) \o t
    BY <1>1, <1>5 DEF ReadClientRequestBody, Call
  <2>2. Len(buf) \in Nat
    BY <1>3 DEF StoreB
  <2>3. /\ n \in 0..Len(buf) /\ n \in Int /\ (n = 0 \/ n <= r.rest)
        /\ (done => r.rest - n <= 0) /\ (~done => n = Len(buf))
    BY <1>3, <2>2 DEF NoBody, Min2
  <2> HIDE DEF n, done
  <2>4. /\ r'.rest = r.rest - n /\ r'.q = r.q /\ r'.live = r.live /\ r'.keepalive = r.keepalive
        /\ r'.reh # "unbuffered"
    BY <1>2, <1>3, <2>1 DEF RFields
  <2>5. Unread' = Rest(Unread, n) /\ n \in 0..Len(Unread)
    BY <1>3, <2>1, <2>3, UnreadEaten
  <2>6. Form' /\ Bodies'
    BY <1>1, <1>2, <1>3, <2>3, <2>4, <2>5, Taken2 DEF client
  <2>7. ~done => buf' = <<>>
    <3>1. buf \in Seq(UnitSet)
      BY <1>3 DEF StoreB
    <3>2. Rest(buf, n) \in Seq(UnitSet) /\ Len(Rest(buf, n)) = Len(buf) - n
      BY <2>3, <3>1, RestIs
    <3>3. ~done => Len(Rest(buf, n)) = 0
      BY <2>2, <2>3, <3>2
    <3> QED
      BY <2>1, <3>2, <3>3, EmptySeq
  <2>8. General'
    <3>1. r'.rest > 0 => ~done
      BY <1>3, <2>3, <2>4
    <3> QED
      BY <1>2, <1>3, <2>4, <2>6, <2>7, <3>1, Reading2
  <2>9. /\ "post_handler" \in Names /\ "body_ok" \in Names
        /\ "do_read" \in Names /\ "body_done" \in Names
    BY DEF Names
  <2>10. CASE done
    <3>1. <<"post_handler", "body_ok">> \o t = Push("post_handler", Push("body_ok", t))
      BY Zenon, <2>9, Call2
    <3>2. stack' = Push("post_handler", K2)
      BY <1>2, <2>1, <2>10, <3>1 DEF K2
    <3>3. Clause("post_handler", K2)'
      BY <2>3, <2>4, <2>10 DEF Clause, Handlers, Spent
    <3> QED
      BY <2>8, <2>9, <3>2, <3>3, Frames, Goes2
  <2>11. CASE ~done
    <3>1. <<"do_read", "body_done">> \o t = Push("do_read", Push("body_done", t))
      BY Zenon, <2>9, Call2
    <3>2. stack' = Push("do_read", Push("body_done", Tail2))
      BY <1>2, <2>1, <2>11, <3>1
    <3>3. Push("body_done", Tail2) \in Stacks
      BY <2>9, Frames, Pushed
    <3> QED
      BY <2>8, <3>2, <3>3, Plain2 DEF Plain
  <2> QED
    BY <2>10, <2>11
<1> QED
  BY <1>4, <1>5

LEMMA BodyOk2 == ASSUME IInv, FInv, BodyOk PROVE FInv'
<1>1. PICK t \in Stacks : /\ t = Tail(stack) /\ c.open /\ Facts("body_ok", t)
                          /\ General /\ Clause("body_ok", t)
  BY Runs2 DEF BodyOk
<1>2. PICK k \in {K2, K3, K4} : Push("body_ok", t) = k /\ Ctx(k)
  BY <1>1 DEF Facts, InBodyOk
<1>3. Still /\ r' = r /\ c' = c /\ rc' = "OK" /\ stack' = t /\ Settled
  BY <1>1 DEF BodyOk, Return, Still, Clause
<1>4. General' /\ Settled' /\ Refused'
  BY <1>1, <1>3, Same2 DEF Refused, Special
<1>5. "body_ok" \in Names /\ Tail(Push("body_ok", t)) = t
  BY Pushed DEF Names
<1>6. CASE k = K2
  <2>1. t = Push("read_done", Tail1)
    BY <1>2, <1>5, <1>6, Frames, Pushed DEF K2, Tail2
  <2>2. Clause("read_done", Tail1)'
    BY <1>4 DEF Clause, Handlers
  <2> QED
    BY <1>3, <1>4, <2>1, <2>2, Frames, Goes2 DEF Names
<1>7. CASE k = K3
  <2>1. t = Push("if_failed", K1)
    BY <1>2, <1>5, <1>7, Frames, Pushed DEF K3
  <2>2. Clause("if_failed", K1)'
    BY <1>4 DEF Clause, Handlers
  <2> QED
    BY <1>3, <1>4, <2>1, <2>2, Frames, Goes2 DEF Names
<1>8. CASE k = K4
  <2>1. t = Push("body_done", Tail2)
    BY <1>2, <1>5, <1>8, Frames, Pushed DEF K4
  <2>2. ~r'.no_buffering
    BY <1>2, <1>3, <1>8 DEF Ctx
  <2>3. Clause("body_done", Tail2)'
    BY <1>4, <2>2 DEF Clause, Handlers
  <2> QED
    BY <1>3, <1>4, <2>1, <2>3, Frames, Goes2 DEF Names
<1> QED
  BY <1>6, <1>7, <1>8

LEMMA BodyDone2 == ASSUME IInv, FInv, BodyDone PROVE FInv'
<1>1. PICK t \in Stacks : /\ t = Tail(stack) /\ c.open /\ Facts("body_done", t)
                          /\ General /\ Clause("body_done", t)
  BY Runs2 DEF BodyDone
<1>2. t = Tail2 /\ InBodyDone(t)
  BY <1>1 DEF Facts, InBodyDone
<1>3. Still /\ DOMAIN r = RFields /\ UNCHANGED <<c, rc>>
  BY Fields2 DEF BodyDone, Still
<1> DEFINE unbuffered == r.no_buffering /\ rc \in {"OK", "AGAIN"}
<1>4. /\ r' = [r EXCEPT !.no_buffering = @ /\ rc # "OK",
                        !.reading_body = @ \/ (unbuffered /\ rc = "AGAIN"),
                        !.reh = IF unbuffered THEN "block" ELSE @,
                        !.count = IF rc \in Special THEN @ - 1 ELSE @]
      /\ stack' = (IF unbuffered THEN <<"post_handler", "body_ok">> ELSE <<>>) \o t
  BY <1>1 DEF BodyDone, Call
<1> HIDE DEF unbuffered
<1>5. /\ r'.reading_body <=> r.reading_body \/ (unbuffered /\ rc = "AGAIN")
      /\ r'.reh = (IF unbuffered THEN "block" ELSE r.reh)
  BY <1>3, <1>4 DEF RFields
<1>6. /\ r'.live = r.live /\ r'.q = r.q /\ r'.rest = r.rest /\ r'.keepalive = r.keepalive
      /\ r'.request_body = r.request_body /\ r'.discard_body = r.discard_body
      /\ r'.posted = r.posted
  BY <1>3, <1>4 DEF RFields
<1>7. Steady /\ StillR
  BY <1>3, <1>5, <1>6 DEF Steady, StillR, Asked
<1>8. General'
  BY <1>1, <1>3, <1>7, GeneralKept
<1>9. Settled /\ (rc = "OK" /\ r.no_buffering => r.rest <= 0)
  BY <1>1 DEF Clause
<1>10. "post_handler" \in Names /\ "body_ok" \in Names /\ "read_done" \in Names
  BY DEF Names
<1>11. CASE unbuffered
  <2>1. Spent'
    BY <1>5, <1>6, <1>9, <1>11 DEF unbuffered, Spent
  <2>2. <<"post_handler", "body_ok">> \o t = Push("post_handler", Push("body_ok", t))
    BY Zenon, <1>10, Call2
  <2>3. stack' = Push("post_handler", K2)
    BY <1>2, <1>4, <1>11, <2>2 DEF K2
  <2>4. Clause("post_handler", K2)'
    BY <2>1 DEF Clause, Handlers
  <2> QED
    BY <1>8, <1>10, <2>3, <2>4, Frames, Goes2
<1>12. CASE ~unbuffered
  <2>1. r'.reh = r.reh
    BY <1>5, <1>12
  <2>2. Settled'
    BY <1>3, <1>6, <1>7, <1>9, <2>1, SettledKept
  <2>3. rc' \in {"OK", "AGAIN", "400", "500"}
    BY <1>2, <1>3 DEF InBodyDone
  <2>4. Refused'
    BY <2>3 DEF Refused, Special, NoKeepalive
  <2>5. Clause("read_done", Tail1)'
    BY <2>2, <2>4 DEF Clause, Handlers
  <2>6. stack' = Push("read_done", Tail1)
    BY <1>1, <1>2, <1>4, <1>12, Call0 DEF Tail2
  <2> QED
    BY <1>8, <1>10, <2>5, <2>6, Frames, Goes2
<1> QED
  BY <1>11, <1>12
(* More of the body comes, or it fails, or it is complete. *)
LEMMA Waits2 ==
  ASSUME NEW t \in Stacks, Waits(t), stack' = t, General', Settled', Refused',
         rc' = "OK" => r'.rest <= 0, t = Push("unbuffered_done", K1) => r'.reading_body
  PROVE  FInv'
<1>1. "body_done" \in Names /\ "if_failed" \in Names /\ "unbuffered_done" \in Names
  BY DEF Names
<1>2. CASE t = Push("body_done", Tail2)
  <2>1. Clause("body_done", Tail2)'
    BY DEF Clause, Handlers
  <2> QED
    BY <1>1, <1>2, <2>1, Frames, Goes2
<1>3. CASE t = Push("if_failed", K1)
  <2>1. Clause("if_failed", K1)'
    BY DEF Clause, Handlers
  <2> QED
    BY <1>1, <1>3, <2>1, Frames, Goes2
<1>4. CASE t = Push("unbuffered_done", K1)
  <2>1. Clause("unbuffered_done", K1)'
    BY <1>4 DEF Clause, Handlers
  <2> QED
    BY <1>1, <1>4, <2>1, Frames, Goes2
<1> QED
  BY <1>2, <1>3, <1>4 DEF Waits

LEMMA DoReadClientRequestBody2 == ASSUME IInv, FInv, DoReadClientRequestBody PROVE FInv'
<1>1. PICK t \in Stacks : /\ t = Tail(stack) /\ c.open /\ Facts("do_read", t)
                          /\ General /\ Clause("do_read", t)
  BY Runs2 DEF DoReadClientRequestBody
<1>2. InDoRead(t) /\ BodyLeft /\ Waits(t)
  BY <1>1, WaitsIn DEF Facts
<1>3. /\ StoreR(r) /\ StoreB /\ DOMAIN r = RFields /\ DOMAIN c = CFields /\ r.rest \in Int
  BY DEF IInv, Store, StoreR, StoreC
<1>4. /\ c.handler = "request" /\ r.live /\ r.request_body /\ ~r.discard_body
      /\ r.reh \in {"body", "unbuffered"} /\ (r.reh = "unbuffered" => r.reading_body)
  <2>1. c.handler = "request" /\ r.live /\ r.request_body /\ ~r.discard_body
    BY <1>2 DEF BodyLeft, Serving
  <2>2. r.reh \in {"body", "unbuffered"}
    BY <1>2 DEF Waits, Unbuffered
  <2> QED
    BY <1>1, <2>1, <2>2 DEF General
<1>17. t = Push("unbuffered_done", K1) => r.reading_body
  <2>1. "body_done" \in Names /\ "if_failed" \in Names /\ "unbuffered_done" \in Names
    BY DEF Names
  <2>2. /\ Head(Push("body_done", Tail2)) = "body_done" /\ Head(Push("if_failed", K1)) = "if_failed"
        /\ Head(Push("unbuffered_done", K1)) = "unbuffered_done"
    BY <2>1, Frames, Pushed
  <2>3. t = Push("unbuffered_done", K1) => r.reh = "unbuffered"
    BY <1>2, <2>2 DEF Waits, Unbuffered
  <2> QED
    BY <1>4, <2>3
<1>5. ~(r.rest < 0)
  BY <1>3, <1>4 DEF StoreR
<1> DEFINE n == BodyUnits
<1>6. Len(net) \in Nat
  BY <1>3 DEF StoreB
<1>7. n \in 0..Len(net) /\ n \in Int /\ n <= r.rest
  <2>1. r.rest \in Nat
    BY <1>3, <1>5
  <2> QED
    BY <1>6, <2>1 DEF BodyUnits, Min2
<1>8. net' = Rest(net, n) /\ UNCHANGED <<client, buf>>
  BY DEF DoReadClientRequestBody
<1>9. \/ /\ r' = [r EXCEPT !.rest = @ - n] /\ rc' = "500" /\ stack' = t /\ UNCHANGED c
      \/ /\ r.rest <= n
         /\ r' = [r EXCEPT !.rest = 0, !.reh = IF r.no_buffering THEN @ ELSE "block"]
         /\ c' = [c EXCEPT !.rtimer = FALSE] /\ rc' = "OK"
         /\ stack' = (IF r.no_buffering THEN <<>> ELSE <<"post_handler", "body_ok">>) \o t
      \/ /\ r' = [r EXCEPT !.rest = @ - n] /\ stack' = t
         /\ \/ rc' = "AGAIN" /\ c' = [c EXCEPT !.ready = FALSE, !.rtimer = TRUE]
            \/ /\ rc' = "400"
               /\ c' = [c EXCEPT !.ready = FALSE, !.error = TRUE,
                                 !.eof = (@ \/ peer = "fin")]
  BY <1>1 DEF DoReadClientRequestBody, Return, Call
<1> HIDE DEF n
<1>10. r.rest > 0 => buf = <<>>
  BY <1>1, <1>4 DEF General, Emptied, Asked
<1>11. Unread' = Rest(Unread, n) /\ n \in 0..Len(Unread)
  <2>1. n = 0 \/ buf = <<>>
    BY <1>3, <1>7, <1>10
  <2> QED
    BY <1>3, <1>7, <1>8, <2>1, Drained2
<1>12. ASSUME r'.rest = r.rest - n, r'.q = r.q, r'.live = r.live, r'.keepalive = r.keepalive,
              c'.handler = c.handler, r'.reh = "unbuffered" => r'.reading_body
       PROVE  General'
  <2>1. Form' /\ Bodies'
    BY <1>1, <1>4, <1>7, <1>8, <1>11, <1>12, Taken2 DEF client
  <2>2. r'.rest > 0 => buf' = <<>>
    BY <1>3, <1>7, <1>8, <1>10, <1>12
  <2> QED
    BY <1>4, <1>12, <2>1, <2>2, Reading2
<1>13. ASSUME r' = [r EXCEPT !.rest = @ - n], c'.handler = c.handler, stack' = t,
              rc' \in {"AGAIN", "400", "500"}
       PROVE  FInv'
  <2>1. /\ r'.rest = r.rest - n /\ r'.q = r.q /\ r'.live = r.live /\ r'.keepalive = r.keepalive
        /\ r'.reh = r.reh /\ r'.reading_body = r.reading_body
    BY <1>3, <1>13 DEF RFields
  <2>2. General'
    BY <1>4, <1>12, <1>13, <2>1
  <2>3. Settled'
    BY <1>4, <2>1 DEF Settled, Left, Spent
  <2>4. Refused' /\ rc' # "OK"
    BY <1>13 DEF Refused, Special, NoKeepalive
  <2>5. t = Push("unbuffered_done", K1) => r'.reading_body
    BY <1>17, <2>1
  <2> QED
    BY <1>2, <1>13, <2>2, <2>3, <2>4, <2>5, Waits2
<1>14. CASE r' = [r EXCEPT !.rest = @ - n] /\ rc' = "500" /\ stack' = t /\ UNCHANGED c
  BY <1>13, <1>14
<1>15. CASE /\ r' = [r EXCEPT !.rest = @ - n] /\ stack' = t
            /\ \/ rc' = "AGAIN" /\ c' = [c EXCEPT !.ready = FALSE, !.rtimer = TRUE]
               \/ /\ rc' = "400"
                  /\ c' = [c EXCEPT !.ready = FALSE, !.error = TRUE,
                                    !.eof = (@ \/ peer = "fin")]
  <2>1. c'.handler = c.handler
    BY <1>3, <1>15 DEF CFields
  <2>2. rc' \in {"AGAIN", "400", "500"}
    BY <1>15
  <2> QED
    BY <1>13, <1>15, <2>1, <2>2
<1>16. CASE /\ r.rest <= n
            /\ r' = [r EXCEPT !.rest = 0, !.reh = IF r.no_buffering THEN @ ELSE "block"]
            /\ c' = [c EXCEPT !.rtimer = FALSE] /\ rc' = "OK"
            /\ stack' = (IF r.no_buffering THEN <<>> ELSE <<"post_handler", "body_ok">>) \o t
  <2>1. c'.handler = c.handler
    BY <1>3, <1>16 DEF CFields
  <2>2. /\ r'.rest = 0 /\ r'.q = r.q /\ r'.live = r.live /\ r'.keepalive = r.keepalive
        /\ r'.reading_body = r.reading_body /\ (r'.reh = r.reh \/ r'.reh = "block")
    BY <1>3, <1>16 DEF RFields
  <2>3. r'.rest = r.rest - n
    BY <1>3, <1>7, <1>16, <2>2
  <2>4. General'
    BY <1>4, <1>12, <2>1, <2>2, <2>3
  <2>5. Spent'
    BY <2>2 DEF Spent
  <2>6. CASE r.no_buffering
    <3>1. stack' = t
      BY <1>1, <1>16, <2>6, Call0
    <3>2. t = Push("unbuffered_done", K1) => r'.reading_body
      BY <1>17, <2>2
    <3> QED
      BY <1>2, <2>2, <2>4, <2>5, <3>1, <3>2, SpentThen, Waits2
  <2>7. CASE ~r.no_buffering
    <3>1. "post_handler" \in Names /\ "body_ok" \in Names
      BY DEF Names
    <3>2. stack' = <<"post_handler", "body_ok">> \o t
      BY <1>16, <2>7
    <3>3. <<"post_handler", "body_ok">> \o t = Push("post_handler", Push("body_ok", t))
      BY Zenon, <3>1, Call2
    <3>4. Push("body_ok", t) \in Stacks
      BY <3>1, Pushed
    <3>5. Clause("post_handler", Push("body_ok", t))'
      BY <2>5 DEF Clause, Handlers
    <3> QED
      BY <2>4, <3>1, <3>2, <3>3, <3>4, <3>5, Goes2
  <2> QED
    BY <2>6, <2>7
<1> QED
  BY <1>9, <1>14, <1>15, <1>16

LEMMA ReadBodyHandler2 == ASSUME IInv, FInv, ReadBodyHandler PROVE FInv'
<1>1. PICK t \in Stacks : /\ t = Tail(stack) /\ c.open /\ Facts("body", t)
                          /\ General /\ Clause("body", t)
  BY Runs2 DEF ReadBodyHandler
<1>2. t = K1 /\ c.handler = "request"
  BY <1>1 DEF Facts, InReader, Serving, Handlers
<1>3. Still /\ r' = r /\ c' = c
  BY DEF ReadBodyHandler, Still
<1>4. General'
  BY <1>1, <1>3, Same2
<1>5. CASE c.rtimedout
  <2>1. rc' = "408" /\ stack' = Push("finalize", K1)
    BY <1>1, <1>2, <1>5 DEF ReadBodyHandler, Call, Push
  <2>2. Refused' /\ rc' \notin {"DONE", "OK", "AGAIN"}
    BY <2>1 DEF Refused, Special
  <2> QED
    BY <1>2, <1>3, <1>4, <2>1, <2>2, Frames, Finalizes2
<1>6. CASE ~c.rtimedout
  <2>1. "do_read" \in Names /\ "if_failed" \in Names
    BY DEF Names
  <2>2. stack' = <<"do_read", "if_failed">> \o t
    BY <1>1, <1>6 DEF ReadBodyHandler, Call
  <2>3. <<"do_read", "if_failed">> \o t = Push("do_read", Push("if_failed", t))
    BY Zenon, <2>1, Call2
  <2>4. Push("if_failed", t) \in Stacks
    BY <2>1, Pushed
  <2> QED
    BY <1>4, <2>2, <2>3, <2>4, Plain2 DEF Plain
<1> QED
  BY <1>5, <1>6

LEMMA IfFailed2 == ASSUME IInv, FInv, IfFailed PROVE FInv'
<1>1. PICK t \in Stacks : /\ t = Tail(stack) /\ c.open /\ Facts("if_failed", t)
                          /\ General /\ Clause("if_failed", t)
  BY Runs2 DEF IfFailed
<1>2. t = K1 /\ (rc \in Special => c.handler = "request")
      /\ Refused /\ (rc \notin Special => Settled)
  BY <1>1 DEF Facts, InIfFailed, Answered, Clause
<1>3. Still /\ r' = r /\ c' = c /\ rc' = rc
  BY DEF IfFailed, Still
<1>4. General' /\ Settled' = Settled /\ Spent' = Spent
  BY <1>1, <1>3, Same2
<1>5. CASE rc \in Special
  <2>1. stack' = Push("finalize", K1)
    BY <1>1, <1>2, <1>5 DEF IfFailed, Call, Push
  <2>2. Refused' /\ rc' \notin {"DONE", "OK", "AGAIN"}
    BY <1>2, <1>3, <1>4, <1>5 DEF Refused, Special
  <2> QED
    BY <1>2, <1>3, <1>4, <1>5, <2>1, <2>2, Frames, Finalizes2
<1>6. CASE rc \notin Special
  <2>1. stack' = K1
    BY <1>1, <1>2, <1>6, Frames, Call0 DEF IfFailed, Call
  <2> QED
    BY <1>2, <1>4, <1>6, <2>1, AreKonts, Distinct, Back2
<1> QED
  BY <1>5, <1>6

(* The handler that waited for the body goes on. *)
LEMMA PostHandlerAnswers2 == ASSUME IInv, FInv, PostHandlerAnswers PROVE FInv'
<1>1. PICK t \in Stacks : /\ t = Tail(stack) /\ c.open /\ Facts("post_handler", t)
                          /\ General /\ Clause("post_handler", t)
  BY Runs2 DEF PostHandlerAnswers
<1>2. t \in Konts /\ c.handler = "request" /\ Spent
  BY <1>1 DEF Facts, InPostHandler, Konts, Answered, Clause
<1>3. Still /\ r' = r /\ c' = c
  BY DEF PostHandlerAnswers, Still
<1>4. General' /\ Spent'
  BY <1>1, <1>2, <1>3, Same2
<1>5. CASE Call(<<"output", "finalize">>)
  <2>1. "output" \in Names /\ "finalize" \in Names
    BY DEF Names
  <2>2. stack' = <<"output", "finalize">> \o t
    BY <1>1, <1>5 DEF Call
  <2>3. <<"output", "finalize">> \o t = Push("output", Push("finalize", t))
    BY Zenon, <2>1, Call2
  <2>4. Push("finalize", t) \in Stacks
    BY <2>1, Pushed
  <2> QED
    BY <1>4, <2>2, <2>3, <2>4, SpentThen, Outputs2
<1>6. CASE Call(<<"finalize">>) /\ rc' = "500"
  <2>1. stack' = Push("finalize", t)
    BY <1>1, <1>6 DEF Call, Push
  <2> QED
    BY <1>2, <1>3, <1>4, <1>6, <2>1, SpentThen, Finalizes2
<1> QED
  BY <1>5, <1>6 DEF PostHandlerAnswers

LEMMA PostHandlerUpstream2 == ASSUME IInv, FInv, PostHandlerUpstream PROVE FInv'
<1>1. PICK t \in Stacks : /\ t = Tail(stack) /\ c.open /\ Facts("post_handler", t)
                          /\ General /\ Clause("post_handler", t)
  BY Runs2 DEF PostHandlerUpstream
<1>2. t \in {K2, K3, K4} /\ t \in Konts /\ c.handler = "request" /\ Spent
  BY <1>1 DEF Facts, InPostHandler, Konts, Answered, Clause
<1>3. Still /\ DOMAIN r = RFields /\ DOMAIN c = CFields
  BY Fields2 DEF PostHandlerUpstream, Still
<1>4. c'.handler = c.handler
  BY <1>3 DEF PostHandlerUpstream, CFields
<1>5. /\ r'.reh = "broken" /\ r'.live = r.live /\ r'.q = r.q /\ r'.rest = r.rest
      /\ r'.keepalive = r.keepalive /\ r'.reading_body = r.reading_body
      /\ r'.request_body = r.request_body /\ r'.discard_body = r.discard_body
  BY <1>3 DEF PostHandlerUpstream, RFields
<1>6. Steady /\ StillR
  BY <1>4, <1>5 DEF Steady, StillR, Asked
<1>7. General' /\ Spent'
  BY <1>1, <1>2, <1>3, <1>6, GeneralKept, SpentKept
<1>8. stack' = t
  BY <1>1 DEF PostHandlerUpstream, Return
<1> QED
  BY <1>2, <1>4, <1>7, <1>8, SpentThen, Back2

LEMMA ReadUnbufferedRequestBody2 == ASSUME IInv, FInv, ReadUnbufferedRequestBody PROVE FInv'
<1>1. PICK t \in Stacks : /\ t = Tail(stack) /\ c.open /\ Facts("unbuffered", t)
                          /\ General /\ Clause("unbuffered", t)
  BY Runs2 DEF ReadUnbufferedRequestBody
<1>2. t = K1 /\ c.handler = "request"
  BY <1>1 DEF Facts, InReader, Serving, Handlers
<1>3. Still /\ c' = c /\ DOMAIN r = RFields
  BY Fields2 DEF ReadUnbufferedRequestBody, Still
<1>4. CASE c.rtimedout
  <2>1. rc' = "408" /\ r' = [r EXCEPT !.later = FALSE] /\ stack' = Push("finalize", K1)
    BY <1>1, <1>2, <1>4 DEF ReadUnbufferedRequestBody, Call, Push
  <2>2. Steady
    BY <1>3, <2>1 DEF Steady, Asked, RFields
  <2>3. General'
    BY <1>1, <1>3, <2>2, GeneralKept
  <2>4. Refused' /\ rc' \notin {"DONE", "OK", "AGAIN"}
    BY <2>1 DEF Refused, Special
  <2> QED
    BY <1>2, <1>3, <2>1, <2>3, <2>4, Frames, Finalizes2
<1>5. CASE ~c.rtimedout
  <2>1. "do_read" \in Names /\ "unbuffered_done" \in Names
    BY DEF Names
  <2>2. r' = r /\ stack' = <<"do_read", "unbuffered_done">> \o t
    BY <1>1, <1>5 DEF ReadUnbufferedRequestBody, Call
  <2>3. <<"do_read", "unbuffered_done">> \o t = Push("do_read", Push("unbuffered_done", t))
    BY Zenon, <2>1, Call2
  <2>4. Push("unbuffered_done", t) \in Stacks
    BY <2>1, Pushed
  <2>5. General'
    BY <1>1, <1>3, <2>2, Same2
  <2> QED
    BY <2>2, <2>3, <2>4, <2>5, Plain2 DEF Plain
<1> QED
  BY <1>4, <1>5

LEMMA UnbufferedDone2 == ASSUME IInv, FInv, UnbufferedDone PROVE FInv'
<1>1. PICK t \in Stacks : /\ t = Tail(stack) /\ c.open /\ Facts("unbuffered_done", t)
                          /\ General /\ Clause("unbuffered_done", t)
  BY Runs2 DEF UnbufferedDone
<1>2. t = K1 /\ c.handler = "request" /\ r.reading_body /\ (rc = "OK" => r.rest <= 0)
  BY <1>1 DEF Facts, InUnbufferedDone, Unbuffered, BodyLeft, Serving, Clause
<1>3. Still /\ c' = c /\ rc' = rc /\ DOMAIN r = RFields
  BY Fields2 DEF UnbufferedDone, Still
<1>4. /\ r' = [r EXCEPT !.reading_body = @ /\ rc # "OK",
                        !.reh = IF rc = "OK" THEN "broken" ELSE @,
                        !.later = @ /\ rc \notin Special]
      /\ stack' = (IF rc \in Special THEN <<"finalize">> ELSE <<>>) \o t
  BY <1>1 DEF UnbufferedDone, Call
<1>5. /\ r'.reh = (IF rc = "OK" THEN "broken" ELSE r.reh)
      /\ (r'.reading_body <=> r.reading_body /\ rc # "OK")
  BY <1>3, <1>4 DEF RFields
<1>6. /\ r'.live = r.live /\ r'.q = r.q /\ r'.rest = r.rest /\ r'.keepalive = r.keepalive
      /\ r'.request_body = r.request_body /\ r'.discard_body = r.discard_body
  BY <1>3, <1>4 DEF RFields
<1>7. Steady
  BY <1>3, <1>5, <1>6 DEF Steady, Asked
<1>8. General'
  BY <1>1, <1>3, <1>7, GeneralKept
<1>9. Spent'
  BY <1>2, <1>5, <1>6 DEF Spent
<1>10. CASE rc \in Special
  <2>1. stack' = Push("finalize", K1)
    BY <1>2, <1>4, <1>10 DEF Push
  <2>2. rc' \notin {"DONE", "OK", "AGAIN"}
    BY <1>3, <1>10 DEF Special
  <2> QED
    BY <1>2, <1>3, <1>8, <1>9, <2>1, <2>2, Frames, SpentThen, Finalizes2
<1>11. CASE rc \notin Special
  <2>1. stack' = K1
    BY <1>2, <1>4, <1>11, Frames, Call0
  <2> QED
    BY <1>8, <1>9, <2>1, AreKonts, Distinct, SpentThen, Back2
<1> QED
  BY <1>10, <1>11
-----------------------------------------------------------------------------
(* The body of the request is discarded. *)
LEMMA Discarded2 ==
  ASSUME NEW t \in Stacks, InDiscard(t), stack' = t, General', rc' = "OK" => Left'
  PROVE  FInv'
<1>1. "special" \in Names /\ "too_large" \in Names /\ "unless_failed" \in Names
  BY DEF Names
<1>2. ASSUME NEW k \in Konts, t = Push("special", Chain(k)) PROVE FInv'
  <2>1. Clause("special", Chain(k))'
    BY DEF Clause, Handlers
  <2> QED
    BY <1>1, <1>2, <2>1, ChainIn, Goes2
<1>3. ASSUME t = Push("too_large", Tail1) PROVE FInv'
  BY <1>3, Frames, Plain2 DEF Plain
<1>4. ASSUME t = Push("unless_failed", Chain(K1)) PROVE FInv'
  <2>1. Clause("unless_failed", Chain(K1))'
    BY DEF Clause, Handlers
  <2> QED
    BY <1>1, <1>4, <2>1, AreKonts, ChainIn, Goes2
<1> QED
  BY <1>2, <1>3, <1>4 DEF InDiscard, Refusals

LEMMA DiscardRequestBody2 == ASSUME IInv, FInv, DiscardRequestBody PROVE FInv'
<1>1. PICK t \in Stacks : /\ t = Tail(stack) /\ c.open /\ Facts("discard", t)
                          /\ General /\ Clause("discard", t)
  BY Runs2 DEF DiscardRequestBody
<1>2. InDiscard(t) /\ (r.request_body => Spent)
  BY <1>1 DEF Facts, Clause
<1>3. /\ c.handler = "request" /\ r.live
      /\ ~r.request_body => r.reh # "unbuffered"
  BY <1>2 DEF InDiscard, Unasked, Answered, Pending
<1>4. /\ UNCHANGED <<client, net>> /\ StoreB /\ r.rest \in Int
      /\ DOMAIN r = RFields /\ DOMAIN c = CFields
  BY DEF DiscardRequestBody, IInv, Store, StoreR, StoreC
<1>5. ASSUME Return, UNCHANGED <<c, r, buf>>, rc' = "OK" => Left PROVE FInv'
  <2>1. Still /\ stack' = t
    BY <1>1, <1>4, <1>5 DEF Return, Still
  <2>2. General' /\ Left' = Left
    BY <1>1, <1>5, <2>1, Same2
  <2> QED
    BY <1>2, <1>5, <2>1, <2>2, Discarded2
<1>6. CASE r.discard_body \/ r.request_body
  <2>1. Return /\ UNCHANGED <<c, r, buf>>
    BY <1>6 DEF DiscardRequestBody
  <2>2. Left
    BY <1>2, <1>6 DEF Left
  <2> QED
    BY <1>5, <2>1, <2>2
<1>7. CASE rc' = "500" /\ Return /\ UNCHANGED <<c, r, buf>>
  BY <1>5, <1>7
<1>8. CASE ~(r.discard_body \/ r.request_body)
           /\ ~(rc' = "500" /\ Return /\ UNCHANGED <<c, r, buf>>)
  <2> DEFINE n == IF r.rest <= 0 THEN 0 ELSE Min2(r.rest, Len(buf))
  <2>1. Len(buf) \in Nat
    BY <1>4 DEF StoreB
  <2>2. /\ n \in 0..Len(buf) /\ n \in Int /\ (n = 0 \/ n <= r.rest)
        /\ (r.rest - n > 0 => n = Len(buf))
    BY <1>4, <2>1 DEF Min2
  <2>3. /\ c' = [c EXCEPT !.rtimer = FALSE] /\ buf' = Rest(buf, n)
        /\ r' = [r EXCEPT !.rest = @ - n]
        /\ IF r.rest - n <= 0
           THEN rc' = "OK" /\ stack' = t
           ELSE UNCHANGED rc /\ stack' = <<"read_discarded", "discard_rest">> \o t
    BY <1>1, <1>8 DEF DiscardRequestBody, Return, Call
  <2> HIDE DEF n
  <2>4. c'.handler = "request"
    BY <1>3, <1>4, <2>3 DEF CFields
  <2>5. /\ r'.rest = r.rest - n /\ r'.q = r.q /\ r'.live = r.live /\ r'.keepalive = r.keepalive
        /\ r'.reh = r.reh
    BY <1>4, <2>3 DEF RFields
  <2>6. Unread' = Rest(Unread, n) /\ n \in 0..Len(Unread)
    BY <1>4, <2>2, <2>3, UnreadEaten
  <2>7. Form' /\ Bodies'
    BY <1>1, <1>3, <1>4, <2>2, <2>4, <2>5, <2>6, Taken2 DEF client
  <2>8. r'.rest > 0 => buf' = <<>>
    <3>1. buf \in Seq(UnitSet)
      BY <1>4 DEF StoreB
    <3>2. Rest(buf, n) \in Seq(UnitSet) /\ Len(Rest(buf, n)) = Len(buf) - n
      BY <2>2, <3>1, RestIs
    <3>3. r'.rest > 0 => Len(Rest(buf, n)) = 0
      BY <2>1, <2>2, <2>5, <3>2
    <3> QED
      BY <2>3, <3>2, <3>3, EmptySeq
  <2>9. General'
    BY <1>3, <1>8, <2>4, <2>5, <2>7, <2>8, Reading2
  <2>10. CASE r.rest - n <= 0
    <3>1. Left'
      BY <2>5, <2>10 DEF Left, Spent
    <3> QED
      BY <1>2, <2>3, <2>9, <2>10, <3>1, Discarded2
  <2>11. CASE ~(r.rest - n <= 0)
    <3> DEFINE u == Push("discard_rest", t)
    <3>1. "read_discarded" \in Names /\ "discard_rest" \in Names
      BY DEF Names
    <3>2. <<"read_discarded", "discard_rest">> \o t = Push("read_discarded", u)
      BY Zenon, <3>1, Call2
    <3>3. u \in Stacks /\ Head(u) = "discard_rest"
      BY <3>1, Pushed
    <3> HIDE DEF u
    <3>4. Clause("read_discarded", u)'
      BY <2>8, <3>3 DEF Clause, Handlers
    <3> QED
      BY <2>3, <2>9, <2>11, <3>1, <3>2, <3>3, <3>4, Goes2
  <2> QED
    BY <2>10, <2>11
<1> QED
  BY <1>6, <1>7, <1>8

LEMMA ReadDiscardedRequestBody2 == ASSUME IInv, FInv, ReadDiscardedRequestBody PROVE FInv'
<1>1. PICK t \in Stacks : /\ t = Tail(stack) /\ c.open /\ Facts("read_discarded", t)
                          /\ General /\ Clause("read_discarded", t)
  BY Runs2 DEF ReadDiscardedRequestBody
<1>2. InReadDiscarded(t)
  BY <1>1 DEF Facts
<1>3. /\ StoreR(r) /\ StoreC(c) /\ StoreB /\ DOMAIN r = RFields /\ DOMAIN c = CFields
      /\ r.rest \in Int /\ peer \in {"open", "fin", "reset"}
  BY DEF IInv, Store, StoreR, StoreC, StoreB
<1>4. r.rest \in Nat /\ c.handler = "request" /\ r.live /\ r.reh # "unbuffered"
  BY <1>2, <1>3 DEF InReadDiscarded, StoreR, Serving, Unasked, Answered, Pending
<1> DEFINE n == IF c.ready THEN BodyUnits ELSE 0
<1>5. Len(net) \in Nat
  BY <1>3 DEF StoreB
<1>6. /\ n \in 0..Len(net) /\ n \in Int /\ n <= r.rest
      /\ c.ready => n = r.rest \/ n = Len(net)
  BY <1>4, <1>5 DEF BodyUnits, Min2
<1>7. /\ net' = Rest(net, n) /\ stack' = t
      /\ r' = [r EXCEPT !.rest = @ - n, !.reh = IF r.rest = n THEN "block" ELSE @]
      /\ (c' = c \/ c' = [c EXCEPT !.ready = FALSE] \/
          c' = [c EXCEPT !.ready = FALSE, !.eof = (@ \/ peer = "fin"),
                         !.error = (@ \/ peer = "reset")])
  BY <1>1 DEF ReadDiscardedRequestBody, Return
<1>8. /\ UNCHANGED <<client, buf>>
      /\ rc' = "OK" => r.rest <= n \/ (c.ready /\ peer # "open")
  BY DEF ReadDiscardedRequestBody
<1> HIDE DEF n
<1>9. c'.handler = "request"
  BY <1>3, <1>4, <1>7 DEF CFields
<1>10. /\ r'.rest = r.rest - n /\ r'.q = r.q /\ r'.live = r.live /\ r'.keepalive = r.keepalive
       /\ r'.reh # "unbuffered"
       /\ r'.reading_body = r.reading_body /\ r'.discard_body = r.discard_body
  BY <1>3, <1>4, <1>7 DEF RFields
<1>11. r.rest > 0 => buf = <<>>
  BY <1>1 DEF Clause
<1>12. Unread' = Rest(Unread, n) /\ n \in 0..Len(Unread)
  <2>1. n = 0 \/ buf = <<>>
    BY <1>4, <1>6, <1>11
  <2> QED
    BY <1>3, <1>6, <1>7, <1>8, <2>1, Drained2
<1>13. Form' /\ Bodies'
  BY <1>1, <1>4, <1>6, <1>8, <1>9, <1>10, <1>12, Taken2 DEF client
<1>14. r'.rest > 0 => buf' = <<>>
  BY <1>4, <1>6, <1>8, <1>10, <1>11
<1>15. General'
  BY <1>9, <1>10, <1>13, <1>14, Reading2
<1>16. /\ n = Len(net) => net' = <<>>
       /\ net = <<>> => net' = <<>>
  <2>1. net \in Seq(UnitSet)
    BY <1>3 DEF StoreB
  <2>2. Rest(net, n) \in Seq(UnitSet) /\ Len(Rest(net, n)) = Len(net) - n
    BY <1>6, <2>1, RestIs
  <2>3. net = <<>> => n = Len(net)
    BY <1>6, <2>1, EmptySeq
  <2>4. n = Len(net) => Len(Rest(net, n)) = 0
    BY <1>5, <1>6, <2>2
  <2> QED
    BY <1>7, <2>2, <2>3, <2>4, EmptySeq
<1>17. rc' = "OK" => Spent'
  <2>1. CASE r.rest <= n
    <3>1. r'.rest <= 0
      BY <1>4, <1>6, <1>10, <2>1
    <3> QED
      BY <3>1 DEF Spent
  <2>2. CASE ~(r.rest <= n) /\ c.ready /\ peer = "fin"
    <3>1. n = Len(net) /\ buf = <<>>
      BY <1>4, <1>6, <1>11, <2>2
    <3>2. Ended'
      BY <1>8, <1>16, <2>2, <3>1 DEF Ended, client
    <3> QED
      BY <3>2 DEF Spent
  <2>3. CASE peer = "reset"
    BY <1>8, <2>3 DEF Spent, client
  <2> QED
    BY <1>3, <1>8, <2>1, <2>2, <2>3
<1>18. Left => Left'
  <2>1. r.rest <= 0 => r'.rest <= 0
    BY <1>4, <1>6, <1>10
  <2>2. Ended => Ended'
    BY <1>8, <1>16 DEF Ended, client
  <2> QED
    BY <1>8, <1>10, <2>1, <2>2 DEF Left, Spent, client
<1>19. "discarded_done" \in Names /\ "discard_rest" \in Names
  BY DEF Names
<1>20. CASE t = Push("discarded_done", K1)
  <2>1. Head(t) = "discarded_done"
    BY <1>19, <1>20, Frames, Pushed
  <2>2. Left'
    BY <1>1, <1>18, <2>1 DEF Clause
  <2>3. Clause("discarded_done", K1)'
    BY <1>17, <2>2 DEF Clause, Handlers
  <2> QED
    BY <1>7, <1>15, <1>19, <1>20, <2>3, Frames, Goes2
<1>21. ASSUME NEW x \in Discards, t = Push("discard_rest", x) PROVE FInv'
  <2>1. Clause("discard_rest", x)'
    BY <1>14, <1>17 DEF Clause, Handlers
  <2> QED
    BY <1>7, <1>15, <1>19, <1>21, <2>1, DiscardsIn, Goes2
<1> QED
  BY <1>2, <1>20, <1>21 DEF InReadDiscarded

LEMMA DiscardRest2 == ASSUME IInv, FInv, DiscardRest PROVE FInv'
<1>1. PICK t \in Stacks : /\ t = Tail(stack) /\ c.open /\ Facts("discard_rest", t)
                          /\ General /\ Clause("discard_rest", t)
  BY Runs2 DEF DiscardRest
<1>2. t \in Discards /\ Unasked /\ (r.rest > 0 => buf = <<>>) /\ (rc = "OK" => Spent)
  BY <1>1 DEF Facts, InDiscardRest, Clause
<1>3. InDiscard(t)
  BY <1>2, AreKonts DEF InDiscard, Discards, Unasked
<1>4. Still /\ c' = c /\ stack' = t /\ DOMAIN r = RFields
  BY <1>1, Fields2 DEF DiscardRest, Still, Return
<1>5. c.handler = "request" /\ r.live /\ r.reh # "unbuffered"
  BY <1>2 DEF Unasked, Answered, Pending
<1>6. CASE rc = "OK"
  <2>1. r' = [r EXCEPT !.lingering_close = FALSE]
    BY <1>6 DEF DiscardRest
  <2>2. Steady /\ StillR
    BY <1>4, <2>1 DEF Steady, StillR, Asked, RFields
  <2>3. General' /\ Left'
    BY <1>1, <1>2, <1>4, <1>6, <2>2, GeneralKept, SpentKept DEF Left
  <2> QED
    BY <1>3, <1>4, <2>3, Discarded2
<1>7. CASE rc # "OK"
  <2>1. r' = [r EXCEPT !.reh = "discarded", !.count = @ + 1, !.discard_body = TRUE]
    BY <1>7 DEF DiscardRest
  <2>2. /\ r'.rest = r.rest /\ r'.q = r.q /\ r'.live = r.live /\ r'.keepalive = r.keepalive
        /\ r'.reh = "discarded" /\ r'.discard_body
    BY <1>4, <2>1 DEF RFields
  <2>3. Unread' = Unread /\ peer' = peer /\ buf' = buf /\ script' = script
    BY <1>4, TextKept DEF Still, client
  <2>4. Form'
    BY <1>1, <1>4, <2>3, FormKept DEF General
  <2>5. Bodies'
    BY <1>1, <1>4, <2>2, <2>3 DEF General, Bodies, Ahead, Size
  <2>6. General'
    BY <1>2, <1>4, <1>5, <2>2, <2>3, <2>4, <2>5, Reading2
  <2>7. Left'
    BY <2>2 DEF Left
  <2> QED
    BY <1>3, <1>4, <2>6, <2>7, Discarded2
<1> QED
  BY <1>6, <1>7

LEMMA DiscardedRequestBodyHandler2 == ASSUME IInv, FInv, DiscardedRequestBodyHandler PROVE FInv'
<1>1. PICK t \in Stacks : /\ t = Tail(stack) /\ c.open /\ Facts("discarded", t)
                          /\ General /\ Clause("discarded", t)
  BY Runs2 DEF DiscardedRequestBodyHandler
<1>2. t = K1 /\ c.handler = "request" /\ r.live /\ ~r.posted /\ r.reh = "discarded" /\ Settled
  BY <1>1 DEF Facts, InReader, Serving, Handlers, Clause
<1>3. Still /\ DOMAIN r = RFields /\ DOMAIN c = CFields
  BY Fields2 DEF DiscardedRequestBodyHandler, Still
<1>4. CASE c.rtimedout \/ r.lingering_time = "passed"
  <2>1. /\ rc' = "ERROR" /\ stack' = Push("finalize", K1)
        /\ (c' = [c EXCEPT !.error = TRUE] \/ c' = c)
        /\ (r' = r \/ r' = [r EXCEPT !.discard_body = FALSE, !.lingering_close = FALSE])
    BY <1>1, <1>2, <1>4 DEF DiscardedRequestBodyHandler, Call, Push
  <2>2. c'.handler = "request"
    BY <1>2, <1>3, <2>1 DEF CFields
  <2>3. /\ r'.live = r.live /\ r'.q = r.q /\ r'.rest = r.rest /\ r'.keepalive = r.keepalive
        /\ r'.request_body = r.request_body /\ (r'.discard_body => r.discard_body)
        /\ r'.reh = r.reh /\ r'.reading_body = r.reading_body
    BY <1>3, <2>1 DEF RFields
  <2>4. Steady
    BY <1>2, <2>2, <2>3 DEF Steady, Asked
  <2>5. General' /\ Refused'
    BY <1>1, <1>3, <2>1, <2>4, GeneralKept DEF Refused, Special
  <2> QED
    BY <2>1, <2>2, <2>5, Frames, Finalizes2
<1>5. CASE ~c.rtimedout /\ r.lingering_time # "passed"
  <2> DEFINE u == Push("discarded_done", K1)
  <2>1. r' = r /\ c' = c /\ stack' = <<"read_discarded", "discarded_done">> \o t
    BY <1>1, <1>5 DEF DiscardedRequestBodyHandler, Call
  <2>2. "read_discarded" \in Names /\ "discarded_done" \in Names
    BY DEF Names
  <2>3. <<"read_discarded", "discarded_done">> \o t
          = Push("read_discarded", Push("discarded_done", t))
    BY Zenon, <2>2, Call2
  <2>4. stack' = Push("read_discarded", u)
    BY <1>2, <2>1, <2>3
  <2>5. u \in Stacks
    BY <2>2, Frames, Pushed
  <2> HIDE DEF u
  <2>6. General' /\ Left' = Left
    BY <1>1, <1>3, <2>1, Same2
  <2>7. Left
    BY <1>2 DEF Settled
  <2>8. r'.rest > 0 => buf' = <<>>
    BY <1>1, <1>2, <1>3, <2>1 DEF General, Emptied, Asked, Still
  <2>9. Clause("read_discarded", u)'
    BY <2>6, <2>7, <2>8 DEF Clause, Handlers
  <2> QED
    BY <2>2, <2>4, <2>5, <2>6, <2>9, Goes2
<1> QED
  BY <1>4, <1>5

LEMMA DiscardedDone2 == ASSUME IInv, FInv, DiscardedDone PROVE FInv'
<1>1. PICK t \in Stacks : /\ t = Tail(stack) /\ c.open /\ Facts("discarded_done", t)
                          /\ General /\ Clause("discarded_done", t)
  BY Runs2 DEF DiscardedDone
<1>2. t = K1 /\ c.handler = "request" /\ Left /\ (rc = "OK" => Spent)
  BY <1>1 DEF Facts, InDiscardedDone, Serving, Clause
<1>3. Still /\ DOMAIN r = RFields /\ DOMAIN c = CFields
  BY Fields2 DEF DiscardedDone, Still
<1>4. CASE rc = "OK"
  <2>1. /\ r' = [r EXCEPT !.discard_body = FALSE, !.lingering_close = FALSE] /\ c' = c
        /\ rc' = "DONE" /\ stack' = Push("finalize", K1)
    BY <1>1, <1>2, <1>4 DEF DiscardedDone, Call, Push
  <2>2. /\ r'.live = r.live /\ r'.q = r.q /\ r'.rest = r.rest /\ r'.keepalive = r.keepalive
        /\ r'.request_body = r.request_body /\ ~r'.discard_body
        /\ r'.reh = r.reh /\ r'.reading_body = r.reading_body
    BY <1>3, <2>1 DEF RFields
  <2>3. Steady /\ StillR
    BY <2>1, <2>2 DEF Steady, StillR, Asked
  <2>4. General' /\ Spent'
    BY <1>1, <1>2, <1>3, <1>4, <2>3, GeneralKept, SpentKept
  <2> QED
    BY <1>2, <2>1, <2>4, Frames, SpentThen, Finalizes2
<1>5. CASE rc # "OK"
  <2>1. c' = [c EXCEPT !.rtimer = @ \/ r.lingering_time = "set"] /\ r' = r /\ stack' = K1
    BY <1>1, <1>2, <1>5 DEF DiscardedDone, Return
  <2>2. c'.handler = c.handler
    BY <1>3, <2>1 DEF CFields
  <2>3. General' /\ Left'
    BY <1>1, <1>2, <1>3, <2>1, <2>2, Same2
  <2> QED
    BY <2>1, <2>3, AreKonts, Distinct, Back2 DEF Settled
<1> QED
  BY <1>4, <1>5
-----------------------------------------------------------------------------
(* What the client sends has the form: it is kept when texts are joined that *)
(* end where a request ends.                                                 *)
Whole(s) ==
  \A i \in 1..Len(s) :
    /\ s[i].k \in {"part", "line", "hdr"} => i < Len(s)
    /\ s[i].k = "head" => i + BodyLen(s[i].q) <= Len(s)
Formed(s) == Framed(s) /\ Whole(s) /\ Begins(s)

LEMMA FormedJoined ==
  ASSUME script \in Seq(Requests), NEW a \in Seq(UnitSet), NEW b \in Seq(UnitSet),
         Formed(a), Formed(b)
  PROVE  Formed(a \o b)
<1> DEFINE z == a \o b
           m == Len(a)
<1>1. /\ z \in Seq(UnitSet) /\ Len(z) = m + Len(b) /\ m \in Nat /\ Len(b) \in Nat
      /\ \A i \in 1..(m + Len(b)) : z[i] = IF i <= m THEN a[i] ELSE b[i - m]
  BY ConcatProperties
<1> HIDE DEF z, m
<1>2. ASSUME NEW i \in 1..m PROVE i \in 1..Len(z) /\ z[i] = a[i] /\ z[i] \in UnitSet
  <2>1. i \in 1..(m + Len(b)) /\ i <= m /\ i \in 1..Len(a)
    BY <1>1 DEF m
  <2> QED
    BY <1>1, <2>1
<1>3. ASSUME NEW i \in 1..Len(b) PROVE i + m \in 1..Len(z) /\ z[i + m] = b[i]
  <2>1. i + m \in 1..(m + Len(b)) /\ ~(i + m <= m) /\ i + m - m = i
    BY <1>1
  <2> QED
    BY <1>1, <2>1
<1>4. Len(b) >= 1 => z[m + 1] = b[1] /\ b[1].k \in {"part", "line"}
  <2>1. Len(b) >= 1 => 1 \in 1..Len(b) /\ 1 + m = m + 1 /\ b # <<>>
    BY <1>1, EmptySeq
  <2>2. b # <<>> => b[1].k \in {"part", "line"}
    BY DEF Formed, Begins
  <2>3. Len(b) >= 1 => z[1 + m] = b[1]
    BY <1>3, <2>1
  <2> QED
    BY <2>1, <2>2, <2>3
(* A unit of the first text, and what follows it there. *)
<1>5. ASSUME NEW i \in 1..m
      PROVE  /\ Follows(z, i)
             /\ z[i].k \in {"part", "line", "hdr"} => i < Len(z)
             /\ z[i].k = "head" => i + BodyLen(z[i].q) <= Len(z)
  <2> DEFINE q == z[i].q
             n == BodyLen(q)
  <2>1. z[i] = a[i] /\ z[i] \in UnitSet /\ i \in 1..Len(a)
    BY <1>2, <1>5 DEF m
  <2>2. n \in Nat
    BY <2>1, BodyLenIn
  <2>3. /\ z[i].k \in {"part", "line", "hdr"} => i < m
        /\ z[i].k = "head" => i + n <= m
    BY <2>1 DEF Formed, Whole, m
  <2>4. /\ z[i].k = "part" /\ i < m => a[i + 1].k \in {"part", "line"}
        /\ z[i].k \in {"line", "hdr"} /\ i < m => a[i + 1].k \in {"hdr", "head"} /\ a[i + 1].q = q
    BY <2>1 DEF Formed, Framed, Follows, m
  <2>5. z[i].k = "head" =>
          /\ \A j \in (i + 1)..(i + n) : j <= m => a[j] = Unit("body", q)
          /\ i + n < m => a[i + n + 1].k \in {"part", "line"}
    BY <2>1 DEF Formed, Framed, Follows, m
  <2> HIDE DEF n, q
  <2>6. i < m => i + 1 \in 1..m /\ z[i + 1] = a[i + 1]
    <3>1. i < m => i + 1 \in 1..m
      BY <1>1
    <3> QED
      BY <1>2, <3>1
  <2>7. /\ z[i].k = "part" => z[i + 1].k \in {"part", "line"}
        /\ z[i].k \in {"line", "hdr"} => z[i + 1].k \in {"hdr", "head"} /\ z[i + 1].q = q
    BY <2>3, <2>4, <2>6
  <2>8. ASSUME z[i].k = "head", NEW j \in (i + 1)..(i + n) PROVE z[j] = Unit("body", q)
    <3>1. j \in 1..m /\ j <= m
      BY <1>1, <2>2, <2>3, <2>8
    <3>2. z[j] = a[j]
      BY <1>2, <3>1
    <3> QED
      BY <2>5, <2>8, <3>1, <3>2
  <2>9. ASSUME z[i].k = "head", i + n < Len(z) PROVE z[i + n + 1].k \in {"part", "line"}
    <3>1. CASE i + n < m
      <4>1. i + n + 1 \in 1..m
        BY <1>1, <2>2, <3>1
      <4>2. z[i + n + 1] = a[i + n + 1]
        BY <1>2, <4>1
      <4> QED
        BY <2>5, <2>9, <3>1, <4>2
    <3>2. CASE ~(i + n < m)
      <4>1. i + n = m /\ Len(b) >= 1
        BY <1>1, <2>2, <2>3, <2>9, <3>2
      <4> QED
        BY <1>4, <4>1
    <3> QED
      BY <3>1, <3>2
  <2>10. m <= Len(z)
    BY <1>1
  <2>11. Follows(z, i)
    BY <2>7, <2>8, <2>9 DEF Follows, n, q
  <2>12. /\ z[i].k \in {"part", "line", "hdr"} => i < Len(z)
         /\ z[i].k = "head" => i + n <= Len(z)
    BY <1>1, <2>2, <2>3, <2>10
  <2> QED
    BY <2>11, <2>12 DEF n, q
(* A unit of the second. *)
<1>6. ASSUME NEW x \in 1..Len(b)
      PROVE  /\ Follows(z, x + m)
             /\ z[x + m].k \in {"part", "line", "hdr"} => x + m < Len(z)
             /\ z[x + m].k = "head" => x + m + BodyLen(z[x + m].q) <= Len(z)
  <2> DEFINE q == b[x].q
             n == BodyLen(q)
  <2>1. z[x + m] = b[x] /\ b[x] \in UnitSet
    BY <1>3, <1>6
  <2>2. n \in Nat
    BY <2>1, BodyLenIn
  <2>3. /\ b[x].k \in {"part", "line", "hdr"} => x < Len(b)
        /\ b[x].k = "head" => x + n <= Len(b)
    BY <1>6 DEF Formed, Whole
  <2>4. /\ b[x].k = "part" /\ x < Len(b) => b[x + 1].k \in {"part", "line"}
        /\ b[x].k \in {"line", "hdr"} /\ x < Len(b) =>
             b[x + 1].k \in {"hdr", "head"} /\ b[x + 1].q = q
    BY <1>6 DEF Formed, Framed, Follows
  <2>5. b[x].k = "head" =>
          /\ \A j \in (x + 1)..(x + n) : j <= Len(b) => b[j] = Unit("body", q)
          /\ x + n < Len(b) => b[x + n + 1].k \in {"part", "line"}
    BY <1>6 DEF Formed, Framed, Follows
  <2> HIDE DEF n, q
  <2>6. x < Len(b) => z[x + m + 1] = b[x + 1]
    <3>1. x < Len(b) => x + 1 \in 1..Len(b) /\ x + 1 + m = x + m + 1
      BY <1>1
    <3>2. x < Len(b) => z[x + 1 + m] = b[x + 1]
      BY <1>3, <3>1
    <3> QED
      BY <3>1, <3>2
  <2>7. /\ b[x].k = "part" => z[x + m + 1].k \in {"part", "line"}
        /\ b[x].k \in {"line", "hdr"} =>
             z[x + m + 1].k \in {"hdr", "head"} /\ z[x + m + 1].q = q
    BY <2>3, <2>4, <2>6
  <2>8. ASSUME b[x].k = "head", NEW j \in (x + m + 1)..(x + m + n) PROVE z[j] = Unit("body", q)
    <3> DEFINE y == j - m
    <3>3. j \in Int /\ x + m + 1 <= j /\ j <= x + m + n /\ x \in Int /\ x >= 1
      BY <1>1, <2>2, <2>8
    <3>4. y \in Int /\ y + m = j /\ x + 1 <= y /\ y <= x + n
      BY <1>1, <2>2, <3>3
    <3> HIDE DEF y
    <3>5. x + n <= Len(b)
      BY <2>3, <2>8
    <3>6. 1 <= y /\ y <= Len(b)
      BY <1>1, <2>2, <3>3, <3>4, <3>5
    <3>1. y \in 1..Len(b) /\ y \in (x + 1)..(x + n) /\ y <= Len(b) /\ y + m = j
      BY <1>1, <2>2, <3>3, <3>4, <3>6
    <3>2. z[y + m] = b[y]
      BY <1>3, <3>1
    <3> QED
      BY <2>5, <2>8, <3>1, <3>2
  <2>9. ASSUME b[x].k = "head", x + m + n < Len(z)
        PROVE  z[x + m + n + 1].k \in {"part", "line"}
    <3>1. x + n < Len(b) /\ x + n + 1 \in 1..Len(b) /\ x + n + 1 + m = x + m + n + 1
      BY <1>1, <2>2, <2>9
    <3>2. z[x + n + 1 + m] = b[x + n + 1]
      BY <1>3, <3>1
    <3> QED
      BY <2>5, <2>9, <3>1, <3>2
  <2>10. Follows(z, x + m)
    BY <2>1, <2>7, <2>8, <2>9 DEF Follows, n, q
  <2>11. /\ b[x].k \in {"part", "line", "hdr"} => x + m < Len(z)
         /\ b[x].k = "head" => x + m + n <= Len(z)
    BY <1>1, <2>2, <2>3
  <2> QED
    BY <2>1, <2>10, <2>11 DEF n, q
<1>7. ASSUME NEW i \in 1..Len(z)
      PROVE  /\ Follows(z, i)
             /\ z[i].k \in {"part", "line", "hdr"} => i < Len(z)
             /\ z[i].k = "head" => i + BodyLen(z[i].q) <= Len(z)
  <2>1. CASE i <= m
    <3>1. i \in 1..m
      BY <1>1, <2>1
    <3> QED
      BY <1>5, <3>1
  <2>2. CASE ~(i <= m)
    <3>1. PICK x \in 1..Len(b) : x + m = i
      <4>1. i - m \in 1..Len(b) /\ i - m + m = i
        BY <1>1, <2>2
      <4> QED
        BY <4>1
    <3> QED
      BY <1>6, <3>1
  <2> QED
    BY <2>1, <2>2
<1>8. Begins(z)
  <2>1. CASE m = 0
    <3>1. z # <<>> => Len(b) >= 1
      BY <1>1, <2>1, EmptySeq
    <3> QED
      BY <1>4, <2>1, <3>1 DEF Begins
  <2>2. CASE m # 0
    <3>1. 1 \in 1..m /\ a # <<>>
      BY <1>1, <2>2, EmptySeq DEF m
    <3>2. z[1] = a[1]
      BY <1>2, <3>1
    <3> QED
      BY <3>1, <3>2 DEF Begins, Formed
  <2> QED
    BY <2>1, <2>2
<1> QED
  BY <1>7, <1>8 DEF Formed, Framed, Whole, z

(* The units of one request. *)
LEMMA RequestFormed ==
  ASSUME script \in Seq(Requests), NEW q \in 1..Len(script)
  PROVE  Formed(Units(script, q))
<1> DEFINE l == script[q].line
           h == script[q].hdrs
           n == BodyLen(q)
           s == Units(script, q)
<1>1. script[q] \in Requests
  OBVIOUS
<1>2. l \in Nat /\ l >= 1 /\ h \in Nat
  BY <1>1 DEF Requests
<1>3. n \in Nat /\ n = Size(script[q].body)
  BY BodyLenOf DEF BodyLen, Body
<1>4. s \in Seq(UnitsOf(script))
  BY UnitsAre
<1> DEFINE u(i) == CASE i < l -> Unit("part", q)
                     [] i = l -> Unit("line", q)
                     [] i \in (l + 1)..(l + h) -> Unit("hdr", q)
                     [] i = l + h + 1 -> Unit("head", q)
                     [] OTHER -> Unit("body", q)
<1>5. s = [i \in 1..(l + h + 1 + n) |-> u(i)]
  BY <1>3 DEF Units
<1> HIDE DEF l, h, n, s
<1>6. Len(s) = l + h + 1 + n
  <2>1. DOMAIN s = 1..(l + h + 1 + n)
    BY <1>5
  <2>2. l + h + 1 + n \in Nat
    BY <1>2, <1>3
  <2>3. DOMAIN s = 1..Len(s) /\ Len(s) \in Nat
    BY <1>4, LenProperties
  <2>4. ASSUME NEW a \in Nat, NEW b \in Nat, 1..a = 1..b PROVE a = b
    <3>1. (a > 0 => a \in 1..a) /\ (b > 0 => b \in 1..b)
      OBVIOUS
    <3> QED
      BY <2>4, <3>1
  <2> QED
    BY <2>1, <2>2, <2>3, <2>4
<1>7. ASSUME NEW i \in 1..Len(s) PROVE s[i] = u(i)
  BY <1>5, <1>6
<1>8. ASSUME NEW i \in 1..Len(s)
      PROVE  /\ i < l => s[i] = Unit("part", q)
             /\ i = l => s[i] = Unit("line", q)
             /\ i > l /\ i <= l + h => s[i] = Unit("hdr", q)
             /\ i = l + h + 1 => s[i] = Unit("head", q)
             /\ i > l + h + 1 => s[i] = Unit("body", q)
  <2>1. /\ i < l => u(i) = Unit("part", q)
        /\ i = l => u(i) = Unit("line", q)
        /\ i > l /\ i <= l + h => u(i) = Unit("hdr", q)
        /\ i = l + h + 1 => u(i) = Unit("head", q)
        /\ i > l + h + 1 => u(i) = Unit("body", q)
    BY <1>2
  <2> HIDE DEF u
  <2> QED
    BY <1>7, <2>1
<1> HIDE DEF u
<1>9. ASSUME NEW i \in 1..Len(s)
      PROVE  /\ s[i].q = q
             /\ s[i].k = "part" <=> i < l
             /\ s[i].k = "line" <=> i = l
             /\ s[i].k = "hdr" <=> i > l /\ i <= l + h
             /\ s[i].k = "head" <=> i = l + h + 1
  <2>1. i < l \/ i = l \/ (i > l /\ i <= l + h) \/ i = l + h + 1 \/ i > l + h + 1
    BY <1>2
  <2>2. CASE i < l
    <3>1. s[i] = Unit("part", q) /\ ~(i = l) /\ ~(i > l) /\ i # l + h + 1
      BY <1>2, <1>8, <2>2
    <3> QED
      BY <2>2, <3>1 DEF Unit
  <2>3. CASE i = l
    <3>1. s[i] = Unit("line", q) /\ ~(i < l) /\ ~(i > l) /\ i # l + h + 1
      BY <1>2, <1>8, <2>3
    <3> QED
      BY <2>3, <3>1 DEF Unit
  <2>4. CASE i > l /\ i <= l + h
    <3>1. s[i] = Unit("hdr", q) /\ ~(i < l) /\ ~(i = l) /\ i # l + h + 1
      BY <1>2, <1>8, <2>4
    <3> QED
      BY <2>4, <3>1 DEF Unit
  <2>5. CASE i = l + h + 1
    <3>1. s[i] = Unit("head", q) /\ ~(i < l) /\ ~(i = l) /\ ~(i <= l + h)
      BY <1>2, <1>8, <2>5
    <3> QED
      BY <2>5, <3>1 DEF Unit
  <2>6. CASE i > l + h + 1
    <3>1. s[i] = Unit("body", q) /\ ~(i < l) /\ ~(i = l) /\ ~(i <= l + h) /\ i # l + h + 1
      BY <1>2, <1>8, <2>6
    <3> QED
      BY <3>1 DEF Unit
  <2> QED
    BY <2>1, <2>2, <2>3, <2>4, <2>5, <2>6
<1>10. ASSUME NEW i \in 1..Len(s)
       PROVE  /\ s[i].k = "part" /\ i < Len(s) => s[i + 1].k \in {"part", "line"}
              /\ s[i].k \in {"line", "hdr"} /\ i < Len(s) =>
                   s[i + 1].k \in {"hdr", "head"} /\ s[i + 1].q = q
              /\ s[i].k \in {"part", "line", "hdr"} => i < Len(s)
              /\ s[i].k = "head" => i + n = Len(s)
  <2>1. /\ s[i].k \in {"part", "line", "hdr"} => i <= l + h
        /\ s[i].k = "head" => i = l + h + 1
    BY <1>2, <1>9
  <2>2. /\ i <= l + h => i < Len(s) /\ i + 1 \in 1..Len(s)
        /\ i = l + h + 1 => i + n = Len(s)
    <3>1. i \in Nat /\ i >= 1 /\ n \in Nat /\ l + h \in Nat /\ Len(s) = (l + h) + 1 + n
      BY <1>2, <1>3, <1>6
    <3>2. i <= l + h => i < Len(s) /\ i + 1 <= Len(s)
      BY <3>1
    <3>3. i = l + h + 1 => i + n = Len(s)
      BY <3>1
    <3> QED
      BY <3>1, <3>2, <3>3
  <2>3. ASSUME s[i].k = "part" PROVE s[i + 1].k \in {"part", "line"}
    <3>1. i + 1 < l \/ i + 1 = l
      BY <1>2, <1>9, <2>3
    <3> QED
      BY <1>9, <2>1, <2>2, <2>3, <3>1
  <2>4. ASSUME s[i].k \in {"line", "hdr"} PROVE s[i + 1].k \in {"hdr", "head"} /\ s[i + 1].q = q
    <3>1. (i + 1 > l /\ i + 1 <= l + h) \/ i + 1 = l + h + 1
      BY <1>2, <1>9, <2>4
    <3> QED
      BY <1>9, <2>1, <2>2, <2>4, <3>1
  <2> QED
    BY <2>1, <2>2, <2>3, <2>4
<1>11. ASSUME NEW i \in 1..Len(s), s[i].k = "head", NEW j \in (i + 1)..(i + n)
       PROVE  s[j] = Unit("body", q)
  <2>1. i = l + h + 1
    BY <1>9, <1>11
  <2>2. j \in 1..Len(s) /\ j > l + h + 1
    BY <1>2, <1>3, <1>6, <1>11, <2>1
  <2> QED
    BY <1>8, <2>2
<1>12. Framed(s)
  <2> SUFFICES ASSUME NEW i \in 1..Len(s) PROVE Follows(s, i)
    BY DEF Framed
  <2>1. s[i].q = q
    BY <1>9
  <2>2. s[i].k = "head" =>
          /\ \A j \in (i + 1)..(i + n) : j <= Len(s) => s[j] = Unit("body", q)
          /\ ~(i + n < Len(s))
    <3>1. s[i].k = "head" => i + n = Len(s)
      BY <1>10
    <3>2. Len(s) \in Nat
      BY <1>4
    <3> QED
      BY <1>11, <3>1, <3>2
  <2> QED
    BY <1>10, <2>1, <2>2 DEF Follows, n
<1>13. Whole(s)
  <2> SUFFICES ASSUME NEW i \in 1..Len(s)
               PROVE  /\ s[i].k \in {"part", "line", "hdr"} => i < Len(s)
                      /\ s[i].k = "head" => i + BodyLen(s[i].q) <= Len(s)
    BY DEF Whole
  <2>1. s[i].q = q /\ Len(s) \in Nat
    BY <1>4, <1>9
  <2>2. s[i].k = "head" => i + n <= Len(s)
    BY <1>10, <2>1
  <2> QED
    BY <1>10, <2>1, <2>2 DEF n
<1>14. Begins(s)
  <2>1. 1 \in 1..Len(s) /\ (1 < l \/ 1 = l)
    BY <1>2, <1>3, <1>6
  <2>2. s[1].k \in {"part", "line"}
    BY <1>9, <2>1
  <2> QED
    BY <2>2 DEF Begins
<1> QED
  BY <1>12, <1>13, <1>14 DEF Formed, s

LEMMA StreamFormed ==
  ASSUME script \in Seq(Requests)
  PROVE  Formed(Stream(script))
<1> DEFINE n == Len(script)
<1>1. n \in Nat
  OBVIOUS
<1>2. \E f : Joined(script, f, n)
  BY <1>1, JoinedExists
<1> DEFINE g == CHOOSE f : Joined(script, f, n)
<1>3. Joined(script, g, n)
  BY <1>2
<1>4. Stream(script) = g[n]
  BY DEF Stream, Joined
<1> HIDE DEF g, n
<1> DEFINE T == {m \in Nat : m <= n => g[m] \in Seq(UnitSet) /\ Formed(g[m])}
<1>5. 0 \in T
  <2>1. 0 \in 0..n
    BY <1>1
  <2>2. ASSUME NEW q \in 0..n, q = 0 PROVE g[q] = <<>>
    BY <1>3, <2>2 DEF Joined
  <2>3. g[0] = <<>>
    BY <2>1, <2>2
  <2>4. <<>> \in Seq(UnitSet) /\ Len(<<>>) = 0
    BY EmptySeq
  <2>5. Formed(<<>>)
    BY <2>4 DEF Formed, Framed, Whole, Begins
  <2>6. 0 <= n => g[0] \in Seq(UnitSet) /\ Formed(g[0])
    BY <2>3, <2>4, <2>5
  <2> QED
    BY <2>6
<1>6. ASSUME NEW m \in T PROVE m + 1 \in T
  <2>1. CASE m + 1 <= n
    <3>1. m + 1 \in 0..n /\ m + 1 # 0 /\ (m + 1) - 1 = m /\ m + 1 \in 1..Len(script)
      BY <1>1, <2>1 DEF n
    <3>2. g[m + 1] = g[m] \o Units(script, m + 1)
      BY <1>3, <3>1 DEF Joined
    <3>3. g[m] \in Seq(UnitSet) /\ Formed(g[m])
      BY <1>1, <2>1
    <3>4. Units(script, m + 1) \in Seq(UnitSet)
      BY <3>1, UnitsAre DEF UnitsOf, UnitSet
    <3>5. Formed(Units(script, m + 1))
      BY <3>1, RequestFormed
    <3> DEFINE a == g[m]
               b == Units(script, m + 1)
    <3>6. a \in Seq(UnitSet) /\ b \in Seq(UnitSet) /\ Formed(a) /\ Formed(b) /\ g[m + 1] = a \o b
      BY <3>2, <3>3, <3>4, <3>5
    <3> HIDE DEF a, b
    <3>7. a \o b \in Seq(UnitSet)
      BY <3>6, ConcatProperties
    <3>8. Formed(a \o b)
      BY <3>6, FormedJoined
    <3>9. g[m + 1] \in Seq(UnitSet) /\ Formed(g[m + 1])
      BY <3>6, <3>7, <3>8
    <3> QED
      BY <3>9
  <2>2. CASE ~(m + 1 <= n)
    BY <2>2
  <2> QED
    BY <2>1, <2>2
<1>7. T = Nat
  <2> HIDE DEF T
  <2>1. T \subseteq Nat
    BY DEF T
  <2> QED
    BY <1>5, <1>6, <2>1, Induction
<1>8. Formed(g[n])
  BY <1>1, <1>7
<1> QED
  BY <1>4, <1>8

LEMMA InitFInv == Init => FInv
<1> SUFFICES ASSUME Init PROVE FInv
  OBVIOUS
<1>1. script \in Seq(Requests)
  BY ScriptsAssumption DEF Init, Requests
<1>2. todo \in Seq(UnitSet) /\ Formed(todo)
  <2>1. todo = Stream(script)
    BY DEF Init
  <2>2. Stream(script) \in Seq(UnitSet)
    BY <1>1, StreamIs DEF UnitsOf, UnitSet
  <2> QED
    BY <1>1, <2>1, <2>2, StreamFormed
<1>3. Unread = todo
  <2>1. <<>> \o <<>> = <<>> /\ <<>> \o todo = todo
    <3>1. <<>> \in Seq(UnitSet)
      BY EmptySeq
    <3> QED
      BY <1>2, <3>1, ConcatEmptySeq
  <2>2. buf = <<>> /\ net = <<>> /\ peer = "open"
    BY DEF Init
  <2> QED
    BY <2>1, <2>2 DEF Unread
<1>4. /\ stack = <<>> /\ buf = <<>> /\ c.handler = "wait" /\ ~r.live /\ r.reh = "block"
      /\ ~r.keepalive
  BY DEF Init, NewConnection, NoRequest, NewRequest
<1>5. Framed(Unread) /\ Begins(Unread)
  BY <1>2, <1>3 DEF Formed
<1>6. General
  BY <1>4, <1>5 DEF General, Form, Bodies, Emptied
<1>7. Resting
  BY <1>4, <1>5 DEF Resting, Starts, Settled
<1> QED
  BY <1>4, <1>6, <1>7 DEF FInv
-----------------------------------------------------------------------------
(* Every step keeps the form of what is unread. *)
LEMMA Done2 == ASSUME FInv, UNCHANGED vars PROVE FInv'
<1>1. Still /\ UNCHANGED <<c, r, rc, stack>>
  BY DEF vars, Still
<1> QED
  BY <1>1, Nothing2

LEMMA Events2 == ASSUME IInv, FInv, Events PROVE FInv'
BY Readable2, PostedEvent2, ReadTimer2, Writable2, WriteTimer2, LaterDone2,
   UpstreamSendsRequest2, LingeringTimePasses2 DEF Events

LEMMA ReadsHead2 == ASSUME IInv, FInv, ReadsHead PROVE FInv'
BY WaitRequestHandler2, HeadTimedOut2, AllocLargeHeaderBuffer2, ReadRequestHeader2,
   ParseRequestLine2, ParseHeaderLine2 DEF ReadsHead

LEMMA HandlesRequest2 == ASSUME IInv, FInv, HandlesRequest PROVE FInv'
<1>1. ASSUME NEW how \in {"now", "later", "unbuffered"}, ContentReads(how) PROVE FInv'
  BY <1>1, ContentReads2
<1>2. ASSUME NEW code \in {"404", "500"}, ContentRefuses(code) PROVE FInv'
  BY <1>2, ContentRefuses2
<1>3. CASE ProcessRequest \/ TooLarge \/ ReadEventHandler \/ BlockReading \/ TestReading
  BY <1>3, ProcessRequest2, TooLarge2, ReadEventHandler2, BlockReading2, TestReading2
<1>4. CASE ContentDiscards \/ UnlessFailed \/ ReadDone \/ Output \/ Writer \/ Written
  BY <1>4, ContentDiscards2, UnlessFailed2, ReadDone2, Output2, Writer2, Written2
<1> QED
  BY <1>1, <1>2, <1>3, <1>4 DEF HandlesRequest

LEMMA HandlesBody2 == ASSUME IInv, FInv, HandlesBody PROVE FInv'
<1>1. CASE \/ ReadClientRequestBody \/ BodyOk \/ BodyDone \/ DoReadClientRequestBody
           \/ ReadBodyHandler \/ IfFailed \/ PostHandlerAnswers \/ PostHandlerUpstream
  BY <1>1, ReadClientRequestBody2, BodyOk2, BodyDone2, DoReadClientRequestBody2,
     ReadBodyHandler2, IfFailed2, PostHandlerAnswers2, PostHandlerUpstream2
<1>2. CASE \/ ReadUnbufferedRequestBody \/ UnbufferedDone \/ DiscardRequestBody
           \/ ReadDiscardedRequestBody \/ DiscardRest
           \/ DiscardedRequestBodyHandler \/ DiscardedDone
  BY <1>2, ReadUnbufferedRequestBody2, UnbufferedDone2, DiscardRequestBody2,
     ReadDiscardedRequestBody2, DiscardRest2, DiscardedRequestBodyHandler2, DiscardedDone2
<1> QED
  BY <1>1, <1>2 DEF HandlesBody

LEMMA EndsRequest2 == ASSUME IInv, FInv, EndsRequest PROVE FInv'
<1>1. CASE \/ CloseConnection \/ CloseRequest \/ TerminateRequest \/ RunPostedRequests
           \/ FinalizeDone \/ FinalizeError \/ FinalizeSpecial \/ SpecialResponse
           \/ FinalizeBuffered \/ FinalizeComplete
  BY <1>1, CloseConnection2, CloseRequest2, TerminateRequest2, RunPostedRequests2,
     FinalizeDone2, FinalizeError2, FinalizeSpecial2, SpecialResponse2,
     FinalizeBuffered2, FinalizeComplete2
<1>2. CASE \/ FinalizeConnectionShared \/ FinalizeConnectionLast
           \/ SetKeepalivePipelined \/ SetKeepaliveIdle
           \/ KeepaliveHandler \/ SetLingeringClose \/ LingeringCloseHandler
  BY <1>2, FinalizeConnectionShared2, FinalizeConnectionLast2, SetKeepalivePipelined2,
     SetKeepaliveIdle2, KeepaliveHandler2, SetLingeringClose2, LingeringCloseHandler2
<1> QED
  BY <1>1, <1>2 DEF EndsRequest

LEMMA Next2 == ASSUME IInv, FInv, [Next]_vars PROVE FInv'
<1>1. ASSUME NEW how \in {"fin", "reset"}, ClientCloses(how) PROVE FInv'
  BY <1>1, ClientCloses2
<1>2. CASE Runs
  BY <1>2, ReadsHead2, HandlesRequest2, HandlesBody2, EndsRequest2 DEF Runs
<1>3. CASE ClientSends \/ Events \/ DrainConnection \/ Exit
  BY <1>3, ClientSends2, Events2, DrainConnection2, Exit2
<1>4. CASE Done \/ UNCHANGED vars
  <2>1. UNCHANGED vars
    BY <1>4 DEF Done
  <2> QED
    BY <2>1, Done2
<1> QED
  BY <1>1, <1>2, <1>3, <1>4 DEF Next

-----------------------------------------------------------------------------
(* What it says of the next request and of the rest of a body. *)
LEMMA FramedAtRest == ASSUME IInv, FInv PROVE FramingKept
<1> SUFFICES ASSUME c.open, peer # "reset"
             PROVE  /\ c.handler \in {"wait", "keepalive", "line"} /\ stack = <<>> =>
                         NextIs({"part", "line"})
                    /\ c.handler = "headers" /\ stack = <<>> => NextIs({"hdr", "head"})
                    /\ r.live /\ r.rest > 0 /\ c.handler = "request" =>
                         \A i \in 1..Min2(r.rest, Len(Unread)) : Unread[i] = Unit("body", r.q)
  BY DEF FramingKept
<1>1. Unread \in Seq(UnitSet) /\ r.rest \in Int
  BY UnreadIn, Fields2
<1>2. Unread # <<>> => Head(Unread) = Unread[1]
  BY <1>1
<1>3. stack = <<>> => Resting
  BY DEF FInv
<1>4. c.handler \in {"wait", "keepalive", "line"} /\ stack = <<>> => NextIs({"part", "line"})
  BY <1>2, <1>3 DEF Resting, Starts, Begins, NextIs
<1>5. c.handler = "headers" /\ stack = <<>> => NextIs({"hdr", "head"})
  BY <1>2, <1>3 DEF Resting, Header, Heads, NextIs
<1>6. ASSUME r.live, r.rest > 0, c.handler = "request",
             NEW i \in 1..Min2(r.rest, Len(Unread))
      PROVE  Unread[i] = Unit("body", r.q)
  <2>1. Ahead(Unread, Size(r.rest), r.q)
    BY <1>6 DEF FInv, General, Bodies
  <2>2. Size(r.rest) = r.rest
    BY <1>1, <1>6 DEF Size
  <2>3. Ahead(Unread, r.rest, r.q)
    BY <2>1, <2>2
  <2>4. i \in 1..r.rest /\ i <= Len(Unread)
    <3>1. Len(Unread) \in Nat
      BY <1>1
    <3> QED
      BY <1>1, <1>6, <3>1 DEF Min2
  <2> QED
    BY <2>3, <2>4 DEF Ahead
<1> QED
  BY <1>4, <1>5, <1>6

(* The bytes of a body are never taken for a request and the bytes of a     *)
(* request never for a body: what the connection has not looked at begins   *)
(* with a request whenever it waits for one, be it in the buffer of the     *)
(* last one (the pipelined header of ngx_http_set_keepalive()) or still to  *)
(* come, and with exactly r->request_body->rest units of the body while     *)
(* ngx_http_read_client_request_body() or ngx_http_discard_request_body()   *)
(* reads it.                                                                *)
THEOREM FramingHolds == Spec => []FramingKept
<1>1. Init => IInv /\ FInv
  BY InitIInv, InitFInv
<1>2. IInv /\ FInv /\ [Next]_vars => (IInv /\ FInv)'
  BY NextStep, Next2
<1>3. IInv /\ FInv => FramingKept
  BY FramedAtRest
<1> QED
  BY <1>1, <1>2, <1>3, PTL DEF Spec
=============================================================================
