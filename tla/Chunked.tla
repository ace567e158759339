------------------------------ MODULE Chunked ------------------------------
(* Bodies that come in chunks, or with a length: ngx_http_parse_chunked()   *)
(* and those who call it, the reader of request bodies with its temporary   *)
(* file, the one that discards them (http/ngx_http_request_body.c) and the  *)
(* filters of the proxy module.                                             *)
(*                                                                          *)
(* A message is followed on its connection by bytes of the next one.  What  *)
(* a reader asks for comes from its estimate of how much must follow.       *)
EXTENDS Integers, Sequences, SequencesExt

CONSTANTS
  Messages,   \* [bytes, body, ok]: a message, what it means and whether it is well formed
  Extra,      \* bytes of the next message
  Size,       \* of the buffer a body is read into
  MaxBody,    \* client_max_body_size
  MaxOff      \* NGX_MAX_OFF_T_VALUE

VARIABLES
  msg,   \* the message
  s      \* the reader

vars == <<msg, s>>

CR == "\r"
LF == "\n"
Digit == [c \in {"0", "1", "2", "3", "4", "a", "f"} |->
            CASE c = "0" -> 0 [] c = "1" -> 1 [] c = "2" -> 2 [] c = "3" -> 3 [] c = "4" -> 4
              [] c = "a" -> 10 [] OTHER -> 15]

Byte(i) == IF i <= Len(msg.bytes) THEN msg.bytes[i] ELSE "next"
Total == Len(msg.bytes) + Extra
Smaller(a, b) == IF a < b THEN a ELSE b

(* how a body is read: kept or discarded, with a length or not; by the pipe *)
(* of a proxied response, or unbuffered                                     *)
Kinds == {"body", "discard", "pipe", "direct", "length"}

Init ==
  /\ msg \in Messages
  /\ \E kind \in Kinds :
       /\ kind = "length" <=> msg.framing = "length"
       /\ s = [pc |-> "start", kind |-> kind, pos |-> 0, pre |-> 0, buf |-> <<>>, fill |-> 0,
               st |-> "chunk_start", size |-> 0, len |-> 3, n |-> 0, mem |-> <<>>, file |-> <<>>]

-----------------------------------------------------------------------------
(* ngx_http_parse_chunked(): one character *)

AfterSize(q, ch) ==
  LET last == q.size = 0
  IN CASE ch = CR -> IF last THEN "last_chunk_extension_almost_done" ELSE "chunk_extension_almost_done"
       [] ch = LF -> IF last THEN "trailer" ELSE "chunk_data"
       [] ch = ";" -> IF last THEN "last_chunk_extension" ELSE "chunk_extension"
       [] OTHER -> "invalid"

ChunkSize(q, ch) ==
  CASE q.st = "chunk_start" ->
         IF ch \in DOMAIN Digit THEN [q EXCEPT !.st = "chunk_size", !.size = Digit[ch]]
         ELSE [q EXCEPT !.st = "invalid"]
    [] q.st = "chunk_size" /\ q.size > MaxOff \div 16 -> [q EXCEPT !.st = "invalid"]
    [] q.st = "chunk_size" /\ q.size <= MaxOff \div 16 /\ ch \in DOMAIN Digit ->
         [q EXCEPT !.size = @ * 16 + Digit[ch]]
    [] OTHER -> [q EXCEPT !.st = AfterSize(q, ch)]

\* a line that ends in LF, with or without CR; the states come in pairs
Lines == [chunk_extension |-> "chunk_data", after_data |-> "chunk_start",
          last_chunk_extension |-> "trailer", trailer |-> "done", trailer_header |-> "trailer"]
AlmostDone(st) == st \o "_almost_done"

ChunkLine(q, ch) ==
  IF q.st \in DOMAIN Lines
  THEN [q EXCEPT !.st = CASE ch = CR -> AlmostDone(q.st)
                          [] ch = LF -> Lines[q.st]
                          [] OTHER -> IF q.st = "trailer" THEN "trailer_header" ELSE q.st]
  ELSE LET line == CHOOSE l \in DOMAIN Lines : AlmostDone(l) = q.st
       IN [q EXCEPT !.st = IF ch = LF THEN Lines[line] ELSE "invalid"]

(* Mutant: the line end after the data is counted as two characters. *)
LengthAtLeastCrLf(q) ==
  CASE q.st = "chunk_start" -> 3
    [] q.st = "chunk_size" -> 1 + (IF q.size > 0 THEN q.size + 5 ELSE 1)
    [] q.st \in {"chunk_extension", "chunk_extension_almost_done"} -> 1 + q.size + 5
    [] q.st = "chunk_data" -> q.size + 5
    [] q.st \in {"after_data", "after_data_almost_done"} -> 5
    [] q.st \in {"trailer", "trailer_almost_done"} -> 1
    [] OTHER -> 2

(* the fewest characters that can follow: LF, the last chunk, LF *)
Length(q) ==
  CASE q.st = "chunk_start" -> 3
    [] q.st = "chunk_size" -> 1 + (IF q.size > 0 THEN q.size + 4 ELSE 1)
    [] q.st \in {"chunk_extension", "chunk_extension_almost_done"} -> 1 + q.size + 4
    [] q.st = "chunk_data" -> q.size + 4
    [] q.st \in {"after_data", "after_data_almost_done"} -> 4
    [] q.st \in {"trailer", "trailer_almost_done"} -> 1
    [] OTHER -> 2

\* over the buffer, until it ends, data begins or the message is done
ParseChunked(q) ==
  LET step(c, ch) ==
        IF c.st \in {"invalid", "done"} \/ c.stop THEN c
        ELSE IF c.st = "chunk_data" THEN [c EXCEPT !.stop = TRUE]
        ELSE [(IF c.st \in {"chunk_start", "chunk_size"} THEN ChunkSize(c, ch) ELSE ChunkLine(c, ch))
              EXCEPT !.used = @ + 1]
      c == FoldLeft(step, [st |-> IF q.st = "chunk_data" /\ q.size = 0 THEN "after_data" ELSE q.st,
                           size |-> q.size, used |-> 0, stop |-> FALSE], q.buf)
      rc == CASE c.st = "done" -> "done"
              [] c.st = "invalid" \/ (c.st # "done" /\ c.size > MaxOff - 5) -> "error"
              [] OTHER -> IF c.stop THEN "ok" ELSE "again"
  IN [q |-> [q EXCEPT !.st = c.st, !.size = c.size, !.len = IF rc \in {"ok", "again"} THEN Length(c) ELSE @,
                      !.buf = SubSeq(@, c.used + 1, Len(@))],
      rc |-> rc]

-----------------------------------------------------------------------------
(* The body so far goes to the file when the buffer is full, and at the end *)
(* if there is one (ngx_http_request_body_save_filter()).  Only the reader  *)
(* of request bodies does that.                                             *)
Written(q) == [q EXCEPT !.file = @ \o q.mem, !.mem = <<>>]   \* ngx_http_write_request_body()

SaveFilter(q, rest) ==
  IF q.kind \in {"body", "length"} /\ (IF rest > 0 THEN q.fill = Size ELSE q.file # <<>>)
  THEN Written(q) ELSE q

\* data of the buffer, k bytes of it, becomes the body
Keep(q, k) ==
  [q EXCEPT !.mem = IF q.kind = "discard" THEN @ ELSE @ \o SubSeq(q.buf, 1, k),
            !.buf = SubSeq(@, k + 1, Len(@)), !.n = @ + k]

(* ngx_http_request_body_chunked_filter(),                                  *)
(* ngx_http_discard_request_body_filter() and the filters of the proxy      *)
(* module: one call of the parser and what follows                          *)
ChunkedFilter ==
  /\ s.pc = "parse" /\ s.kind # "length"
  /\ LET p == ParseChunked(s)
         k == Smaller(p.q.size, Len(p.q.buf))
     IN s' = CASE p.rc = "ok" /\ s.kind = "body" /\ MaxBody - s.n < p.q.size -> [p.q EXCEPT !.pc = "too_large"]
               [] p.rc = "ok" /\ ~(s.kind = "body" /\ MaxBody - s.n < p.q.size) ->
                    [Keep(p.q, k) EXCEPT !.size = @ - k]
               [] p.rc = "done"  -> [SaveFilter(p.q, 0) EXCEPT !.pc = "done", !.len = 0]
               [] p.rc = "again" -> [SaveFilter(p.q, p.q.len) EXCEPT !.pc = "read"]
               [] p.rc = "error" -> [p.q EXCEPT !.pc = "error"]
  /\ UNCHANGED msg

(* ngx_http_request_body_length_filter() *)
LengthFilter ==
  /\ s.pc = "parse" /\ s.kind = "length"
  /\ LET k == Smaller(s.len, Len(s.buf))
         Q == SaveFilter([Keep(s, k) EXCEPT !.len = @ - k], s.len - k)
     IN s' = [Q EXCEPT !.pc = IF Q.len = 0 THEN "done" ELSE "read"]
  /\ UNCHANGED msg

-----------------------------------------------------------------------------
(* ngx_http_read_client_request_body() and ngx_http_discard_request_body(): *)
(* what was read with the header                                            *)
Preread ==
  /\ s.pc = "start" /\ s.kind \in {"body", "length", "discard"}
  /\ \E k \in 0..Total :
       s' = [s EXCEPT !.pos = k, !.pre = k, !.buf = [i \in 1..k |-> Byte(i)],
                      !.len = IF s.kind = "length" THEN Len(msg.body) ELSE @,
                      !.pc = IF k > 0 \/ (s.kind = "length" /\ msg.body = <<>>) THEN "parse" ELSE "read"]
  /\ UNCHANGED msg

(* ngx_http_proxy_input_filter_init() *)
FilterInit ==
  /\ s.pc = "start" /\ s.kind \in {"pipe", "direct"}
  /\ s' = [s EXCEPT !.pc = "read", !.len = IF s.kind = "pipe" THEN 3 ELSE 1]
  /\ UNCHANGED msg

Received(q, n) ==
  [q EXCEPT !.buf = @ \o [i \in 1..n |-> Byte(q.pos + i)], !.pos = @ + n, !.fill = @ + n]

(* ngx_http_do_read_client_request_body(): the filters see the buffer when  *)
(* it is full, or when the rest has come                                    *)
ReadBody ==
  /\ s.pc = "read" /\ s.kind \in {"body", "length"} /\ s.fill < Size
  /\ LET rest == s.len - Len(s.buf)
         size == Smaller(Size - s.fill, rest)
     IN IF size = 0 THEN s' = [s EXCEPT !.pc = "closed"]   \* recv() of nothing is taken for the end
        ELSE \E n \in 1..Smaller(size, Total - s.pos) :
               s' = [Received(s, n) EXCEPT !.pc = IF n = rest \/ s.fill + n = Size THEN "parse" ELSE "read"]
  /\ UNCHANGED msg

\* the buffer is used from its start again, unless it is busy
ResetBuffer ==
  /\ s.pc = "read" /\ s.kind \in {"body", "length"} /\ s.fill = Size
  /\ LET Q == SaveFilter(s, s.len)
     IN s' = IF Q.mem # <<>> THEN [Q EXCEPT !.pc = "busy"] ELSE [Q EXCEPT !.fill = 0]
  /\ UNCHANGED msg

(* ngx_http_read_discarded_request_body() *)
ReadDiscarded ==
  /\ s.pc = "read" /\ s.kind = "discard"
  /\ \E n \in 1..Smaller(Smaller(s.len, Size), Total - s.pos) :
       s' = [Received(s, n) EXCEPT !.pc = "parse", !.fill = 0]
  /\ UNCHANGED msg

(* The pipe hands a raw buffer over when it is full or has what is known to *)
(* follow; what is left in it when the message ends is dropped with it.     *)
ReadPipe ==
  /\ s.pc = "read" /\ s.kind = "pipe"
  /\ \E n \in 1..Smaller(Size - Len(s.buf), Total - s.pos) :
       s' = [Received(s, n) EXCEPT !.fill = 0,
               !.pc = IF Len(s.buf) + n = Size \/ Len(s.buf) + n >= s.len THEN "parse" ELSE "read"]
  /\ UNCHANGED msg

(* ngx_http_upstream_process_non_buffered_request() *)
ReadDirect ==
  /\ s.pc = "read" /\ s.kind = "direct"
  /\ \E n \in 1..Smaller(Size, Total - s.pos) :
       s' = [Received(s, n) EXCEPT !.pc = "parse", !.fill = 0]
  /\ UNCHANGED msg

Next == \/ Preread \/ FilterInit \/ ChunkedFilter \/ LengthFilter
        \/ ReadBody \/ ResetBuffer \/ ReadDiscarded \/ ReadPipe \/ ReadDirect

-----------------------------------------------------------------------------
(* However a message is cut into reads, its body comes out unchanged and    *)
(* its end is found where it is.  The estimate of what must follow never    *)
(* exceeds it: the readers of requests take nothing of the next one from    *)
(* the socket, the pipe does not wait when all has come, nothing is asked   *)
(* for with a length of zero, and no buffer is used again before its bytes  *)
(* are in the file.  No size overflows, and a body over the limit is        *)
(* refused.                                                                 *)
BodyExact ==
  LET used == s.pos - Len(s.buf)
      out == s.file \o s.mem
      fits == s.kind # "body" \/ Len(msg.body) <= MaxBody
  IN /\ s.pc \notin {"busy", "closed"}
     /\ s.pc = "error" => ~msg.ok
     /\ s.pc = "too_large" => ~fits
     /\ s.pc = "done" => msg.ok /\ fits /\ used = Len(msg.bytes) /\ (s.kind # "discard" => out = msg.body)
     /\ msg.ok => /\ IsPrefix(out, msg.body)
                  /\ s.pc = "read" => s.len >= 1 /\ s.len <= Len(msg.bytes) - used
                  /\ s.kind \in {"body", "length", "discard"} => s.pos <= s.pre \/ s.pos <= Len(msg.bytes)
                  /\ s.kind \in {"pipe", "direct"} /\ s.pc = "read" => s.pos < Len(msg.bytes)
     /\ s.size <= MaxOff /\ s.len <= MaxOff
=============================================================================
