----------------------------- MODULE EventPipe -----------------------------
(* The pipe that carries a response from an upstream server to a client     *)
(* through a bounded set of buffers and a temporary file                    *)
(* (event/ngx_event_pipe.c), with its callers in http/ngx_http_upstream.c.  *)
(*                                                                          *)
(* The bytes of the response are 1..Total.  Buffers and the file are arrays *)
(* that are read when bytes are sent, so that one that is used again too    *)
(* early shows.  limit_rate, postpone_output, IOCP and cyclic temporary     *)
(* files (which no module turns on) are left out, and so are failures of    *)
(* allocations and of writes to the file.                                   *)
EXTENDS Integers, Sequences, SequencesExt, FiniteSets

CONSTANTS
  Total,      \* bytes of the response
  Steps,      \* how many of them the server may have sent when it pauses
  Size,       \* p->bufs.size
  Num,        \* p->bufs.num
  BusySize,   \* p->busy_size
  MaxTemps,   \* values of p->max_temp_file_size
  WriteSize,  \* p->temp_file_write_size
  Threads     \* whether files may be written by a thread

VARIABLES
  p,     \* the pipe
  up,    \* the connection to the upstream server
  down   \* the connection to the client

vars == <<p, up, down>>

Bufs == 0..Num   \* 0 is u->buffer, which held the header
Idle == "idle"

Init ==
  /\ \E cacheable \in BOOLEAN, length \in {-1, Total}, n \in 0..1, max \in MaxTemps :
       /\ p = [pc |-> "read", cacheable |-> cacheable, length |-> length, in |-> <<>>, out |-> <<>>,
               busy |-> <<>>, free |-> <<>>, allocated |-> 0, mem |-> [b \in Bufs |-> <<>>],
               preread |-> TRUE, read |-> FALSE, blocked |-> FALSE, writing |-> <<>>, aio |-> FALSE,
               eof |-> FALSE, err |-> FALSE, done |-> FALSE, derr |-> FALSE, file |-> <<>>,
               tofile |-> cacheable, max |-> max, null |-> FALSE, end |-> "no"]
       /\ up = [sent |-> n, got |-> 0, closed |-> FALSE, broken |-> FALSE, ready |-> FALSE,
                timer |-> FALSE]
  /\ down = [ready |-> TRUE, got |-> <<>>, gone |-> FALSE, timer |-> FALSE]

Over(P) == P.eof \/ P.err \/ P.done
Fold(f(_, _), P, seq) == FoldLeft(f, P, seq)

\* a buffer in memory is a part of a raw buffer; last: b->last_shadow, rec: b->recycled
Part(b, from, to, last) == [m |-> TRUE, b |-> b, from |-> from, to |-> to, last |-> last, rec |-> TRUE]
Piece(from, to) == [m |-> FALSE, b |-> 0, from |-> from, to |-> to, last |-> FALSE, rec |-> FALSE]
At(P, c, i) ==
  LET src == IF c.m THEN P.mem[c.b] ELSE P.file
  IN IF i <= Len(src) THEN src[i] ELSE 0
Bytes(P, c) == [i \in 1..(c.to - c.from + 1) |-> At(P, c, c.from + i - 1)]
Content(P, chain) == FoldLeft(LAMBDA s, c : s \o Bytes(P, c), <<>>, chain)

(* ngx_event_pipe_add_free_buf(): a raw buffer that is filled in part stays *)
(* the first                                                                *)
AddFreeBuf(P, b) ==
  LET first == P.free = <<>> \/ P.mem[Head(P.free)] = <<>>
  IN [P EXCEPT !.mem[b] = <<>>,
               !.free = IF first THEN <<b>> \o @ ELSE <<Head(@), b>> \o Tail(@)]

Released(P, c) == IF c.last THEN AddFreeBuf(P, c.b) ELSE P

(* ngx_event_pipe_drain_chains() *)
DrainChains(P) ==
  [Fold(Released, P, P.busy \o P.out \o P.in) EXCEPT !.busy = <<>>, !.out = <<>>, !.in = <<>>]

(* the input filter, ngx_event_pipe_copy_input_filter() or one that makes   *)
(* two buffers of a raw one, at k                                           *)
InputFilter(P, b, k) ==
  LET n == Len(P.mem[b])
      parts == IF n = 0 THEN <<>>
               ELSE IF k \in 1..(n - 1) THEN <<Part(b, 1, k, FALSE), Part(b, k + 1, n, TRUE)>>
               ELSE <<Part(b, 1, n, TRUE)>>
  IN [P EXCEPT !.in = @ \o parts, !.length = IF @ = -1 THEN -1 ELSE @ - n]

-----------------------------------------------------------------------------
(* The temporary file. *)

(* How much of the chain is written at a time: whole raw buffers, no more   *)
(* than the limits allow; the first loop of                                 *)
(* ngx_event_pipe_write_chain_to_temp_file()                                *)
Writable(P) ==
  LET n == Len(P.in)
      size(k) == Len(Content(P, SubSeq(P.in, 1, k)))
      whole(k) == k = 0 \/ P.in[k].last
      stops(k) == /\ whole(k)
                  /\ \/ size(k + 1) > WriteSize
                     \/ Len(P.file) + size(k + 1) > P.max
      ks == {k \in 0..(n - 1) : stops(k)}
  IN IF P.cacheable \/ ks = {} THEN n ELSE CHOOSE k \in ks : \A j \in ks : k <= j

(* Mutant: the raw buffers are not emptied before they are used again. *)
FileWrittenFull(P, chain) ==
  LET new == (IF P.tofile THEN <<0>> ELSE <<>>) \o Content(P, chain)
      from == Len(P.file) + 1 + (IF P.tofile THEN 1 ELSE 0)
      to == Len(P.file) + Len(new)
      lasts == SelectSeq(chain, LAMBDA c : c.last)
  IN [P EXCEPT !.file = @ \o new, !.tofile = FALSE, !.writing = <<>>,
               !.out = IF to < from THEN @ ELSE Append(@, Piece(from, to)),
               !.free = @ \o [i \in 1..Len(lasts) |-> lasts[i].b]]

(* ... its end: what was written goes to the chain out, in the last buffer  *)
(* of it where that ends, and the raw buffers are free, after the others    *)
FileWritten(P, chain) ==
  LET new == (IF P.tofile THEN <<0>> ELSE <<>>) \o Content(P, chain)
      from == Len(P.file) + 1 + (IF P.tofile THEN 1 ELSE 0)
      to == Len(P.file) + Len(new)
      joins == P.out # <<>> /\ Last(P.out).to = Len(P.file) /\ ~P.tofile
      lasts == SelectSeq(chain, LAMBDA c : c.last)
      freed == [i \in 1..Len(lasts) |-> lasts[i].b]
  IN [P EXCEPT !.file = @ \o new, !.tofile = FALSE, !.writing = <<>>,
               !.out = IF to < from THEN @
                       ELSE IF joins THEN [@ EXCEPT ![Len(@)].to = to]
                       ELSE Append(@, Piece(from, to)),
               !.mem = [b \in Bufs |-> IF b \in Range(freed) THEN <<>> ELSE @[b]],
               !.free = @ \o freed]

(* ngx_event_pipe_write_chain_to_temp_file(): the new pipe and the result.  *)
(* A chain without a buffer is a null pointer that is followed.             *)
WriteFile(P, threaded) ==
  LET n == Writable(P)
      chain == SubSeq(P.in, 1, n)
      Q == [P EXCEPT !.in = SubSeq(@, n + 1, Len(@))]
  IN IF P.writing # <<>>
     THEN IF P.aio THEN [p |-> P, rc |-> "again"]
          ELSE [p |-> FileWritten(P, P.writing), rc |-> "ok"]
     ELSE IF P.in = <<>> /\ ~P.tofile THEN [p |-> [P EXCEPT !.null = TRUE], rc |-> "ok"]
     ELSE IF n = 0 /\ ~P.cacheable THEN [p |-> P, rc |-> "busy"]
     ELSE IF threaded /\ chain # <<>>
     THEN [p |-> [Q EXCEPT !.writing = chain, !.aio = TRUE], rc |-> "again"]
     ELSE [p |-> FileWritten(Q, chain), rc |-> "ok"]

-----------------------------------------------------------------------------
(* ngx_event_pipe_read_upstream() *)

ReadBegin ==
  /\ p.pc = "read"
  /\ p' = [p EXCEPT !.read = FALSE, !.blocked = FALSE,
                    !.pc = IF Over(p) \/ p.aio THEN "end" ELSE "recv"]
  /\ UNCHANGED <<up, down>>

(* What was received is spread over the buffers of the chain: full ones go  *)
(* through the filter, split at k, the others are free.                     *)
Spread(P, chain, bytes, k) ==
  LET room(b) == Size - Len(P.mem[b])
      step(A, b) ==
        LET take == IF Len(A.rest) < room(b) THEN Len(A.rest) ELSE room(b)
            F == [A EXCEPT !.P.mem[b] = @ \o SubSeq(A.rest, 1, take),
                           !.rest = SubSeq(@, take + 1, Len(@))]
        IN IF A.rest = <<>> \/ take < room(b) THEN [F EXCEPT !.P.free = Append(@, b)]
           ELSE [F EXCEPT !.P = InputFilter(F.P, b, k)]
  IN FoldLeft(step, [P |-> [P EXCEPT !.free = <<>>], rest |-> bytes], chain).P

Received(n) == [i \in 1..n |-> up.got + i]

(* what was read with the header *)
ReadPreread ==
  /\ p.pc = "recv" /\ p.preread
  /\ \E k \in 0..1 :
       p' = Spread([p EXCEPT !.preread = FALSE, !.read = up.sent > 0], <<0>>, Received(up.sent), k)
  /\ up' = [up EXCEPT !.got = up.sent]
  /\ UNCHANGED down

(* readv() into a chain of raw buffers, which are all that are free; what   *)
(* follows a short read is not known                                        *)
Recv(P, chain) ==
  LET room == FoldLeft(LAMBDA s, b : s + Size - Len(P.mem[b]), 0, chain)
      avail == up.sent - up.got
      n == IF avail < room THEN avail ELSE room
      Q == [P EXCEPT !.free = chain]
  IN IF n > 0
     THEN /\ up' = [up EXCEPT !.got = @ + n, !.ready = n = room]
          /\ \E k \in 0..1 : p' = Spread([P EXCEPT !.read = TRUE], chain, Received(n), k)
     ELSE /\ up' = [up EXCEPT !.ready = FALSE]
          /\ p' = CASE up.broken -> [Q EXCEPT !.err = TRUE, !.pc = "end"]
                    [] up.closed /\ ~up.broken -> [Q EXCEPT !.eof = TRUE, !.read = TRUE, !.pc = "after"]
                    [] OTHER -> [Q EXCEPT !.pc = "after"]

ReadLoop ==
  /\ p.pc = "recv" /\ ~p.preread
  /\ UNCHANGED down
  /\ \/ /\ Over(p) \/ ~up.ready
        /\ p' = [p EXCEPT !.pc = "after"] /\ UNCHANGED up
     \/ /\ ~Over(p) /\ up.ready /\ p.free # <<>>
        /\ Recv(p, p.free)
     \/ /\ ~Over(p) /\ up.ready /\ p.free = <<>> /\ p.allocated < Num
        /\ Recv([p EXCEPT !.allocated = @ + 1], <<p.allocated + 1>>)
     \/ /\ ~Over(p) /\ up.ready /\ p.free = <<>> /\ p.allocated = Num
        /\ ~p.cacheable /\ down.ready
        /\ p' = [p EXCEPT !.blocked = TRUE, !.pc = "after"] /\ UNCHANGED up
     \/ /\ ~Over(p) /\ up.ready /\ p.free = <<>> /\ p.allocated = Num
        /\ p.cacheable \/ (~down.ready /\ Len(p.file) < p.max)
        /\ \E t \in {FALSE, Threads} : \E w \in {WriteFile(p, t)} :
             CASE w.rc = "busy"  -> p' = [w.p EXCEPT !.pc = "after"] /\ UNCHANGED up
               [] w.rc = "again" -> p' = [w.p EXCEPT !.pc = "end"] /\ UNCHANGED up
               [] OTHER -> IF w.p.null \/ w.p.free = <<>>
                           THEN p' = [w.p EXCEPT !.null = TRUE, !.pc = "end"] /\ UNCHANGED up
                           ELSE Recv(w.p, w.p.free)
     \/ /\ ~Over(p) /\ up.ready /\ p.free = <<>> /\ p.allocated = Num
        /\ ~p.cacheable /\ ~down.ready /\ Len(p.file) >= p.max
        /\ p' = [p EXCEPT !.pc = "after"] /\ UNCHANGED up

(* the end of a response of known length, and what a partly filled buffer   *)
(* holds when there is nothing more to come                                 *)
FilterRest(P, k) ==
  LET short == P.free # <<>> /\ P.length # -1 /\ Len(P.mem[Head(P.free)]) >= P.length
      Q == IF short THEN [InputFilter(P, Head(P.free), k) EXCEPT !.free = Tail(@)] ELSE P
      R == IF Q.length = 0 THEN [Q EXCEPT !.done = TRUE, !.read = TRUE] ELSE Q
  IN IF (R.eof \/ R.err) /\ R.free # <<>>
     THEN [InputFilter(R, Head(R.free), k) EXCEPT !.free = Tail(@)] ELSE R

ReadAfter ==
  /\ p.pc = "after"
  /\ \E k \in 0..1, t \in {FALSE, Threads} : \E Q \in {FilterRest(p, k)} :
       p' = [(IF p.cacheable /\ (Q.in # <<>> \/ Q.tofile) THEN WriteFile(Q, t).p ELSE Q)
             EXCEPT !.pc = "end"]
  /\ UNCHANGED <<up, down>>

-----------------------------------------------------------------------------
(* ngx_event_pipe_write_to_downstream() *)

(* The output filter sends k bytes of the chain, and                        *)
(* ngx_chain_update_chains() frees what was sent.                           *)
Output(P, chain, k) ==
  LET all == Content(P, P.busy \o chain)
      step(A, c) ==
        LET n == c.to - c.from + 1
        IN IF A.k >= n THEN [A EXCEPT !.k = @ - n, !.P = Released(@, c)]
           ELSE [A EXCEPT !.k = 0, !.rest = Append(@, [c EXCEPT !.from = @ + A.k])]
      E == FoldLeft(step, [k |-> k, P |-> [P EXCEPT !.busy = <<>>], rest |-> <<>>], P.busy \o chain)
  IN [p |-> [E.P EXCEPT !.busy = E.rest], sent |-> SubSeq(all, 1, k), all |-> Len(all)]

WriteBegin ==
  /\ p.pc = "write"
  /\ p' = [(IF p.writing # <<>> THEN WriteFile(p, FALSE).p ELSE p) EXCEPT !.pc = "send"]
  /\ UNCHANGED <<up, down>>

(* the size of the buffers that are busy *)
BusyBytes(chain) ==
  Size * Cardinality({chain[i].b : i \in {j \in DOMAIN chain : chain[j].m /\ chain[j].rec}})

(* What is passed on: the file first, then buffers as far as busy_size      *)
(* allows, unless they are to be written to the file.                       *)
Passed(P) ==
  LET fits(k) == BusyBytes(P.busy) + BusyBytes(SubSeq(P.in, 1, k)) <= BusySize
      may == P.cacheable \/ P.writing # <<>>
      n == IF may THEN 0
           ELSE CHOOSE k \in 0..Len(P.in) : /\ fits(k)
                                            /\ k < Len(P.in) => ~fits(k + 1)
  IN [chain |-> P.out \o SubSeq(P.in, 1, n), in |-> SubSeq(P.in, n + 1, Len(P.in)),
      flush |-> ~may /\ n < Len(P.in)]

\* the filter takes the chain; the client takes k bytes, or is found gone
Sends(P, chain, next) ==
  \/ /\ ~down.gone
     /\ \E k \in 0..Len(Content(P, P.busy \o chain)) :
          \E o \in {Output(P, chain, k)} :
            /\ ~down.ready => k = 0
            /\ p' = [o.p EXCEPT !.pc = next]
            /\ down' = [down EXCEPT !.got = @ \o o.sent, !.ready = @ /\ k = o.all]
  \/ /\ down.gone
     /\ p' = [DrainChains([P EXCEPT !.busy = @ \o chain]) EXCEPT !.derr = TRUE, !.pc = "read"]
     /\ UNCHANGED down

SendLoop ==
  /\ p.pc = "send" /\ UNCHANGED up
  /\ LET o == Passed(p)
         full == BusyBytes(p.busy) >= BusySize
     IN \/ /\ p.derr
           /\ p' = [DrainChains(p) EXCEPT !.pc = "read"] /\ UNCHANGED down
        \/ /\ ~p.derr /\ Over(p)
           /\ LET chain == p.out \o (IF p.writing # <<>> THEN <<>> ELSE p.in)
                  P == [p EXCEPT !.out = <<>>, !.in = IF p.writing # <<>> THEN @ ELSE <<>>]
              IN IF chain = <<>> THEN p' = [p EXCEPT !.pc = "read"] /\ UNCHANGED down
                 ELSE Sends(P, chain, "read")
        \/ /\ ~p.derr /\ ~Over(p) /\ ~down.ready
           /\ p' = [p EXCEPT !.pc = "read"] /\ UNCHANGED down
        \/ /\ ~p.derr /\ ~Over(p) /\ down.ready /\ full
           /\ Sends(p, <<>>, "send")
        \/ /\ ~p.derr /\ ~Over(p) /\ down.ready /\ ~full
           /\ IF o.chain = <<>> /\ ~o.flush THEN p' = [p EXCEPT !.pc = "read"] /\ UNCHANGED down
              ELSE Sends([p EXCEPT !.out = <<>>, !.in = o.in], o.chain, "send")

-----------------------------------------------------------------------------
(* ngx_event_pipe(): again as long as something was read; then the timers *)
PipeEnd ==
  /\ p.pc = "end"
  /\ IF p.read \/ p.blocked
     THEN p' = [p EXCEPT !.pc = "write"] /\ UNCHANGED <<up, down>>
     ELSE /\ p' = [p EXCEPT !.pc = "process"]
          /\ up' = [up EXCEPT !.timer = ~up.ready]
          /\ down' = [down EXCEPT !.timer = ~down.ready]

(* ngx_http_upstream_process_request() *)
ProcessRequest ==
  /\ p.pc = "process"
  /\ p' = [p EXCEPT !.pc = Idle,
             !.end = CASE p.writing # <<>> -> "no"
                       [] p.writing = <<>> /\ Over(p) ->
                            IF p.done \/ (p.eof /\ p.length = -1) THEN "ok" ELSE "bad"
                       [] OTHER -> IF p.derr /\ ~p.cacheable THEN "lost" ELSE "no"]
  /\ UNCHANGED <<up, down>>

Rests == p.pc = Idle /\ p.end = "no"

(* the events of ngx_http_upstream_process_upstream() *)
ReadEvent ==
  /\ Rests /\ (up.sent > up.got \/ up.closed \/ up.broken) /\ ~Over(p)
  /\ up' = [up EXCEPT !.ready = TRUE]
  /\ p' = [p EXCEPT !.pc = "read"]
  /\ ~up.ready
  /\ UNCHANGED down

ReadTimeout ==
  /\ Rests /\ up.timer
  /\ up' = [up EXCEPT !.timer = FALSE]
  /\ p' = [p EXCEPT !.err = TRUE, !.pc = "process"]
  /\ UNCHANGED down

(* ... and of ngx_http_upstream_process_downstream() *)
WriteEvent ==
  /\ Rests /\ ~down.ready
  /\ down' = [down EXCEPT !.ready = TRUE]
  /\ p' = [p EXCEPT !.pc = "write"]
  /\ UNCHANGED up

WriteTimeout ==
  /\ Rests /\ down.timer
  /\ down' = [down EXCEPT !.timer = FALSE]
  /\ p' = [p EXCEPT !.derr = TRUE, !.pc = "process"]
  /\ UNCHANGED up

(* ngx_http_upstream_thread_event_handler() *)
ThreadDone ==
  /\ Rests /\ p.aio
  /\ p' = [p EXCEPT !.aio = FALSE, !.pc = "write"]
  /\ UNCHANGED <<up, down>>

(* the two peers *)
Produce ==
  /\ ~up.closed /\ ~up.broken /\ p.pc = Idle
  /\ up' \in {[up EXCEPT !.sent = n] : n \in {k \in Steps : k > up.sent}}
             \cup {[up EXCEPT !.closed = TRUE], [up EXCEPT !.broken = TRUE]}
  /\ UNCHANGED <<p, down>>

Leave == ~down.gone /\ p.pc = Idle /\ down' = [down EXCEPT !.gone = TRUE] /\ UNCHANGED <<p, up>>

Worker ==
  \/ ReadBegin \/ ReadPreread \/ ReadLoop \/ ReadAfter \/ WriteBegin \/ SendLoop \/ PipeEnd
  \/ ProcessRequest
Events == ReadEvent \/ ReadTimeout \/ WriteEvent \/ WriteTimeout \/ ThreadDone

Next == Worker \/ Events \/ Produce \/ Leave

-----------------------------------------------------------------------------
(* The client gets the bytes of the response in order, each once, whatever  *)
(* went through the file and however buffers were used again: what it has,  *)
(* and what waits for it, is what was read.  The file of a response that is *)
(* cached or stored is complete and the header comes first.  No null chain  *)
(* is followed: one raw buffer at least is never busy.                      *)
PipeExact ==
  LET waiting == Content(p, p.busy \o p.out \o p.writing \o p.in)
      prefix(s) == \A i \in DOMAIN s : s[i] = i
  IN /\ ~p.null
     /\ prefix(down.got)
     /\ ~p.derr /\ p.pc = Idle =>
          prefix(IF p.cacheable THEN down.got \o Content(p, p.busy) ELSE down.got \o waiting)
     /\ p.end = "ok" /\ ~p.derr =>
          Len(down.got \o Content(p, p.busy)) = up.got
     /\ p.end = "ok" /\ p.cacheable => p.file = [i \in 1..(up.got + 1) |-> i - 1]

(* When the pipe rests something is bound to wake it: the timer of a server *)
(* that has sent all it can be read, the timer of a client that is full, or *)
(* a thread; a server that is not read although it is ready has its turn    *)
(* when the client had.                                                     *)
PipeWakes ==
  Rests => \/ p.aio
           \/ ~up.ready /\ up.timer /\ ~Over(p)
           \/ ~down.ready /\ down.timer /\ ~p.derr

PipeSound == PipeExact /\ PipeWakes
=============================================================================
