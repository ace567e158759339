------------------------------ MODULE HttpUri ------------------------------
(* The request line and the URI in it: ngx_http_parse_request_line(),       *)
(* ngx_http_process_request_uri(), ngx_http_parse_complex_uri() and the     *)
(* functions that look at other URIs (http/ngx_http_parse.c).               *)
(*                                                                          *)
(* A line is a sequence of characters; of the methods only GET is told from *)
(* the others.  The parser keeps its state between two reads, so that it    *)
(* takes one character at a time.                                           *)
EXTENDS Integers, Sequences, SequencesExt

CONSTANTS
  Lines,     \* the request lines that are sent
  Targets,   \* the URIs of redirects, subrequests and X-Accel-Redirect
  Merge      \* merge_slashes

VARIABLES
  in,   \* the characters of the line
  r     \* what the request knows of it

vars == <<in, r>>

CR == "\r"
LF == "\n"
SP == " "
NUL == "nul"
Special == {CR, LF, SP, NUL, "/", ".", "?", "#", "%", "+"}   \* not in usual[]
Upper == {"G", "E", "T", "H", "P", "X", "_"}
Letters == {"G", "E", "T", "H", "P", "X", "a", "b", "c", "e", "f", "h"}
Digits == {"0", "1", "2", "3", "5", "6"}
Host == Letters \cup Digits \cup {".", "-"}
Literal == Letters \cup Digits \cup {":", "-", ".", "_"}

\* positions are 0 where the pointer is NULL
Fresh == [state |-> "start", rc |-> "again", start |-> 0, get |-> FALSE, schema |-> 0, host |-> 0,
          hostEnd |-> 0, uri |-> 0, end |-> 0, ext |-> 0, args |-> 0, complex |-> FALSE,
          quoted |-> FALSE, space |-> FALSE, plus |-> FALSE, proto |-> 0, major |-> 0, minor |-> 0,
          path |-> <<>>, exten |-> <<>>, query |-> <<>>]

Init == /\ in \in Lines \cup Targets
        /\ r = [Fresh EXCEPT !.rc = IF in \in Lines THEN "again" ELSE "target"]

Fail(q) == [q EXCEPT !.rc = "invalid"]
To(q, s) == [q EXCEPT !.state = s]

(* the end of the line *)
Done(q) ==
  [q EXCEPT !.rc = IF q.major * 1000 + q.minor = 9 /\ ~q.get THEN "invalid_09" ELSE "ok",
            !.state = "start"]
\* CR or LF where HTTP/0.9 ends
Eol09(q, ch) ==
  IF ch = CR THEN [q EXCEPT !.minor = 9, !.state = "almost_done"] ELSE Done([q EXCEPT !.minor = 9])

-----------------------------------------------------------------------------
(* ngx_http_parse_request_line(), one group of states after the other *)

LineMethod(q, ch, p) ==
  CASE q.state = "start" /\ ch \in {CR, LF} -> q
    [] q.state = "start" /\ ch \in Upper -> [q EXCEPT !.state = "method", !.start = p]
    [] q.state = "method" /\ ch = SP ->
         [q EXCEPT !.state = "spaces_before_uri",
                   !.get = SubSeq(in, q.start, p - 1) = <<"G", "E", "T">>]
    [] q.state = "method" /\ ch \in Upper -> q
    [] OTHER -> Fail(q)

LineSchema(q, ch, p) ==
  CASE q.state = "spaces_before_uri" /\ ch = "/" -> [q EXCEPT !.uri = p, !.state = "after_slash_in_uri"]
    [] q.state = "spaces_before_uri" /\ ch \in Letters -> To(q, "schema")
    [] q.state = "spaces_before_uri" /\ ch = SP -> q
    [] q.state = "schema" /\ ch \in Letters -> q
    [] q.state = "schema" /\ ch = ":" -> [q EXCEPT !.schema = p, !.state = "schema_slash"]
    [] q.state = "schema_slash" /\ ch = "/" -> To(q, "schema_slash_slash")
    [] q.state = "schema_slash_slash" /\ ch = "/" -> To(q, "host_start")
    [] OTHER -> Fail(q)

(* a URI without a path gets the slash that follows the schema *)
NoPath(q) == [q EXCEPT !.uri = q.schema + 1, !.end = q.schema + 2, !.state = "host_http_09"]

HostEnd(q, ch, p) ==
  CASE ch = ":" -> To(q, "port")
    [] ch = "/" -> [q EXCEPT !.uri = p, !.state = "after_slash_in_uri"]
    [] ch = SP -> NoPath(q)
    [] OTHER -> Fail(q)

LineHost(q, ch, p) ==
  CASE q.state = "host_start" /\ ch = "[" -> [q EXCEPT !.host = p, !.state = "host_ip_literal"]
    [] q.state = "host_start" /\ ch \in Host -> [q EXCEPT !.host = p, !.state = "host"]
    [] q.state = "host_start" /\ ch \notin Host \cup {"["} ->
         HostEnd([q EXCEPT !.host = p, !.hostEnd = p], ch, p)
    [] q.state = "host" /\ ch \in Host -> q
    [] q.state = "host_end" \/ (q.state = "host" /\ ch \notin Host) ->
         HostEnd([q EXCEPT !.hostEnd = p], ch, p)
    [] q.state = "host_ip_literal" /\ ch = "]" -> To(q, "host_end")
    [] q.state = "host_ip_literal" /\ ch \in Literal -> q
    [] q.state = "port" /\ ch \in Digits -> q
    [] q.state = "port" /\ ch = "/" -> [q EXCEPT !.uri = p, !.state = "after_slash_in_uri"]
    [] q.state = "port" /\ ch = SP -> NoPath(q)
    [] OTHER -> Fail(q)

(* sw_after_slash_in_uri and sw_check_uri, for what does not end the URI *)
AfterSlash(q, ch, p) ==
  CASE ch \in {".", "/", "#"} -> [q EXCEPT !.complex = TRUE, !.state = "uri"]
    [] ch = "%" -> [q EXCEPT !.quoted = TRUE, !.state = "uri"]
    [] ch = "?" -> [q EXCEPT !.args = p + 1, !.state = "uri"]
    [] ch = "+" -> [q EXCEPT !.plus = TRUE]
    [] OTHER -> To(q, "check_uri")

CheckUri(q, ch, p) ==
  CASE ch = "/" -> [q EXCEPT !.ext = 0, !.state = "after_slash_in_uri"]
    [] ch = "." -> [q EXCEPT !.ext = p + 1, !.state = "check_uri"]
    [] ch = "%" -> [q EXCEPT !.quoted = TRUE, !.state = "uri"]
    [] ch = "?" -> [q EXCEPT !.args = p + 1, !.state = "uri"]
    [] ch = "#" -> [q EXCEPT !.complex = TRUE, !.state = "uri"]
    [] ch = "+" -> [q EXCEPT !.plus = TRUE, !.state = "check_uri"]
    [] OTHER -> To(q, "check_uri")

InUri(q, ch) == [q EXCEPT !.complex = @ \/ ch = "#", !.state = "uri"]

LineUri(q, ch, p) ==
  LET in_uri == q.state \in {"after_slash_in_uri", "check_uri", "uri"}
      E == [q EXCEPT !.end = p]
      U == [q EXCEPT !.space = TRUE]   \* the space was a part of the URI
  IN CASE in_uri /\ ch = NUL -> Fail(q)
       [] in_uri /\ ch \in {CR, LF} -> Eol09(E, ch)
       [] in_uri /\ ch = SP -> To(E, IF q.state = "uri" THEN "http_09" ELSE "check_uri_http_09")
       [] q.state = "after_slash_in_uri" /\ ch \notin {CR, LF, SP, NUL} -> AfterSlash(q, ch, p)
       [] q.state = "check_uri" /\ ch \notin {CR, LF, SP, NUL} -> CheckUri(q, ch, p)
       [] q.state = "uri" /\ ch \notin {CR, LF, SP, NUL} -> InUri(q, ch)
       [] ~in_uri /\ ch = SP -> q
       [] ~in_uri /\ ch \in {CR, LF} -> Eol09(q, ch)
       [] ~in_uri /\ ch = "H" -> [q EXCEPT !.proto = p, !.state = "http"]
       [] q.state = "host_http_09" /\ ch \notin {SP, CR, LF, "H"} -> Fail(q)
       [] q.state = "check_uri_http_09" /\ ch = NUL -> Fail(q)
       [] q.state = "http_09" /\ ch = NUL -> Fail(q)
       [] q.state = "check_uri_http_09" /\ ch \notin {SP, CR, LF, "H", NUL} -> CheckUri(U, ch, p)
       [] q.state = "http_09" /\ ch \notin {SP, CR, LF, "H", NUL} -> InUri(U, ch)

Value(ch) == CHOOSE n \in 0..9 : ToString(n) = ch

LineVersion(q, ch, p) ==
  LET name == <<"H", "T", "T", "P", "/">>
      last == q.state \in {"minor_digit", "spaces_after_digit"}
  IN CASE q.state = "http" /\ ch = name[p - q.proto + 1] ->
            IF ch = "/" THEN To(q, "first_major_digit") ELSE q
       [] q.state = "first_major_digit" /\ ch \in Digits \ {"0"} ->
            [q EXCEPT !.major = Value(ch), !.state = "major_digit"]
       [] q.state = "major_digit" /\ ch = "." -> To(q, "first_minor_digit")
       [] q.state = "major_digit" /\ ch \in Digits -> [q EXCEPT !.major = @ * 10 + Value(ch)]
       [] q.state = "first_minor_digit" /\ ch \in Digits ->
            [q EXCEPT !.minor = Value(ch), !.state = "minor_digit"]
       [] q.state = "minor_digit" /\ ch \in Digits -> [q EXCEPT !.minor = @ * 10 + Value(ch)]
       [] last /\ ch = CR -> To(q, "almost_done")
       [] last /\ ch = SP -> To(q, "spaces_after_digit")
       [] (last \/ q.state = "almost_done") /\ ch = LF -> Done(q)
       [] OTHER -> Fail(q)

LineStep(q, ch, p) ==
  CASE q.state \in {"start", "method"} -> LineMethod(q, ch, p)
    [] q.state \in {"spaces_before_uri", "schema", "schema_slash", "schema_slash_slash"} ->
         LineSchema(q, ch, p)
    [] q.state \in {"host_start", "host", "host_end", "host_ip_literal", "port"} -> LineHost(q, ch, p)
    [] q.state \in {"after_slash_in_uri", "check_uri", "uri", "check_uri_http_09", "http_09",
                    "host_http_09"} -> LineUri(q, ch, p)
    [] OTHER -> LineVersion(q, ch, p)

ParseRequestLine ==
  LET step(q, p) == IF q.rc = "again" THEN LineStep(q, in[p], p) ELSE q
  IN FoldLeft(step, r, [p \in 1..Len(in) |-> p])

-----------------------------------------------------------------------------
(* %XX, as the two digits give it *)
HexDigits == Digits \cup {"a", "b", "c", "e", "f"}
Decoded(h, l) ==
  CASE h = "2" /\ l = "e" -> "."
    [] h = "2" /\ l = "f" -> "/"
    [] h = "2" /\ l = "5" -> "%"
    [] h = "2" /\ l = "3" -> "#"
    [] h = "3" /\ l = "f" -> "?"
    [] h = "2" /\ l = "b" -> "+"
    [] h = "0" /\ l = "0" -> NUL
    [] OTHER -> "x"

(* ngx_http_parse_complex_uri(): u is what was written, qst the state a     *)
(* quoted character was met in                                              *)
Push(c, s, ch) == [c EXCEPT !.u = Append(@, ch), !.st = s]

(* the segment before /../ is dropped *)
Up(c) ==
  LET n == Len(c.u)
      slashes == {i \in 1..(n - 4) : c.u[i] = "/"}
  IN IF slashes = {} THEN [c EXCEPT !.rc = "invalid"]
     ELSE [c EXCEPT !.u = SubSeq(@, 1, CHOOSE i \in slashes : \A j \in slashes : j <= i), !.st = "slash"]

ComplexSlash(c) ==
  CASE c.st = "usual" -> [Push(c, "slash", "/") EXCEPT !.ext = 0]
    [] c.st = "slash" -> IF Merge THEN c ELSE Push(c, "slash", "/")
    [] c.st = "dot" -> [c EXCEPT !.u = Front(@), !.st = "slash"]
    [] c.st = "dot_dot" -> Up(c)

ComplexDot(c) ==
  CASE c.st = "usual" -> [Push(c, "usual", ".") EXCEPT !.ext = Len(c.u) + 2]
    [] c.st = "slash" -> Push(c, "dot", ".")
    [] c.st = "dot" -> Push(c, "dot_dot", ".")
    [] c.st = "dot_dot" -> Push(c, "usual", ".")

ComplexPlain(c, ch, p) ==
  CASE ch = "/" -> ComplexSlash(c)
    [] ch = "." -> ComplexDot(c)
    [] ch = "%" -> [c EXCEPT !.qst = c.st, !.st = "quoted"]
    [] ch = "?" -> [c EXCEPT !.args = p + 1, !.rc = "args"]
    [] ch = "#" -> [c EXCEPT !.rc = "done"]
    [] OTHER -> Push([c EXCEPT !.plus = @ \/ ch = "+"], "usual", ch)

ComplexQuoted(c, ch, p) ==
  CASE ch \notin HexDigits -> [c EXCEPT !.rc = "invalid"]
    [] c.st = "quoted" /\ ch \in HexDigits -> [c EXCEPT !.h = ch, !.st = "quoted_second", !.quoted = TRUE]
    [] c.st = "quoted_second" /\ ch \in HexDigits ->
         LET d == Decoded(c.h, ch)
         IN CASE d \in {"%", "#", "?"} -> Push(c, "usual", d)
              [] d = NUL -> [c EXCEPT !.rc = "invalid"]
              [] OTHER -> ComplexPlain([c EXCEPT !.st = c.qst], d, p)

ComplexUri(q) ==
  LET step(c, p) == IF c.rc # "again" THEN c
                    ELSE IF c.st \in {"quoted", "quoted_second"} THEN ComplexQuoted(c, in[p], p)
                    ELSE ComplexPlain(c, in[p], p)
      c == FoldLeft(step, [rc |-> "again", st |-> "usual", qst |-> "usual", h |-> "0", u |-> <<>>,
                           ext |-> 0, args |-> 0, plus |-> FALSE, quoted |-> q.quoted],
                    [i \in 1..(q.end - q.uri) |-> q.uri + i - 1])
      marks == {i \in c.args..(q.end - 1) : in[i] = "#"}   \* a fragment after the arguments
      cut == IF c.args # 0 /\ marks # {} THEN CHOOSE i \in marks : \A j \in marks : i <= j ELSE 0
  IN [q EXCEPT !.rc = IF c.rc = "invalid" THEN "bad" ELSE @,
               !.path = c.u, !.exten = IF c.ext = 0 THEN <<>> ELSE SubSeq(c.u, c.ext, Len(c.u)),
               !.ext = 0, !.args = IF cut # 0 THEN 0 ELSE c.args,
               !.query = IF cut # 0 THEN SubSeq(in, c.args, cut - 1) ELSE <<>>]

(* ngx_http_process_request_uri() *)
ProcessRequestUri(q) ==
  LET end == IF q.args # 0 THEN q.args - 2 ELSE q.end - 1
      c == IF q.complex \/ q.quoted THEN ComplexUri(q)
           ELSE [q EXCEPT !.path = SubSeq(in, q.uri, end)]
  IN IF c.rc # "ok" THEN c
     ELSE [c EXCEPT !.exten = IF c.ext # 0
                              THEN SubSeq(in, c.ext, IF c.args # 0 THEN c.args - 2 ELSE c.end - 1)
                              ELSE @,
                    !.query = IF c.args # 0 /\ c.end > c.args THEN SubSeq(in, c.args, c.end - 1) ELSE @]

ProcessRequestLine ==
  /\ r.rc = "again" /\ r.state = "start"
  /\ \E q \in {ParseRequestLine} : r' = IF q.rc = "ok" THEN ProcessRequestUri(q) ELSE q
  /\ UNCHANGED in

-----------------------------------------------------------------------------
(* ngx_unescape_uri() with the type 0 *)
UnescapeUri(s) ==
  LET step(c, ch) ==
        CASE c.st = "usual" -> IF ch = "%" THEN [c EXCEPT !.st = "quoted"] ELSE Push(c, "usual", ch)
          [] c.st = "quoted" -> IF ch \in HexDigits THEN [c EXCEPT !.h = ch, !.st = "second"]
                                ELSE Push(c, "usual", ch)
          [] c.st = "second" -> IF ch \in HexDigits THEN Push(c, "usual", Decoded(c.h, ch))
                                ELSE [c EXCEPT !.st = "usual"]
  IN FoldLeft(step, [st |-> "usual", h |-> "0", u |-> <<>>], s).u

(* ngx_http_split_args(): the part before the first question mark *)
SplitArgs(s) ==
  LET marks == {i \in DOMAIN s : s[i] = "?"}
      at == IF marks = {} THEN Len(s) + 1 ELSE CHOOSE i \in marks : \A j \in marks : i <= j
  IN [uri |-> SubSeq(s, 1, at - 1), args |-> SubSeq(s, at + 1, Len(s))]

(* a segment that is "..", or a zero, before the position n; what follows   *)
(* the segment is looked at in all of s                                     *)
Leaves(s, n) ==
  \/ \E i \in 0..(Len(s) - 2) :
       /\ i < n /\ (i = 0 \/ s[i] = "/")
       /\ s[i + 1] = "." /\ s[i + 2] = "." /\ (i + 2 = Len(s) \/ s[i + 3] = "/")
  \/ \E i \in DOMAIN s : i < n /\ s[i] = NUL

(* ngx_http_parse_unsafe_uri() *)
ParseUnsafeUri ==
  /\ r.rc = "target"
  /\ LET s == SplitArgs(in)
         plain == UnescapeUri(s.uri)
         quoted == "%" \in Range(s.uri)
         unsafe == \/ in = <<>> \/ in[1] = "?" \/ Leaves(in, Len(s.uri) + 1)
                   \/ quoted /\ Leaves(plain, Len(plain) + 1)
     IN r' = [r EXCEPT !.rc = IF unsafe THEN "unsafe" ELSE "safe",
                       !.path = IF quoted THEN plain ELSE s.uri, !.query = s.args]
  /\ UNCHANGED in

Next == ProcessRequestLine \/ ParseUnsafeUri

-----------------------------------------------------------------------------
(* The reference: the segments of a path, with dot segments resolved. *)

\* characters after decoding; a quoted % # or ? is an ordinary character
Tokens(s) ==
  LET step(c, ch) ==
        CASE c.st = "usual" -> IF ch = "%" THEN [c EXCEPT !.st = "quoted"] ELSE Push(c, "usual", ch)
          [] c.st = "quoted" -> [c EXCEPT !.h = ch, !.st = "second"]
          [] c.st = "second" ->
               LET d == Decoded(c.h, ch)
               IN Push(c, "usual", IF d \in {"%", "#", "?"} THEN "q" \o d ELSE d)
  IN FoldLeft(step, [st |-> "usual", h |-> "0", u |-> <<>>], s).u

RawPath(q) ==
  LET uri == SubSeq(in, q.uri, q.end - 1)
      ends == {i \in DOMAIN uri : uri[i] \in {"?", "#"}}
  IN IF ends = {} THEN uri ELSE SubSeq(uri, 1, (CHOOSE i \in ends : \A j \in ends : i <= j) - 1)

Segments(s) ==
  LET step(segs, ch) == IF ch = "/" THEN Append(segs, <<>>)
                        ELSE [segs EXCEPT ![Len(segs)] = Append(@, ch)]
  IN FoldLeft(step, <<>>, s)

Resolved(s) ==
  LET segs == Segments(s)
      step(c, i) == CASE c = <<"out">> -> c
                      [] c # <<"out">> /\ i = Len(segs) -> Append(c, segs[i])
                      [] c # <<"out">> /\ i < Len(segs) /\ segs[i] = <<".", ".">> ->
                           IF c = <<>> THEN <<"out">> ELSE Front(c)
                      [] c # <<"out">> /\ i < Len(segs) /\ segs[i] \in {<<>>, <<".">>} -> c
                      [] OTHER -> Append(c, segs[i])
  IN FoldLeft(step, <<>>, [i \in DOMAIN segs |-> i])

Joined(segs) == FoldLeft(LAMBDA s, seg : s \o <<"/">> \o seg, <<>>, segs)
Unmarked(s) == [i \in DOMAIN s |-> CASE s[i] = "q%" -> "%" [] s[i] = "q#" -> "#" [] s[i] = "q?" -> "?"
                                     [] OTHER -> s[i]]

\* every % is followed by two digits
WellQuoted(s) == \A i \in DOMAIN s : s[i] = "%" =>
                   /\ i + 2 <= Len(s) /\ s[i + 1] \in HexDigits /\ s[i + 2] \in HexDigits

(* The path of a request is the URI of its line decoded once, with empty,   *)
(* "." and ".." segments resolved, whether or not the line was found to be  *)
(* complex: what goes through unchanged is its own normal form.  A path     *)
(* above the root is refused; the last segment may still be a dot one.  The *)
(* extension is that of the last segment, and what is written never         *)
(* exceeds the buffer, which has one byte more than the URI.                *)
PathNormal ==
  LET raw == RawPath(r)
      path == Resolved(Tokens(raw))
      room == r.end - r.uri + 1
  IN r.uri # 0 /\ Merge /\ WellQuoted(raw) /\ NUL \notin Range(Tokens(raw)) =>
       /\ r.rc = "bad" => path = <<"out">>
       /\ r.rc = "ok" => /\ r.path = Unmarked(Joined(path))
                         /\ Len(r.path) <= room
                         /\ r.exten # <<>> => r.exten = SubSeq(r.path, Len(r.path) - Len(r.exten) + 1, Len(r.path))
                         /\ "/" \notin Range(r.exten) /\ "." \notin Range(r.exten)

(* A URI that is found safe does not leave its directory, neither as it is  *)
(* nor decoded; only a last segment of dots is missed when arguments follow *)
(* and nothing is quoted.                                                   *)
SafeStays ==
  LET uri == SplitArgs(in).uri
      inner == IF in = uri \/ r.path # uri THEN r.path ELSE Append(r.path, "a")
  IN r.rc = "safe" => ~Leaves(inner, Len(inner) + 1)

(* A line that is accepted is a method, a URI without line ends and, unless *)
(* it is HTTP/0.9, the protocol after it; HTTP/0.9 is only GET.             *)
LineExact ==
  r.rc \in {"ok", "bad"} =>
    LET uri == SubSeq(in, r.uri, r.end - 1)
    IN /\ uri # <<>> /\ uri[1] = "/"
       /\ Range(uri) \cap {CR, LF, NUL} = {}
       /\ SP \in Range(uri) => r.space
       /\ in[r.end] \in {SP, CR, LF} \/ r.host # 0
       /\ r.proto # 0 => /\ r.end < r.proto /\ r.major >= 1
                         /\ SubSeq(in, r.proto, r.proto + 4) = <<"H", "T", "T", "P", "/">>
       /\ r.proto = 0 => r.get

UriSound == PathNormal /\ SafeStays /\ LineExact
=============================================================================
