----------------------------- MODULE HttpHeader -----------------------------
(* Header lines, the status line of a response and the values looked up in  *)
(* them (http/ngx_http_parse.c, http/modules/ngx_http_proxy_module.c).      *)
(*                                                                          *)
(* The parser of header lines keeps the lower-case name and its hash in the *)
(* request from line to line.  That it skips a line "HTTP/" of an upstream  *)
(* server which comes instead of a header is left out.                      *)
EXTENDS Integers, Sequences, SequencesExt

CONSTANTS
  Headers,      \* the headers that are sent: sequences of characters
  Statuses,     \* status lines
  Values,       \* values of Cookie, or arguments, something is looked up in
  LcLen,        \* NGX_HTTP_LC_HEADER_LEN, a power of two
  Underscores   \* allow_underscores

VARIABLES
  in,   \* the characters
  q     \* the request

vars == <<in, q>>

CR == "\r"
LF == "\n"
SP == " "
NUL == "nul"
Lower == [c \in {"a", "b", "A", "B", "-", "1"} |-> CASE c = "A" -> "a" [] c = "B" -> "b" [] OTHER -> c]
Digits == {"0", "1", "2", "4"}

Init ==
  /\ \E job \in {"headers", "status", "find"} :
       /\ in \in CASE job = "headers" -> Headers [] job = "status" -> Statuses [] OTHER -> Values
       /\ q = [job |-> job, st |-> "start", rc |-> "again", pos |-> 0, hash |-> <<>>,
               lc |-> [i \in 0..(LcLen - 1) |-> "?"], i |-> 0, invalid |-> FALSE, name |-> 0, nameEnd |-> 0,
               start |-> 0, end |-> 0, code |-> 0, count |-> 0, found |-> <<>>]

-----------------------------------------------------------------------------
(* ngx_http_parse_header_line() *)

(* a character of the name; the first one that counts begins the hash *)
NameChar(h, c, first) ==
  IF first THEN [h EXCEPT !.hash = <<c>>, !.lc[0] = c, !.i = 1]
  ELSE [h EXCEPT !.hash = Append(@, c), !.lc[h.i] = c, !.i = (@ + 1) % LcLen]

InName(h, ch, first) ==
  CASE ch \in DOMAIN Lower -> NameChar(h, Lower[ch], first)
    [] ch = "_" /\ Underscores -> NameChar(h, ch, first)
    [] ch = NUL -> [h EXCEPT !.rc = "error"]
    [] OTHER -> [h EXCEPT !.invalid = TRUE]

HeaderStart(h, ch, p) ==
  LET N == [h EXCEPT !.name = p, !.invalid = FALSE]
  IN CASE ch = CR -> [N EXCEPT !.end = p, !.st = "header_almost_done"]
       [] ch = LF -> [N EXCEPT !.end = p, !.rc = "header_done"]
       [] OTHER -> InName([N EXCEPT !.st = "name"], ch, TRUE)

HeaderName(h, ch, p) ==
  CASE ch = ":" -> [h EXCEPT !.nameEnd = p, !.st = "space_before_value"]
    [] ch = CR -> [h EXCEPT !.nameEnd = p, !.start = p, !.end = p, !.st = "almost_done"]
    [] ch = LF -> [h EXCEPT !.nameEnd = p, !.start = p, !.end = p, !.rc = "ok"]
    [] OTHER -> InName(h, ch, FALSE)

HeaderValue(h, ch, p) ==
  LET before == h.st = "space_before_value"
      B == IF before THEN [h EXCEPT !.start = p] ELSE h
      E == IF h.st \in {"space_before_value", "value"} THEN [B EXCEPT !.end = p] ELSE B
  IN CASE ch = SP -> IF h.st = "value" THEN [h EXCEPT !.end = p, !.st = "space_after_value"] ELSE h
       [] ch = CR -> [E EXCEPT !.st = "almost_done"]
       [] ch = LF -> [E EXCEPT !.rc = "ok"]
       [] ch = NUL -> [h EXCEPT !.rc = "error"]
       [] OTHER -> [B EXCEPT !.st = "value"]

HeaderEnd(h, ch) ==
  CASE ch = LF -> [h EXCEPT !.rc = IF h.st = "almost_done" THEN "ok" ELSE "header_done"]
    [] ch = CR /\ h.st = "almost_done" -> h
    [] OTHER -> [h EXCEPT !.rc = "error"]

HeaderStep(h, p) ==
  CASE h.rc # "again" -> h
    [] h.rc = "again" /\ h.st = "start" -> HeaderStart([h EXCEPT !.pos = p], in[p], p)
    [] h.rc = "again" /\ h.st = "name" -> HeaderName([h EXCEPT !.pos = p], in[p], p)
    [] h.rc = "again" /\ h.st \in {"space_before_value", "value", "space_after_value"} ->
         HeaderValue([h EXCEPT !.pos = p], in[p], p)
    [] OTHER -> HeaderEnd([h EXCEPT !.pos = p], in[p])

(* one line; hash and index are those of the line before until a character  *)
(* of the name replaces them                                                *)
ParseHeaderLine ==
  /\ q.job = "headers" /\ q.rc \in {"again", "ok"} /\ q.pos < Len(in)
  /\ q' = FoldLeft(HeaderStep, [q EXCEPT !.st = "start", !.rc = "again"],
                   [k \in 1..(Len(in) - q.pos) |-> q.pos + k])
  /\ UNCHANGED in

(* h->lowcase_key, as ngx_http_process_request_headers() and                *)
(* ngx_http_proxy_process_header() make it                                  *)
Key == SubSeq(in, q.name, q.nameEnd - 1)
LowcaseKey ==
  IF Len(Key) = q.i THEN [k \in 1..Len(Key) |-> q.lc[k - 1]]
  ELSE [k \in 1..Len(Key) |-> IF Key[k] \in DOMAIN Lower THEN Lower[Key[k]] ELSE Key[k]]

-----------------------------------------------------------------------------
(* ngx_http_parse_status_line(), one group of states after the other; the   *)
(* version is not kept                                                      *)
StatusVersion(h, ch, p) ==
  LET name == <<"H", "T", "T", "P", "/">>
  IN CASE h.st = "start" /\ ch = name[p] -> IF p = 5 THEN [h EXCEPT !.st = "first_major_digit"] ELSE h
       [] h.st = "first_major_digit" /\ ch \in Digits \ {"0"} -> [h EXCEPT !.st = "major_digit"]
       [] h.st = "major_digit" /\ ch \in Digits -> h
       [] h.st = "major_digit" /\ ch = "." -> [h EXCEPT !.st = "first_minor_digit"]
       [] h.st \in {"first_minor_digit", "minor_digit"} /\ ch \in Digits -> [h EXCEPT !.st = "minor_digit"]
       [] h.st = "minor_digit" /\ ch = SP -> [h EXCEPT !.st = "status"]
       [] OTHER -> [h EXCEPT !.rc = "error"]

Value(ch) == CHOOSE n \in 0..9 : ToString(n) = ch

StatusCode(h, ch, p) ==
  CASE h.st = "status" /\ ch = SP -> h
    [] h.st = "status" /\ ch \in Digits ->
         [h EXCEPT !.code = @ * 10 + Value(ch), !.count = @ + 1,
                   !.st = IF h.count = 2 THEN "space_after_status" ELSE "status",
                   !.start = IF h.count = 2 THEN p - 2 ELSE @]
    [] h.st = "space_after_status" /\ ch \in {SP, "."} -> [h EXCEPT !.st = "status_text"]
    [] h.st \in {"space_after_status", "status_text"} /\ ch = CR -> [h EXCEPT !.st = "almost_done"]
    [] h.st \in {"space_after_status", "status_text"} /\ ch = LF -> [h EXCEPT !.rc = "ok", !.end = p]
    [] h.st = "almost_done" /\ ch = LF -> [h EXCEPT !.rc = "ok", !.end = p - 1]
    [] h.st = "status_text" /\ ch \notin {CR, LF} -> h
    [] OTHER -> [h EXCEPT !.rc = "error"]

ParseStatusLine ==
  /\ q.job = "status" /\ q.rc = "again"
  /\ q' = FoldLeft(LAMBDA h, p : IF h.rc # "again" THEN h
                                 ELSE IF h.st \in {"status", "space_after_status", "status_text", "almost_done"}
                                 THEN StatusCode(h, in[p], p) ELSE StatusVersion(h, in[p], p),
                   [q EXCEPT !.pos = Len(in)], [k \in 1..Len(in) |-> k])
  /\ q.pos = 0
  /\ UNCHANGED in

-----------------------------------------------------------------------------
NameAt(s, p, name) == p + Len(name) - 1 <= Len(s) /\ \A k \in DOMAIN name : s[p + k - 1] = name[k]
\* the first position from p on that is not a space, or the first of one of C
SkipSpaces(s, p) == CHOOSE k \in p..(Len(s) + 1) : /\ \A j \in p..(k - 1) : s[j] = SP
                                                  /\ k <= Len(s) => s[k] # SP
UpTo(s, p, C) == CHOOSE k \in p..(Len(s) + 1) : /\ \A j \in p..(k - 1) : s[j] \notin C
                                                /\ k <= Len(s) => s[k] \in C

\* the value of name from p on: after "=", up to ";"
Assigned(s, p, name) ==
  LET eq == SkipSpaces(s, p + Len(name))
      v == SkipSpaces(s, eq + 1)
  IN IF eq <= Len(s) /\ s[eq] = "=" THEN <<SubSeq(s, v, UpTo(s, v, {";"}) - 1)>> ELSE <<>>

(* ngx_http_parse_multi_header_lines(), for one header, and                 *)
(* ngx_http_parse_set_cookie_lines(), which looks at the first pair only.   *)
(* A pair whose name does not match is passed over from where the           *)
(* comparison stopped.                                                      *)
MultiHeader(s, name) ==
  LET find[p \in 1..(Len(s) + 1)] ==
        IF p > Len(s) THEN <<>>
        ELSE IF NameAt(s, p, name) /\ Assigned(s, p, name) # <<>> THEN Assigned(s, p, name)
        ELSE LET eq == SkipSpaces(s, p + Len(name))
                 from == IF ~NameAt(s, p, name) THEN p
                         ELSE IF eq <= Len(s) THEN eq + 1 ELSE eq   \* *start++ != '='
                 sep == UpTo(s, IF from > Len(s) + 1 THEN Len(s) + 1 ELSE from, {";", ","})
             IN find[IF sep > Len(s) THEN Len(s) + 1 ELSE SkipSpaces(s, sep + 1)]
  IN IF Len(name) > Len(s) THEN <<>> ELSE find[1]

SetCookie(s, name) ==
  IF Len(name) >= Len(s) \/ ~NameAt(s, 1, name) THEN <<>> ELSE Assigned(s, 1, name)

(* ngx_http_arg(): the name is searched for anywhere and then looked at *)
Arg(s, name) ==
  LET ps == {p \in 1..Len(s) : /\ NameAt(s, p, name)
                               /\ p = 1 \/ s[p - 1] = "&"
                               /\ p + Len(name) <= Len(s) /\ s[p + Len(name)] = "="}
  IN IF ps = {} THEN <<>>
     ELSE LET p == CHOOSE k \in ps : \A j \in ps : k <= j
              v == p + Len(name) + 1
          IN <<SubSeq(s, v, UpTo(s, v, {"&"}) - 1)>>

Names == {<<"a">>, <<"a", "b">>}

Find ==
  /\ q.job = "find" /\ q.rc = "again"
  /\ q' = [q EXCEPT !.rc = "ok",
             !.found = [n \in Names |-> [multi |-> MultiHeader(in, n), cookie |-> SetCookie(in, n), arg |-> Arg(in, n)]]]
  /\ UNCHANGED in

Next == ParseHeaderLine \/ ParseStatusLine \/ Find

-----------------------------------------------------------------------------
\* the parts of s between separators
Split(s, C) ==
  LET step(parts, ch) == IF ch \in C THEN Append(parts, <<>>) ELSE [parts EXCEPT ![Len(parts)] = Append(@, ch)]
  IN FoldLeft(step, << <<>> >>, s)
Trim(s) ==
  LET ks == {k \in DOMAIN s : s[k] # SP}
      lo == CHOOSE k \in ks : \A j \in ks : k <= j
      hi == CHOOSE k \in ks : \A j \in ks : j <= k
  IN IF ks = {} THEN <<>> ELSE SubSeq(s, lo, hi)
LineOf(p) == LET from == CHOOSE k \in 1..p : (k = 1 \/ in[k - 1] = LF) /\ \A j \in k..(p - 1) : in[j] # LF
             IN SubSeq(in, from, p - 1)
Low(s) == [k \in DOMAIN s |-> IF s[k] \in DOMAIN Lower THEN Lower[s[k]] ELSE s[k]]

(* A header line is its name, up to the colon, and its value without the    *)
(* spaces around it; a name with another character is marked.  The          *)
(* lower-case name and the hash are those of the name, also when the name   *)
(* is longer than the array, unless its first character is not one of a     *)
(* name: then both go on from the line before.                              *)
HeaderExact ==
  q.job = "headers" /\ q.rc = "ok" =>
    LET line == LineOf(q.pos)
        colon == UpTo(line, 1, {":"})
        name == SelectSeq(SubSeq(line, 1, colon - 1), LAMBDA c : c # CR)
        taken == {c \in Range(name) : c \in DOMAIN Lower \/ (c = "_" /\ Underscores)}
        value == SelectSeq(SubSeq(line, colon + 1, Len(line)), LAMBDA c : c # CR)
    IN /\ Key = name /\ Trim(SubSeq(in, q.start, q.end - 1)) = Trim(value)
       /\ q.start < q.end => in[q.start] # SP /\ in[q.end - 1] # SP
       /\ q.invalid <=> Range(name) # taken
       /\ name[1] \in taken => /\ LowcaseKey = Low(name)
                               /\ q.hash = SelectSeq(Low(name), LAMBDA c : c \in DOMAIN Lower \/ (c = "_" /\ Underscores))

(* The status is three digits, whatever spaces come between them. *)
StatusExact ==
  q.job = "status" /\ q.rc = "ok" =>
    LET ds == SelectSeq(SubSeq(in, UpTo(in, 1, {SP}), Len(in)), LAMBDA c : c \in Digits)
    IN q.code = Value(ds[1]) * 100 + Value(ds[2]) * 10 + Value(ds[3])

(* What is looked up is the first pair of that name.  In Cookie a pair      *)
(* without "=" hides the one after it, and a value ends only at ";".        *)
FindExact ==
  q.job = "find" /\ q.rc = "ok" =>
    \A n \in Names :
      LET first(parts) ==
            LET ks == {k \in DOMAIN parts : UpTo(parts[k], 1, {"="}) <= Len(parts[k])
                                            /\ Trim(SubSeq(parts[k], 1, UpTo(parts[k], 1, {"="}) - 1)) = n}
            IN IF ks = {} THEN <<>>
               ELSE LET p == parts[CHOOSE k \in ks : \A j \in ks : k <= j]
                    IN <<SubSeq(p, UpTo(p, 1, {"="}) + 1, Len(p))>>
          usual == Range(in) \cap {",", SP} = {}
          whole == \A k \in DOMAIN Split(in, {";"}) : "=" \in Range(Split(in, {";"})[k])
      IN /\ usual /\ Len(in) > 0 => q.found[n].arg = first(Split(in, {"&"}))
         /\ usual /\ whole => q.found[n].multi = first(Split(in, {";"}))
         /\ q.found[n].cookie # <<>> /\ usual /\ whole => q.found[n].cookie = q.found[n].multi

HeadersSound == HeaderExact /\ StatusExact /\ FindExact
=============================================================================
