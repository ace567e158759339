---------------------------- MODULE MCParts -------------------------------
(* Small instances of parts of a worker that never meet in one behaviour: a *)
(* behaviour is of one part.  The thread pool has its own variables, all    *)
(* others share x to w.                                                     *)
EXTENDS ThreadPool, SequencesExt

VARIABLES part, x, y, z, w

partVars == <<x, y, z, w>>

-----------------------------------------------------------------------------
(* EventPipe: three buffers of two bytes; one at least is never busy. *)
Pipe == INSTANCE EventPipe WITH
  Total <- 11, Steps <- {3, 11}, Size <- 2, Num <- 3, BusySize <- 2, MaxTemps <- {2, 3},
  WriteSize <- 2, Threads <- TRUE, p <- x, up <- y, down <- z

(* HttpUri: all paths of four tokens, some of them in the forms of a line. *)
Pct(h, l) == <<"%", h, l>>
PathTokens == {<<"/">>, <<".">>, <<"a">>, <<"?">>, <<"#">>, <<"+">>, Pct("2", "e"), Pct("2", "f"), Pct("3", "f"),
               Pct("2", "5")}
Paths(n, T) == {t[1] \o t[2] \o t[3] \o t[4] \o t[5] : t \in [1..5 -> T \cup {<<>>}]}
ShortPaths == {t[1] \o t[2] \o t[3] : t \in [1..3 -> PathTokens \cup {<<" ">>, <<"nul">>, <<"%">>, <<"a", " ">>, <<"H">>}]}
Get(u, end) == <<"G", "E", "T", " ">> \o u \o end
Http10 == <<" ", "H", "T", "T", "P", "/", "1", ".", "1">>
MCLines ==
  {Get(<<"/">> \o u, Http10 \o <<"\r", "\n">>) : u \in Paths(5, {<<"/">>, <<".">>, <<"a">>, Pct("2", "e"), Pct("2", "f")})}
  \cup {Get(<<"/">> \o u, Http10 \o <<"\n">>) : u \in ShortPaths}
  \cup {<<m>> \o <<" ">> \o h \o v : m \in {"G", "a"},
          h \in {<<"h", ":", "/", "/">> \o k : k \in {<<"h", " ">>, <<"h", "/", "a">>, <<"[", "a", ":", "]", ":", "6", " ">>,
                                                      <<"/">>, <<"h", ":", "6", "/">>}},
          v \in {Http10 \o <<"\r", "\n">>, <<"\n">>, Http10 \o <<"0", " ", "\n">>}}
  \cup {Get(<<"/", "a">>, e) : e \in {<<"\n">>, <<"\r", "\n">>, <<" ", "\n">>, <<"\r", "a">>, <<" ", "H", "T", "\n">>}}
MCTargets == {t[1] \o t[2] \o t[3] \o t[4] \o t[5] : t \in [1..5 -> {<<"/">>, <<".">>, <<"a">>, <<"?">>, Pct("2", "e"), <<>>}]}
             \cup {<<"nul">>, Pct("0", "0"), <<"%", "2">>}
Uri == INSTANCE HttpUri WITH Lines <- MCLines, Targets <- MCTargets, Merge <- TRUE, in <- x, r <- y

(* Chunked: bodies of up to ten bytes in chunks, with extensions, a trailer *)
(* and both line ends; sizes that are not, or too large.                    *)
Data == <<"d1", "d2", "d3", "d4", "d5", "d6", "d7", "d8", "d9", "d10">>
Eol == <<"\r", "\n">>
Lf == <<"\n">>
Chunk(size, from, to, end) == size \o end \o SubSeq(Data, from, to) \o end
Message(bytes, n) == [bytes |-> bytes, body |-> SubSeq(Data, 1, n), ok |-> TRUE, framing |-> "chunked"]
Broken(bytes) == [bytes |-> bytes, body |-> <<>>, ok |-> FALSE, framing |-> "chunked"]
MCMessages ==
  { Message(Chunk(<<"3">>, 1, 3, Lf) \o <<"0">> \o Lf \o Lf, 3),
    Message(Chunk(<<"1", ";", "x">>, 1, 1, Eol) \o Chunk(<<"0", "4">>, 2, 5, Lf) \o <<"0">> \o Eol \o Lf, 5),
    Message(Chunk(<<"a">>, 1, 10, Lf) \o <<"0", "0", ";">> \o Lf \o Lf, 10),
    Message(Chunk(<<"2">>, 1, 2, Eol) \o <<"0">> \o Lf \o <<"t">> \o Eol \o <<"t">> \o Lf \o Eol, 2),
    Message(<<"0">> \o Eol \o Eol, 0),
    Broken(<<"x">>), Broken(<<"f", "f", "f", "f", "f">>), Broken(<<"f", "a">> \o Lf \o <<"d1">>),
    Broken(<<"1">> \o Lf \o <<"d1", "\r", "x">>) }
  \cup { [bytes |-> SubSeq(Data, 1, n), body |-> SubSeq(Data, 1, n), ok |-> TRUE, framing |-> "length"] : n \in {0, 1, 7} }
Chunks == INSTANCE Chunked WITH
  Messages <- MCMessages, Extra <- 3, Size <- 4, MaxBody <- 8, MaxOff <- 255, msg <- x, s <- y

(* HttpHeader: two lines after each other, names longer than the array. *)
HeaderLines ==
  {t[1] \o t[2] \o t[3] \o t[4] \o t[5] : t \in
     {<<"a">>, <<"_">>, <<"*">>, <<"A", "b">>, <<"nul">>} \X {<<>>, <<"b">>, <<"_">>, <<"A", "1", "-", "B">>, <<"*">>}
       \X {<<":">>, <<":", " ">>, <<>>} \X {<<>>, <<"a">>, <<"a", " ", " ", "b", " ">>, <<" ">>}
       \X {<<"\n">>, <<"\r", "\n">>}}
FewLines == {<<"a", "B", ":", "b", "\n">>, <<"a", "b", "a", "b", "-", ":", "\r", "\n">>, <<"_", "a", "\n">>}
MCStatuses == {<<"H", "T", "T", "P", "/">> \o v \o <<" ">> \o c \o t : v \in {<<"1", ".", "1">>, <<"1", "0", ".", "0">>, <<"0">>},
                 c \in {<<"2", "0", "0">>, <<"2", " ", "0", "4">>, <<"2", "0">>, <<"4", "0", "4", "4">>},
                 t \in {<<"\n">>, <<" ", "O", "\r", "\n">>, <<".", "1", "\n">>, <<"\r", "\r">>}}
MCValues == {t[1] \o t[2] \o t[3] \o t[4] \o t[5] \o t[6] : t \in [1..6 -> {<<"a">>, <<"b">>, <<"=">>, <<";">>, <<"&">>, <<>>}]}
            \cup {<<"a", " ", "=", " ", "b", ",", "a">>, <<"b", ",", " ", "a", "=">>}
Header == INSTANCE HttpHeader WITH
  Headers <- {f \o l \o g \o <<"\r", "\n">> : f \in FewLines, l \in HeaderLines, g \in FewLines}, Statuses <- MCStatuses,
  Values <- MCValues, LcLen <- 4, Underscores <- FALSE, in <- x, q <- y

(* Locations: three of the names in any order, with a nested location and a *)
(* regular expression that matches what ends in "b".                        *)
Loc(i, k, n, nr, auto, subs) ==
  [id |-> i, kind |-> k, name |-> n, noregex |-> nr, auto |-> auto, subs |-> subs,
   match |-> IF k = "regex" THEN {<<"/", "b">>, <<"/", "a", "b">>, <<"/", "a", "/", "b">>} ELSE {}]
LocNames == {<<"/">>, <<"/", "a">>, <<"/", "a", "/">>, <<"/", "a", "b">>, <<"/", "b">>, <<"/", "a", "/", "b">>}
Plain(i, n) == Loc(i, "prefix", n, FALSE, FALSE, <<>>)
FirstLocs == {Plain(1, n) : n \in LocNames}
             \cup {Loc(1, "prefix", n, TRUE, TRUE, << Loc(9, "exact", <<"/", "a", "/", "b">>, FALSE, FALSE, <<>>) >>) :
                     n \in {<<"/">>, <<"/", "a", "/">>}}
SecondLocs == {Plain(2, n) : n \in LocNames} \cup {Loc(2, "exact", n, FALSE, FALSE, <<>>) : n \in LocNames}
ThirdLocs == {Loc(3, "prefix", n, FALSE, Last(n) = "/", <<>>) : n \in LocNames} \cup {Plain(3, <<"/", "a", "/">>)} \cup {Loc(3, "regex", <<"b">>, FALSE, FALSE, <<>>)}
FourthLocs == {Loc(4, "regex", <<"a">>, FALSE, FALSE, << Plain(8, <<"/", "a">>) >>), Loc(4, "named", <<"a">>, FALSE, FALSE, <<>>), Plain(4, <<"/">>),
               Loc(4, "exact", <<"/", "a", "/">>, FALSE, TRUE, <<>>), Loc(4, "noname", <<>>, FALSE, FALSE, <<>>)}
MCConfigs == {<<t[4], t[1], t[2], t[3]>> : t \in FirstLocs \X SecondLocs \X ThirdLocs \X FourthLocs}
Location == INSTANCE Locations WITH
  Configs <- MCConfigs, Uris <- LocNames \cup {<<"/", "a", "a">>, <<"/", "a", "/", "a">>, <<"/", "b", "/">>, <<"b">>},
  conf <- x, tree <- y, uri <- z, found <- w

(* Phases: a location that anybody sees, two with access handlers, an       *)
(* internal one and a named one.                                            *)
PhaseLoc(s, i, t, pages, rec, h, ex, post) ==
  [satisfy |-> s, internal |-> i, try_files |-> t, pages |-> pages, recursive |-> rec, handler |-> h, except |-> ex, post_action |-> post]
MCPhaseLocs ==
  [l \in {"server", "open", "any", "inner", "@named", "limited"} |->
     CASE l = "server" -> PhaseLoc("all", FALSE, "none", <<>>, FALSE, FALSE, "none", "none")
       [] l = "open" -> PhaseLoc("all", FALSE, "@named", <<>>, FALSE, FALSE, "none", "/inner")
       [] l = "any" -> PhaseLoc("any", FALSE, "/inner", [st \in {404, 500} |-> IF st = 404 THEN "@named" ELSE "/open"],
                                TRUE, FALSE, "none", "none")
       [] l = "inner" -> PhaseLoc("any", TRUE, "code", [st \in {403, 404} |-> IF st = 403 THEN "/any" ELSE "external"],
                                  FALSE, TRUE, "none", "@named")
       [] l = "@named" -> PhaseLoc("all", FALSE, "none", [st \in {403} |-> "/any"], FALSE, FALSE, "limited", "none")
       [] l = "limited" -> PhaseLoc("any", FALSE, "/any", [st \in {404} |-> "/open"], FALSE, TRUE, "none", "none")]
MCEngine(a, rw, t) ==
  [handlers |-> [ph \in {"post_read", "server_rewrite", "find_config", "rewrite", "post_rewrite", "preaccess", "access",
                         "post_access", "try_files", "content"} |->
                  CASE ph = "access" -> a [] ph = "rewrite" -> rw [] ph = "content" -> 2
                    [] ph \in {"post_read", "server_rewrite", "preaccess"} -> 1 [] OTHER -> 0],
   try_files |-> t]
Phase == INSTANCE Phases WITH
  Engines <- {MCEngine(2, 1, TRUE), MCEngine(0, 0, FALSE), MCEngine(0, 1, TRUE)}, Locs <- MCPhaseLocs, Server <- "server",
  Uris <- [i \in {"/open", "/any", "/inner"} |-> IF i = "/open" THEN "open" ELSE IF i = "/any" THEN "any" ELSE "inner"],
  MaxChanges <- 2, Wrap <- 4, engine <- x, r <- y

(* FileCache: two requests, for two variants of one key or for two keys     *)
(* with one hash, of which one is not locked; responses to the first one    *)
(* vary by either of two headers or do not vary; two nodes, and a cold      *)
(* cache with or without a file.                                            *)
Asks(k, a, cache_lock) == [key |-> k, val |-> [v \in {"a", "b"} |-> IF v = "a" THEN a ELSE "1"], lock |-> cache_lock]
MCMixes == {<<Asks("k", "1", TRUE), Asks("k", "2", TRUE)>>, <<Asks("k", "1", TRUE), Asks("j", "1", FALSE)>>}
MCMain == <<"none", "none">>
MCHashes == {<<"h", v>> : v \in {MCMain, <<"a", "1">>, <<"a", "2">>, <<"b", "1">>}}
NoFile == [h \in MCHashes |-> [size |-> 0]]
MCFiles == {NoFile, [NoFile EXCEPT ![<<"h", MCMain>>] = [key |-> "k", vary |-> "a", val |-> "3", size |-> 9]]}
Cache == INSTANCE FileCache WITH
  Ids <- 1..2, Mixes <- MCMixes, Md5 <- [k \in {"k", "j"} |-> "h"], Varies <- <<{"none", "a", "b"}, {"a"}>>,
  Files <- MCFiles, Nodes <- {1, 2}, MaxSize <- 2, MinUses <- 1, StaleUpdating <- TRUE, StaleError <- TRUE, MaxCrashes <- 1,
  sh <- x, disk <- y, c <- z, aux <- w

(* Mail: three lines, of all protocols. *)
AuthLines == {<<"auth login name", "u">>, <<"auth cram", "">>, <<"data", "d">>, <<"starttls", "">>}
MailLines ==
  [pr \in {"pop3", "imap", "smtp"} |->
     CASE pr = "pop3" -> AuthLines \cup {<<"user", "u">>, <<"pass", "p">>, <<"login", "u">>, <<"quit", "">>}
       [] pr = "imap" -> AuthLines \cup {<<"login", "u">>, <<"auth plain data", "u">>, <<"auth login", "">>, <<"auth", "">>}
       [] pr = "smtp" -> AuthLines \cup {<<"auth plain", "">>, <<"helo", "">>, <<"mail", "">>, <<"rcpt", "">>, <<"bad", "">>}]
MailProxy == INSTANCE Mail WITH
  Protocol <- {"pop3", "imap", "smtp"}, Starttls <- {"only"}, Methods <- {"apop", "cram", "none"}, Resolve <- TRUE, Delay <- TRUE,
  Xclient <- TRUE, PassError <- TRUE, Lines <- MailLines, MaxLines <- 3, MaxAsks <- 1, MaxData <- 1, Size <- 2,
  s <- x, net <- y, peer <- z

(* Balancers: servers of different weights, one with two addresses, a       *)
(* backup server; a ring on which two servers share a point.                *)
Server(n, addrs, wt, max, dn, back) == [name |-> n, naddrs |-> addrs, weight |-> wt, max_fails |-> max, down |-> dn, backup |-> back]
Balanced(m, ss, kept) == [method |-> m, servers |-> ss, points |-> << <<5, 1>>, <<2, 2>>, <<5, 2>>, <<6, 1>>, <<3, 2>> >>, cached |-> kept,
                          faults |-> IF m = "rr" THEN 2 ELSE 1]
Three == << Server(1, 2, 1, 1, FALSE, FALSE), Server(2, 1, 1, 0, FALSE, FALSE) >>
MCBalanced ==
  {Balanced(m, Three, 1) : m \in {"hash", "chash"}}
  \cup {Balanced(m, <<Server(1, 1, 2, 2, FALSE, FALSE), Server(2, 1, 1, 1, FALSE, FALSE), Server(3, 1, 1, 1, FALSE, TRUE)>>, 1) : m \in {"rr", "least_conn"}}
  \cup {Balanced(m, <<Server(1, 1, 1, 1, dn, FALSE)>>, 1) : m \in {"rr", "hash", "chash"}, dn \in BOOLEAN}
KeyOf(q) == q * 3
Balance == INSTANCE Balancers WITH
  Confs <- MCBalanced, Reqs <- {1, 2}, Key <- KeyOf, MaxTries <- 3, MaxTime <- 4,
  conf <- x, peers <- y, r <- z, ka <- w

-----------------------------------------------------------------------------
MCInit ==
  /\ Init
  /\ \/ part = "pipe" /\ Pipe!Init /\ w = 0
     \/ part = "uri" /\ Uri!Init /\ z = 0 /\ w = 0
     \/ part = "chunks" /\ Chunks!Init /\ z = 0 /\ w = 0
     \/ part = "header" /\ Header!Init /\ z = 0 /\ w = 0
     \/ part = "locations" /\ Location!Init
     \/ part = "phases" /\ Phase!Init /\ z = 0 /\ w = 0
     \/ part = "cache" /\ Cache!Init
     \/ part = "mail" /\ MailProxy!Init /\ w = 0
     \/ part = "balance" /\ Balance!Init
     \/ part = "threads" /\ x = 0 /\ y = 0 /\ z = 0 /\ w = 0

MCNext ==
  /\ UNCHANGED part
  /\ \/ part = "threads" /\ Next /\ UNCHANGED partVars
     \/ /\ UNCHANGED vars
        /\ \/ part = "pipe" /\ Pipe!Next /\ UNCHANGED w
           \/ part = "uri" /\ Uri!Next /\ UNCHANGED <<z, w>>
           \/ part = "chunks" /\ Chunks!Next /\ UNCHANGED <<z, w>>
           \/ part = "header" /\ Header!Next /\ UNCHANGED <<z, w>>
           \/ part = "locations" /\ Location!Next
           \/ part = "phases" /\ Phase!Next /\ UNCHANGED <<z, w>>
           \/ part = "cache" /\ Cache!Next
           \/ part = "mail" /\ MailProxy!Next /\ UNCHANGED w
           \/ part = "balance" /\ Balance!Next

(* The fairness of ThreadPool, in its part. *)
MCSpec ==
  /\ MCInit /\ [][MCNext]_<<part, partVars, vars>>
  /\ WF_vars(part = "threads" /\ MainStep)
  /\ \A t \in Threads : WF_vars(part = "threads" /\ ThreadStep(t))

(* HttpUri: paths are normal, lines exact. *)
ParsersExact == /\ part = "uri" => Uri!UriSound
                /\ part = "chunks" => Chunks!BodyExact
                /\ part = "header" => Header!HeadersSound
                /\ part = "locations" => Location!LocationRight

(* Phases: nobody gets past the access handlers, and redirects end. *)
AccessKept == part = "phases" => Phase!AccessKept /\ Phase!RedirectsEnd

(* FileCache: counts, sizes and lists are exact, responses the right ones. *)
CacheSound == part = "cache" => Cache!CacheSound

(* Mail: TLS, authentication and timers. *)
SessionsSound == /\ part = "mail" => MailProxy!MailSound
                 /\ part = "balance" => Balance!BalanceSound

(* EventPipe: the client gets what was read, and somebody wakes the pipe. *)
DataKept == part = "pipe" => Pipe!PipeSound
=============================================================================
