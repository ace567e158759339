-------------------------------- MODULE Mail --------------------------------
(* The mail proxy: a session from its greeting through TLS, commands and    *)
(* the authentication server to the dialogue with the mail server and the   *)
(* relaying of data (mail/ngx_mail_handler.c, ngx_mail_{pop3,imap,smtp}     *)
(* _handler.c, ngx_mail_auth_http_module.c, ngx_mail_proxy_module.c).       *)
(*                                                                          *)
(* A line of the client is a record [c, v, tls]: the command, its argument  *)
(* (a name or a password) and whether it came through TLS; a line "bad"     *)
(* does not parse.  pc names the read handler of the client's connection.   *)
(* call is set where a handler calls the read handler itself.               *)
EXTENDS Integers, Sequences, SequencesExt

CONSTANTS
  Protocol, Starttls,    \* of {"pop3", "imap", "smtp"}, of {"off", "on", "only"}
  Methods,               \* of "apop", "cram", "none"
  Resolve, Delay, Xclient, PassError,
  Lines,                 \* protocol -> what a client may send: <<command, argument>>
  MaxLines, MaxAsks, MaxData,
  Size                   \* lines and data a buffer has room for

VARIABLES s, net, peer

vars == <<s, net, peer>>

Nobody == "-"
Sessions ==
  [proto : Protocol, starttls : Starttls, pc : {"init"}, tls : {FALSE}, mail_state : {"start"}, out : {<<>>}, buffer : {<<>>},
   blocked : {FALSE}, quit : {FALSE}, call : {FALSE}, rtimer : {FALSE}, wtimer : {FALSE}, wactive : {FALSE},
   login : {Nobody}, passwd : {Nobody}, from : {FALSE}, helo : {FALSE}, method : {"plain"}, auth_wait : {FALSE},
   pbuf : {<<>>}, eof : {FALSE}, peof : {FALSE},
   mixed : {FALSE}, asks : {0}, granted : {FALSE}, told : {<<>>}]    \* (history)

Init ==
  /\ s \in Sessions
  /\ net = [lines |-> <<>>, sent |-> 0, eof |-> FALSE, got |-> <<>>]        \* the client
  /\ peer = [lines |-> <<>>, sent |-> 0, eof |-> FALSE, got |-> <<>>]       \* the mail server, when proxying

Close(q) == [q EXCEPT !.pc = "closed", !.call = FALSE, !.rtimer = FALSE, !.wtimer = FALSE]

(* ngx_mail_send(); a reply that has to wait adds the write event, which    *)
(* epoll then reports along with the read events                            *)
Send(q) ==
  IF q.out = <<>> THEN {[q EXCEPT !.wactive = TRUE]}
  ELSE LET sent == [q EXCEPT !.out = <<>>, !.wtimer = FALSE, !.call = q.blocked]
       IN {IF q.quit THEN Close(sent) ELSE sent, [q EXCEPT !.wtimer = TRUE, !.wactive = TRUE, !.pc = IF q.quit THEN "quit" ELSE @]}

(* ngx_mail_session_internal_server_error() *)
InternalError(q) == Send([q EXCEPT !.out = <<"500">>, !.quit = TRUE])

-----------------------------------------------------------------------------
(* ngx_mail_init_session(), init_session of the protocols *)
InitSession ==
  /\ s.pc = "init"
  /\ s' \in IF s.proto = "smtp" /\ Resolve THEN {[s EXCEPT !.pc = "resolving"]}
            ELSE IF s.proto = "smtp" /\ Delay THEN {[s EXCEPT !.pc = "delay", !.rtimer = TRUE]}
            ELSE Send([s EXCEPT !.pc = "protocol", !.rtimer = TRUE, !.out = <<"hi">>])
  /\ UNCHANGED <<net, peer>>

(* ngx_mail_smtp_resolve_addr_handler(), ..._name_handler(): the resolver   *)
(* calls once more for the name it found; then ngx_mail_smtp_greeting()     *)
Resolved ==
  /\ s.pc \in {"resolving", "resolving name"}
  /\ \/ s.pc = "resolving" /\ s' = [s EXCEPT !.pc = "resolving name"]
     \/ s' \in IF Delay THEN {[s EXCEPT !.pc = "delay", !.rtimer = TRUE]}
               ELSE Send([s EXCEPT !.pc = "protocol", !.rtimer = TRUE, !.out = <<"hi">>])
  /\ UNCHANGED <<net, peer>>

(* ngx_mail_smtp_invalid_pipelining(): who speaks before the greeting is    *)
(* rejected                                                                 *)
GreetingDelay ==
  /\ s.pc = "delay"
  /\ \/ s' \in Send([s EXCEPT !.pc = "protocol", !.out = <<"hi">>]) /\ UNCHANGED net
     \/ net.lines # <<>> /\ net' = [net EXCEPT !.lines = <<>>] /\ s' \in Send([s EXCEPT !.out = <<"bad">>, !.quit = TRUE])
  /\ UNCHANGED peer

(* ngx_mail_starttls_handler(), ngx_mail_ssl_handshake_handler(),           *)
(* ngx_mail_verify_cert(): what the client sent in plain text fails the     *)
(* handshake                                                                *)
Handshake ==
  /\ s.pc = "starttls" /\ ~s.call
  /\ \/ net.lines # <<>> /\ ~net.lines[1].tls /\ s' = Close(s)
     \/ net.lines = <<>> /\ \/ s' = [s EXCEPT !.tls = TRUE, !.pc = "auth_state", !.mail_state = "start", !.call = TRUE]
                            \/ s' \in Send([s EXCEPT !.tls = TRUE, !.out = <<"bad">>, !.quit = TRUE])
  /\ UNCHANGED <<net, peer>>

-----------------------------------------------------------------------------
(* ngx_mail_starttls_only() *)
StarttlsOnly(q) == ~q.tls /\ q.starttls = "only"
Result(q, rc) == [q |-> q, rc |-> rc]
Invalid(q) == Result(q, "invalid")
Say(q, reply) == Result([q EXCEPT !.out = <<reply>>], "ok")

(* ngx_mail_auth_parse(), ngx_mail_{pop3,smtp}_auth(), ngx_mail_imap_authenticate() *)
AuthCommand(q, l) ==
  CASE StarttlsOnly(q) -> Invalid(q)
    [] l.c = "auth" -> IF q.proto = "imap" THEN Invalid(q) ELSE Say(q, "ok")            \* without a method
    [] l.c = "auth login" -> Say([q EXCEPT !.mail_state = "login_username"], "next")
    [] l.c = "auth login name" -> Say([q EXCEPT !.mail_state = "login_password", !.login = l.v], "next")
    [] l.c = "auth plain" -> Say([q EXCEPT !.mail_state = "plain"], "next")
    [] l.c = "auth plain data" -> Result([q EXCEPT !.login = l.v, !.passwd = l.v], "done")
    [] l.c = "auth cram" -> IF "cram" \in Methods THEN Say([q EXCEPT !.mail_state = "cram"], "next") ELSE Invalid(q)

(* ngx_mail_{pop3,imap,smtp}_starttls(); SMTP forgets what it was told, and *)
(* what it has read                                                         *)
StarttlsKeepsBuffer(q) ==
  IF q.tls \/ q.starttls = "off" THEN Invalid(q)
  ELSE Say(IF q.proto = "smtp" THEN [q EXCEPT !.pc = "starttls", !.helo = FALSE, !.from = FALSE]
           ELSE [q EXCEPT !.pc = "starttls"], "ok")

StarttlsCommand(q) ==
  IF q.tls \/ q.starttls = "off" THEN Invalid(q)
  ELSE Say(IF q.proto = "smtp" THEN [q EXCEPT !.pc = "starttls", !.helo = FALSE, !.from = FALSE, !.buffer = <<>>]
           ELSE [q EXCEPT !.pc = "starttls"], "ok")

(* ngx_mail_pop3_auth_state(): start and user *)
Pop3Start(q, l) ==
  CASE l.c = "user" -> IF StarttlsOnly(q) THEN Invalid(q) ELSE Say([q EXCEPT !.login = l.v, !.mail_state = "user"], "ok")
    [] l.c = "login" -> IF StarttlsOnly(q) \/ "apop" \notin Methods THEN Invalid(q)
                        ELSE Result([q EXCEPT !.login = l.v, !.passwd = l.v, !.method = "apop"], "done")
    [] l.c = "starttls" -> StarttlsCommand(q)
    [] l.c = "quit" -> Say([q EXCEPT !.quit = TRUE], "ok")
    [] l.c = "noop" -> Say(q, "ok")
    [] OTHER -> IF l.c \in {"auth", "auth login", "auth login name", "auth plain", "auth plain data", "auth cram"}
                THEN AuthCommand(q, l) ELSE Invalid(q)

Pop3User(q, l) ==
  CASE l.c = "pass" -> Result([q EXCEPT !.passwd = l.v], "done")
    [] l.c = "quit" -> Say([q EXCEPT !.quit = TRUE], "ok")
    [] l.c = "noop" -> Say(q, "ok")
    [] OTHER -> Invalid(q)

(* ngx_mail_imap_auth_state(): start *)
ImapStart(q, l) ==
  CASE l.c = "login" -> IF StarttlsOnly(q) THEN Invalid(q) ELSE Result([q EXCEPT !.login = l.v, !.passwd = l.v], "done")
    [] l.c = "starttls" -> StarttlsCommand(q)
    [] l.c = "quit" -> Say([q EXCEPT !.quit = TRUE], "ok")
    [] l.c = "noop" -> Say(q, "ok")
    [] OTHER -> IF l.c \in {"auth", "auth login", "auth login name", "auth plain", "auth plain data", "auth cram"}
                THEN AuthCommand(q, l) ELSE Invalid(q)

(* ngx_mail_smtp_auth_state(): start; ngx_mail_smtp_helo(), ..._mail(),     *)
(* ..._rcpt(), ..._rset()                                                   *)
SmtpStart(q, l) ==
  CASE l.c = "helo" -> Say([q EXCEPT !.helo = TRUE, !.from = FALSE], "ok")
    [] l.c = "mail" -> IF "none" \notin Methods \/ q.from THEN Say(q, "bad") ELSE Say([q EXCEPT !.from = TRUE], "ok")
    [] l.c = "rcpt" -> IF ~q.from THEN Say(q, "bad") ELSE Result([q EXCEPT !.method = "none"], "done")
    [] l.c = "rset" -> Say([q EXCEPT !.from = FALSE], "ok")
    [] l.c = "starttls" -> StarttlsCommand(q)
    [] l.c = "quit" -> Say([q EXCEPT !.quit = TRUE], "ok")
    [] l.c = "noop" -> Say(q, "ok")
    [] OTHER -> IF l.c \in {"auth", "auth login", "auth login name", "auth plain", "auth plain data", "auth cram"}
                THEN AuthCommand(q, l) ELSE Invalid(q)

(* the switch by s->mail_state; ngx_mail_auth_login_username(),             *)
(* ..._login_password(), ..._plain(), ..._cram_md5() take any line that     *)
(* decodes                                                                  *)
Execute(q, l) ==
  LET decodes == l.c = "data"
  IN CASE q.mail_state = "start" /\ l.c = "bad" -> Invalid(q)
       [] q.mail_state = "start" /\ q.proto = "pop3" -> Pop3Start(q, l)
       [] q.mail_state = "start" /\ q.proto = "imap" -> ImapStart(q, l)
       [] q.mail_state = "start" /\ q.proto = "smtp" -> SmtpStart(q, l)
       [] q.mail_state = "user" -> Pop3User(q, l)
       [] q.mail_state = "login_username" ->
            IF decodes THEN Say([q EXCEPT !.login = l.v, !.mail_state = "login_password"], "next") ELSE Invalid(q)
       [] q.mail_state = "login_password" -> IF decodes THEN Result([q EXCEPT !.passwd = l.v], "done") ELSE Invalid(q)
       [] q.mail_state = "plain" ->
            IF decodes THEN Result([q EXCEPT !.login = l.v, !.passwd = l.v], "done") ELSE Invalid(q)
       [] q.mail_state = "cram" ->
            IF decodes THEN Result([q EXCEPT !.login = l.v, !.passwd = l.v, !.method = "cram"], "done") ELSE Invalid(q)

(* ngx_mail_auth_http_init(): the request to the authentication server *)
AuthInit(q) ==
  InternalError(q) \cup {[q EXCEPT !.pc = "auth", !.asks = @ + 1, !.granted = FALSE]}

(* ngx_mail_auth() *)
Auth(q) == AuthInit([q EXCEPT !.rtimer = FALSE])

(* the rest of auth_state: POP3 and IMAP drop what the client sent ahead of *)
(* the reply                                                                *)
Replied(q, rc) ==
  LET t == IF rc = "invalid" THEN [q EXCEPT !.mail_state = "start", !.out = <<"bad">>] ELSE q
  IN IF rc = "done" THEN Auth([q EXCEPT !.out = <<"ok">>, !.mail_state = "start"])
     ELSE Send(IF t.proto = "smtp" THEN t ELSE [t EXCEPT !.buffer = <<>>])

(* ngx_mail_{pop3,imap,smtp}_auth_state(), ngx_mail_read_command() *)
AuthState(q, n) ==
  LET r == [q EXCEPT !.call = FALSE, !.pc = "auth_state", !.buffer = @ \o SubSeq(net.lines, 1, n)]
      e == Execute([r EXCEPT !.blocked = FALSE, !.buffer = Tail(@), !.mixed = @ \/ (r.tls /\ ~Head(r.buffer).tls)],
                   Head(r.buffer))
      f == [e.q EXCEPT !.blocked = q.proto = "smtp" /\ e.q.buffer # <<>>]
  IN IF q.out # <<>> THEN {[q EXCEPT !.call = FALSE, !.pc = "auth_state", !.blocked = TRUE]}
     ELSE IF n = 0 /\ net.lines = <<>> /\ net.eof THEN {Close(q)}
     ELSE IF r.buffer = <<>> THEN {[r EXCEPT !.blocked = FALSE]}
     ELSE Replied(f, e.rc)

ReadCommand ==
  /\ s.pc \in {"protocol", "auth_state"}
  /\ s.call \/ net.lines # <<>> \/ net.eof
  /\ LET room == Size - Len(s.buffer)
         most == IF Len(net.lines) < room THEN Len(net.lines) ELSE room
     IN \E n \in IF s.out # <<>> THEN {0} ELSE IF most = 0 THEN {0} ELSE 1..most :
          /\ s' \in AuthState(s, n)
          /\ net' = [net EXCEPT !.lines = SubSeq(@, n + 1, Len(@))]
  /\ UNCHANGED peer

(* the handshake, when the reply to STARTTLS has been sent *)
StarttlsCalled ==
  /\ s.pc = "starttls" /\ s.call
  /\ s' = [s EXCEPT !.call = FALSE]
  /\ UNCHANGED <<net, peer>>

(* ngx_mail_send() as write handler, until data is relayed *)
WriteEvent ==
  /\ s.pc \notin {"init", "resolving", "resolving name", "proxy", "closed"} /\ s.wactive /\ ~s.call /\ s.out # <<>>
  /\ s' \in Send(s)
  /\ UNCHANGED <<net, peer>>

(* the timers of the client: reading commands, and writing replies *)
ClientTimeout ==
  /\ ~s.call
  /\ \/ s.rtimer /\ s.pc \in {"protocol", "auth_state", "starttls", "quit"}
     \/ s.wtimer /\ s.pc # "proxy"
  /\ s' = Close(s)
  /\ UNCHANGED <<net, peer>>

-----------------------------------------------------------------------------
(* ngx_mail_auth_http_process_headers(), when the header is complete:       *)
(* status is "ok", "wait" or "error", sleep the Auth-Wait                   *)
Answered(q, status, sleep, server) ==
  LET w == [q EXCEPT !.auth_wait = @ \/ status = "wait"]
      e == [w EXCEPT !.out = <<"err">>]
  IN CASE status = "error" /\ ~sleep -> Send([e EXCEPT !.quit = TRUE])
       [] status = "error" /\ sleep -> {[e EXCEPT !.pc = "sleep", !.rtimer = TRUE]}
       [] status # "error" /\ w.auth_wait /\ ~sleep -> AuthInit(w)
       [] status # "error" /\ w.auth_wait /\ sleep -> {[w EXCEPT !.pc = "sleep", !.rtimer = TRUE]}
       [] OTHER -> IF ~server \/ (q.passwd = Nobody /\ q.proto # "smtp") THEN InternalError(w)
                   ELSE InternalError(w)                                                    \* ngx_mail_proxy_init()
                        \cup {[w EXCEPT !.pc = "proxy_auth", !.granted = TRUE, !.out = <<>>, !.mail_state = "start"]}

AuthAnswer ==
  /\ s.pc = "auth" /\ ~s.call
  /\ \E status \in {"ok", "wait", "error"}, sleep, server \in BOOLEAN :
       /\ s.asks < MaxAsks \/ ~((status = "wait" \/ s.auth_wait) /\ status # "error")
       /\ s' \in Answered(s, status, sleep, server)
  /\ UNCHANGED <<net, peer>>

(* a timeout, an error or a close of the authentication server *)
AuthFails ==
  /\ s.pc = "auth" /\ ~s.call
  /\ s' \in InternalError(s)
  /\ UNCHANGED <<net, peer>>

(* ngx_mail_auth_sleep_handler() *)
Sleep ==
  /\ s.pc = "sleep" /\ ~s.call
  /\ s' \in IF s.auth_wait THEN AuthInit([s EXCEPT !.auth_wait = FALSE, !.rtimer = FALSE])
            ELSE LET q == [s EXCEPT !.pc = "auth_state", !.mail_state = "start", !.method = "plain"]
                 IN {IF t.pc = "closed" THEN t ELSE [t EXCEPT !.rtimer = TRUE, !.call = TRUE] : t \in Send(q)}
  /\ UNCHANGED <<net, peer>>

-----------------------------------------------------------------------------
(* ngx_mail_proxy_{pop3,imap,smtp}_handler(): what is sent to the mail      *)
(* server at its next good response; <<>> when the dialogue is over         *)
Dialogue(q) ==
  LET st == q.mail_state
      none == q.method = "none"
  IN CASE q.proto = "pop3" ->
            (CASE st = "start" -> <<<<"user", q.login>>, "user">> [] st = "user" -> <<<<"pass", q.passwd>>, "passwd">>
               [] OTHER -> <<>>)
       [] q.proto = "imap" ->
            (CASE st = "start" -> <<<<"login", "">>, "login">> [] st = "login" -> <<<<"user", q.login>>, "user">>
               [] st = "user" -> <<<<"pass", q.passwd>>, "passwd">> [] OTHER -> <<>>)
       [] q.proto = "smtp" ->
            (CASE st = "start" -> <<<<"ehlo", "">>, IF Xclient THEN "helo_xclient" ELSE IF none THEN "helo_from" ELSE "helo">>
               [] st = "helo_xclient" -> <<<<"xclient", q.login>>,
                                           IF q.helo THEN "xclient_helo" ELSE IF none THEN "xclient_from" ELSE "xclient">>
               [] st = "xclient_helo" -> <<<<"helo", "">>, IF none THEN "helo_from" ELSE "helo">>
               [] st \in {"helo_from", "xclient_from"} -> <<<<"mail", "">>, "from">>
               [] st = "from" -> <<<<"rcpt", "">>, "to">>
               [] OTHER -> <<>>)

(* the client learns the result: the response itself, or "235" of SMTP *)
ProxyStarts(q) ==
  [q EXCEPT !.pc = "proxy", !.rtimer = TRUE, !.pbuf = <<"ok">>]

ProxyResponds ==
  /\ s.pc = "proxy_auth" /\ ~s.call
  /\ LET d == Dialogue(s)
     IN s' \in IF d = <<>> THEN {ProxyStarts(s)}
               ELSE InternalError(s) \cup {[s EXCEPT !.mail_state = d[2], !.told = Append(@, d[1])]}
  /\ UNCHANGED <<net, peer>>

(* ngx_mail_proxy_upstream_error(), ngx_mail_proxy_read_response(): a bad   *)
(* response, which may be passed on; the answer to RCPT always is           *)
ProxyFails ==
  /\ s.pc = "proxy_auth" /\ ~s.call
  /\ s' \in IF PassError /\ s.mail_state # "to" THEN Send([s EXCEPT !.out = <<"err">>, !.quit = TRUE]) ELSE InternalError(s)
  /\ UNCHANGED <<net, peer>>

(* ngx_mail_proxy_handler(): one round of writing and reading, of one       *)
(* direction; then the ends of file                                         *)
Over(q) ==
  \/ q.eof /\ q.buffer = <<>>
  \/ q.peof /\ q.pbuf = <<>>
  \/ q.eof /\ q.peof

Ended(q) == IF Over(q) THEN Close(q) ELSE q

ToServer ==
  /\ s.pc = "proxy" /\ (s.buffer # <<>> \/ net.lines # <<>> \/ (net.eof /\ ~s.eof))
  /\ \E k \in 0..Len(s.buffer), n \in 0..Len(net.lines) :
       LET rest == SubSeq(s.buffer, k + 1, Len(s.buffer))
       IN /\ n + Len(rest) <= Size
          /\ k + n > 0 \/ (net.eof /\ net.lines = <<>> /\ ~s.eof)
          /\ s' = Ended([s EXCEPT !.buffer = rest \o SubSeq(net.lines, 1, n),
                                  !.eof = net.eof /\ n = Len(net.lines) /\ Len(rest) < Size])
          /\ net' = [net EXCEPT !.lines = SubSeq(@, n + 1, Len(@))]
          /\ peer' = [peer EXCEPT !.got = @ \o SubSeq(s.buffer, 1, k)]

ToClient ==
  /\ s.pc = "proxy" /\ (s.pbuf # <<>> \/ peer.lines # <<>> \/ (peer.eof /\ ~s.peof))
  /\ \E k \in 0..Len(s.pbuf), n \in 0..Len(peer.lines) :
       LET rest == SubSeq(s.pbuf, k + 1, Len(s.pbuf))
       IN /\ n + Len(rest) <= Size
          /\ k + n > 0 \/ (peer.eof /\ peer.lines = <<>> /\ ~s.peof)
          /\ s' = Ended([s EXCEPT !.pbuf = rest \o SubSeq(peer.lines, 1, n),
                                  !.peof = peer.eof /\ n = Len(peer.lines) /\ Len(rest) < Size])
          /\ peer' = [peer EXCEPT !.lines = SubSeq(@, n + 1, Len(@))]
          /\ net' = [net EXCEPT !.got = @ \o SubSeq(s.pbuf, 1, k)]

(* the timer of the relay *)
ProxyTimeout ==
  /\ s.pc = "proxy" /\ s' = Close(s)
  /\ UNCHANGED <<net, peer>>

-----------------------------------------------------------------------------
(* The client sends a line, in TLS once that is up, or closes; the mail     *)
(* server sends data, or closes.                                            *)
ClientSends ==
  /\ ~s.call /\ s.pc # "closed" /\ net.sent < MaxLines /\ ~net.eof
  /\ \E l \in Lines[s.proto] : net' = [net EXCEPT !.sent = @ + 1, !.lines = Append(@, [c |-> l[1], v |-> l[2], tls |-> s.tls])]
  /\ UNCHANGED <<s, peer>>

ClientCloses ==
  /\ ~s.call /\ s.pc # "closed" /\ ~net.eof /\ net' = [net EXCEPT !.eof = TRUE]
  /\ UNCHANGED <<s, peer>>

ServerMoves ==
  /\ s.pc = "proxy" /\ ~peer.eof
  /\ \/ peer.sent < MaxData /\ peer' = [peer EXCEPT !.sent = @ + 1, !.lines = Append(@, "data")]
     \/ peer' = [peer EXCEPT !.eof = TRUE]
  /\ UNCHANGED <<s, net>>

Next ==
  \/ InitSession \/ Resolved \/ GreetingDelay \/ Handshake \/ ReadCommand \/ StarttlsCalled \/ WriteEvent \/ ClientTimeout
  \/ AuthAnswer \/ AuthFails \/ Sleep \/ ProxyResponds \/ ProxyFails \/ ToServer \/ ToClient \/ ProxyTimeout
  \/ ClientSends \/ ClientCloses \/ ServerMoves

-----------------------------------------------------------------------------
(* No command that arrived in plain text is carried out after TLS is up,    *)
(* however much the client sent ahead of the reply to STARTTLS.             *)
PlainForgotten == ~s.mixed

(* Under "starttls only" nobody is authenticated by a name in plain text.   *)
AuthOverTls == s.starttls = "only" /\ s.pc \in {"auth", "sleep", "proxy_auth", "proxy"} => s.tls \/ s.method = "none"

(* A mail server hears of nobody before the authentication server agreed,   *)
(* and then of the name and the password it was asked about.                *)
GrantedOnly ==
  /\ s.told # <<>> => s.granted
  /\ \A k \in DOMAIN s.told : /\ s.told[k][1] \in {"user", "xclient"} => s.told[k][2] = s.login
                              /\ s.told[k][1] = "pass" => s.told[k][2] = s.passwd

(* Whoever waits for a client, for a server or for a timer is woken by one. *)
TimerSet == s.pc \in {"protocol", "auth_state", "starttls", "delay", "sleep", "proxy", "quit"} => s.rtimer \/ s.wtimer

MailSound == PlainForgotten /\ AuthOverTls /\ GrantedOnly /\ TimerSet
=============================================================================
