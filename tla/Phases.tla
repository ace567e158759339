------------------------------- MODULE Phases -------------------------------
(* The phase engine: how the handlers of all modules are put into one array *)
(* (http/ngx_http.c), how a request walks through it, and how it is led     *)
(* back by rewrites, try_files, error pages, internal redirects, named      *)
(* locations and post_action (http/ngx_http_core_module.c,                  *)
(* http/ngx_http_special_response.c, http/ngx_http_request.c).              *)
(*                                                                          *)
(* What a handler answers is a choice; a URI stands for the location it     *)
(* leads to (module Locations), a response for its status.  The calls of    *)
(* ngx_http_core_run_phases() nest: frames counts the callers that will     *)
(* still finalize the request with NGX_DONE when the inner one returns.     *)
EXTENDS Integers, Sequences, FiniteSets

CONSTANTS
  Engines,      \* the handlers per phase and whether try_files is used
  Locs,         \* the configuration of each location, by name
  Uris,         \* URI -> location
  Server,       \* the location that stands for the server itself
  MaxChanges,   \* NGX_HTTP_MAX_URI_CHANGES
  Wrap          \* uri_changes is a bit field: 2^4

VARIABLES engine, r

vars == <<engine, r>>

None == "none"
NGX_OK == 0
NGX_DECLINED == 5
NGX_AGAIN == 2   \* the return codes, without their sign
PhaseNames == <<"post_read", "server_rewrite", "find_config", "rewrite", "post_rewrite",
                "preaccess", "access", "post_access", "try_files", "content">>

(* One turn of the loop of ngx_http_init_phase_handlers(): n is the index   *)
(* that "next" is taken from.                                               *)
AddPhase(e, c, name) ==
  LET use(p) == c.handlers[p] > 0
      lone(next) == [e EXCEPT !.n = @ + 1, !.ph = Append(@, [checker |-> name, next |-> next])]
      n == IF name = "access" THEN e.n + 1 ELSE e.n
      many == c.handlers[name]
  IN CASE name = "find_config" -> [lone(0) EXCEPT !.find = e.n]
       [] name = "post_rewrite" -> IF use("rewrite") THEN lone(e.find) ELSE e
       [] name = "post_access" ->   \* counted with the access phase
            IF use("access") THEN [lone(e.n) EXCEPT !.n = e.n] ELSE e
       [] name = "try_files" -> IF c.try_files THEN lone(0) ELSE e
       [] OTHER -> [e EXCEPT !.n = n + many,
                             !.server_rewrite = IF name = "server_rewrite" THEN e.n ELSE @,
                             !.location_rewrite = IF name = "rewrite" THEN e.n ELSE @,
                             !.ph = @ \o [k \in 1..many |-> [checker |-> name, next |-> n + many]]]

(* ngx_http_init_phase_handlers() *)
InitPhaseHandlers(c) ==
  LET e[i \in 0..Len(PhaseNames)] ==
        IF i = 0 THEN [ph |-> <<>>, n |-> 0, find |-> 0, server_rewrite |-> 0, location_rewrite |-> 0]
        ELSE AddPhase(e[i - 1], c, PhaseNames[i])
  IN e[Len(PhaseNames)]

(* ngx_http_handler(): an internal request skips the post-read phase *)
Handler(q) == [q EXCEPT !.ph = IF q.internal THEN engine.server_rewrite ELSE 0, !.pc = "run"]

Init ==
  \E c \in Engines, u \in DOMAIN Uris, main \in BOOLEAN :
    /\ engine = InitPhaseHandlers(c)
    /\ r = [pc |-> "run", ph |-> IF main THEN 0 ELSE engine.server_rewrite, main |-> main, internal |-> ~main,
            uri |-> u, loc |-> Server, changes |-> MaxChanges + 1, changed |-> FALSE,
            access |-> 0, error_page |-> FALSE, post_action |-> FALSE, handler |-> FALSE,
            count |-> 1, frames |-> 0, status |-> 0,
            judged |-> <<>>, served |-> FALSE, passes |-> 1]   \* what happened in this pass (history)

-----------------------------------------------------------------------------
(* ngx_http_update_location_config(): limit_except has a configuration of   *)
(* its own                                                                  *)
UpdateLocationConfig(q) ==
  LET l == IF Locs[q.loc].except = None THEN q.loc ELSE Locs[q.loc].except
  IN [q EXCEPT !.loc = l, !.handler = Locs[l].handler \/ @]

Pass(q) == [q EXCEPT !.judged = <<>>, !.passes = @ + 1]

(* The callers finalize with NGX_DONE: the request rests, or is freed.      *)
Unwind(q) == [q EXCEPT !.count = @ - q.frames, !.frames = 0]
Rest(q) == [Unwind(q) EXCEPT !.pc = "rest"]
Close(q) == LET z == Unwind([q EXCEPT !.count = @ - 1]) IN [z EXCEPT !.pc = IF z.count = 0 THEN "closed" ELSE "leaked"]

(* ngx_http_internal_redirect() and ngx_http_named_location() once a change *)
(* of the URI is left                                                       *)
GoUri(q, u) == Handler(Pass(UpdateLocationConfig(
                 [q EXCEPT !.uri = u, !.loc = Server, !.internal = TRUE, !.count = @ + 1])))
GoNamed(q, l) == Pass(UpdateLocationConfig(
                   [q EXCEPT !.internal = TRUE, !.handler = FALSE, !.changed = FALSE, !.loc = l, !.count = @ + 1,
                             !.ph = engine.location_rewrite, !.pc = "run"]))
Go(q, to) == IF to \in DOMAIN Uris THEN GoUri(q, to) ELSE GoNamed(q, to)

Changes(q) == [q EXCEPT !.changes = (@ - 1 + Wrap) % Wrap]

(* ngx_http_post_action(), once the response was sent *)
PostAction(q) ==
  LET to == Locs[q.loc].post_action
      c == Changes([q EXCEPT !.count = @ - 1, !.post_action = TRUE])
  IN IF to = None \/ (q.post_action /\ q.changes = 0) THEN Close(q)
     ELSE IF c.changes = 0 THEN Close([c EXCEPT !.count = @ + 1, !.status = 500])
     ELSE Go(c, to)

(* the response is sent; a subrequest has no post_action of its own *)
Respond(q, status) ==
  LET s == [q EXCEPT !.status = status] IN IF q.main THEN PostAction(s) ELSE Close(s)

(* ngx_http_internal_redirect(), ngx_http_named_location(), called by a     *)
(* handler that returns NGX_DONE                                            *)
Redirect(q, to) ==
  LET c == [Changes(q) EXCEPT !.frames = @ + 1]
  IN IF c.changes = 0 THEN Respond([c EXCEPT !.count = @ + 1], 500) ELSE Go(c, to)

(* ngx_http_send_error_page() *)
SendErrorPage(q, to) == IF to = "external" THEN Respond(q, 302) ELSE Redirect(q, to)

(* ngx_http_special_response_handler() *)
SpecialResponse(q, status) ==
  LET l == Locs[q.loc]
      look == ~q.error_page /\ l.pages # <<>> /\ q.changes # 0
      e == [q EXCEPT !.error_page = @ \/ (look /\ ~l.recursive)]
  IN IF look /\ status \in DOMAIN l.pages
     THEN SendErrorPage(e, l.pages[status])
     ELSE Respond(e, status)

Advance(q) == [q EXCEPT !.ph = @ + 1]
Jump(q) == [q EXCEPT !.ph = engine.ph[q.ph + 1].next]
At(name) == r.pc = "run" /\ r.ph < Len(engine.ph) /\ engine.ph[r.ph + 1].checker = name

-----------------------------------------------------------------------------
(* ngx_http_core_generic_phase() *)
Generic ==
  /\ At("post_read") \/ At("preaccess")
  /\ r' \in {Jump(r), Advance(r), Rest(r), SpecialResponse(r, 503)}
  /\ UNCHANGED engine

(* ngx_http_core_rewrite_phase(): the handler may change the URI *)
RewritePhase ==
  /\ At("server_rewrite") \/ At("rewrite")
  /\ \/ r' \in {Advance(r), Rest(r), SpecialResponse(r, 403)}
     \/ \E u \in DOMAIN Uris : r' = Advance([r EXCEPT !.uri = u, !.changed = TRUE])
  /\ UNCHANGED engine

(* ngx_http_core_find_config_phase() *)
FindConfigPhase ==
  /\ At("find_config")
  /\ LET q == [r EXCEPT !.handler = FALSE, !.changed = FALSE, !.loc = Uris[r.uri], !.judged = <<>>]
     IN r' = IF ~q.internal /\ Locs[q.loc].internal THEN SpecialResponse(q, 404)
             ELSE Advance(UpdateLocationConfig(q))
  /\ UNCHANGED engine

(* ngx_http_core_post_rewrite_phase() *)
PostRewritePhase ==
  /\ At("post_rewrite")
  /\ r' = LET c == Changes(r)
          IN IF ~r.changed THEN Advance(r)
             ELSE IF c.changes = 0 THEN SpecialResponse(c, 500)
             ELSE Pass(Jump([c EXCEPT !.loc = Server]))
  /\ UNCHANGED engine

(* Mutant: with "satisfy any" a handler that has no opinion clears the code. *)
AccessPhaseForgets ==
  /\ At("access")
  /\ \E rc \in {NGX_OK, NGX_DECLINED, 401, 403} :
       LET q == [r EXCEPT !.judged = Append(@, rc)]
       IN r' = IF ~r.main THEN Jump(r)
               ELSE IF rc = NGX_DECLINED THEN Advance([q EXCEPT !.access = 0])
               ELSE IF rc = NGX_OK THEN IF Locs[r.loc].satisfy = "all" THEN Advance(q) ELSE Jump([q EXCEPT !.access = 0])
               ELSE IF Locs[r.loc].satisfy = "all" THEN SpecialResponse(q, rc)
               ELSE Advance([q EXCEPT !.access = rc])
  /\ UNCHANGED engine

(* ngx_http_core_access_phase() *)
AccessPhase ==
  /\ At("access")
  /\ \E rc \in {NGX_OK, NGX_DECLINED, NGX_AGAIN, 401, 403, 500} :
       LET q == [r EXCEPT !.judged = Append(@, rc)]
           all == Locs[r.loc].satisfy = "all"
       IN r' = CASE ~r.main -> Jump(r)
                 [] r.main /\ rc = NGX_DECLINED -> Advance(q)
                 [] r.main /\ rc = NGX_AGAIN -> Rest(r)
                 [] r.main /\ rc = NGX_OK -> IF all THEN Advance(q) ELSE Jump([q EXCEPT !.access = 0])
                 [] r.main /\ rc \in {401, 403} /\ ~all -> Advance([q EXCEPT !.access = IF @ = 401 THEN 401 ELSE rc])
                 [] OTHER -> SpecialResponse(q, rc)
  /\ UNCHANGED engine

(* ngx_http_core_post_access_phase() *)
PostAccessPhase ==
  /\ At("post_access")
  /\ r' = IF r.access # 0 THEN SpecialResponse([r EXCEPT !.access = 0], r.access) ELSE Advance(r)
  /\ UNCHANGED engine

(* ngx_http_core_try_files_phase(): one of the files is there, or the last  *)
(* argument is taken                                                        *)
TryFilesPhase ==
  /\ At("try_files")
  /\ LET to == Locs[r.loc].try_files
     IN \/ r' = Advance(r)
        \/ to # None /\ r' = (IF to = "code" THEN SpecialResponse(r, 404) ELSE Redirect(r, to))
  /\ UNCHANGED engine

(* ngx_http_core_content_phase(): the handler of the location, or those of  *)
(* the phase one after another                                              *)
ContentPhase ==
  /\ At("content")
  /\ LET q == [r EXCEPT !.served = TRUE]
         last == r.ph + 1 = Len(engine.ph)
     IN \/ r' \in {Respond(q, 200), SpecialResponse(q, 404)}
        \/ \E u \in DOMAIN Uris : r' = Redirect(q, u)
        \/ ~r.handler /\ r' = (IF last THEN SpecialResponse(q, 403) ELSE Advance(q))
  /\ UNCHANGED engine

(* the event a handler waits for: it is called again *)
Resume ==
  /\ r.pc = "rest"
  /\ r' = [r EXCEPT !.pc = "run"]
  /\ UNCHANGED engine

Next == \/ Generic \/ RewritePhase \/ FindConfigPhase \/ PostRewritePhase \/ AccessPhase \/ PostAccessPhase
        \/ TryFilesPhase \/ ContentPhase \/ Resume

-----------------------------------------------------------------------------
(* What the access handlers said in this pass, of this location. *)
Allowed(l, judged) ==
  LET said == {judged[i] : i \in DOMAIN judged}
      asked == Len(judged) = Cardinality({i \in DOMAIN engine.ph : engine.ph[i].checker = "access"})
  IN IF Locs[l].satisfy = "all" THEN asked /\ said \subseteq {NGX_OK, NGX_DECLINED}
     ELSE NGX_OK \in said \/ (asked /\ said \subseteq {NGX_DECLINED})

(* The content handlers of a location see a request only after its access   *)
(* handlers let it pass, however it came there: by a rewrite, an error      *)
(* page, try_files, a named location, or resumed after a wait; and an       *)
(* internal location only sees internal requests.                           *)
AccessKept ==
  /\ r.pc = "run" /\ r.ph < Len(engine.ph) /\ engine.ph[r.ph + 1].checker \in {"try_files", "content"} =>
       /\ r.main => Allowed(r.loc, r.judged)
       /\ Locs[r.loc].internal => r.internal

(* Redirects come to an end though uri_changes wraps around once for a      *)
(* post_action; and every redirect takes and gives back one reference.      *)
RedirectsEnd ==
  /\ r.passes <= MaxChanges + 1 + Wrap
  /\ r.pc # "leaked"
  /\ r.pc = "run" => r.count = 1 + r.frames
  /\ r.pc = "rest" => r.count = 1
  /\ r.ph <= Len(engine.ph)
=============================================================================
