-------------------------- MODULE MCHttpConnection --------------------------
(* Small instances of HttpConnection for TLC. *)
EXTENDS HttpConnection

Req(line, hdrs, body, chunked, ka, bad) ==
  [line |-> line, hdrs |-> hdrs, body |-> body, chunked |-> chunked, ka |-> ka, bad |-> bad]

Get == Req(1, 0, -1, FALSE, TRUE, "no")
Post == Req(1, 0, 2, FALSE, TRUE, "no")

(* Two pipelined requests, the second one long or wrong. *)
MCScripts ==
  { <<Post, Get>>, <<Get, Post>>,
    <<Req(1, 1, 1, TRUE, TRUE, "no"), Req(2, 0, -1, FALSE, FALSE, "no")>>,
    <<Req(1, 0, 3, FALSE, TRUE, "no"), Req(1, 0, -1, FALSE, TRUE, "head")>>,
    <<Req(2, 2, 0, FALSE, TRUE, "no"), Req(3, 0, -1, FALSE, TRUE, "no")>>,
    <<Get, Req(1, 0, -1, FALSE, TRUE, "line")>> }

=============================================================================
