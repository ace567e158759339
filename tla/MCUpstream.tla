----------------------------- MODULE MCUpstream -----------------------------
(* Two requests one after the other, two servers, one idle connection. *)
EXTENDS Upstream

Kind(b, i, m, n, c) == [body |-> b, idempotent |-> i, mode |-> m, unbuffered |-> n, cacheable |-> c]
A(s, b, f, c) == [status |-> s, body |-> b, framed |-> f, close |-> c]

Get(m, c) == Kind(FALSE, TRUE, m, FALSE, c)
Put(m) == Kind(TRUE, TRUE, m, FALSE, FALSE)
Post(m, n) == Kind(TRUE, FALSE, m, n, FALSE)

MCMixes == { <<Get("pipe", TRUE), Post("direct", FALSE)>>, <<Put("pipe"), Get("direct", FALSE)>>,
             <<Post("pipe", TRUE), Get("memory", FALSE)>> }
MCAnswers == {A("200", 1, TRUE, FALSE), A("200", 1, FALSE, TRUE), A("404", 0, TRUE, FALSE),
              A("bad", 0, TRUE, TRUE)}
=============================================================================
