------------------------------ MODULE MCRequest ------------------------------
(* Small documents for Request: subrequests side by side and nested, of      *)
(* memory, of files, of upstream servers, with an error page, with an error. *)
EXTENDS Request

Do(x) == [do |-> x, of |-> 0]
SubOf(i) == [do |-> "sub", of |-> i]
O == Do("out")
F == Do("file")
U == Do("up")

SideBySide ==
  { << <<O, SubOf(2), O, SubOf(3), SubOf(4), O>>, x[1], x[2], x[3] >> :
      x \in { << <<F>>, <<O, O>>, <<Do("404")>> >>, << <<U, O>>, <<F, O>>, <<Do("ERROR")>> >>,
             << <<O, F, O>>, <<U, O>>, <<>> >>, << <<U, O, O>>, <<O, O>>, <<U, O>> >> } }

Nested ==
  { << <<SubOf(2), m>>, <<O, SubOf(3), F>>, <<y, SubOf(4)>>, z >> :
      m \in {F, O}, y \in {O, F}, z \in {<<U, O>>, <<Do("ERROR")>>, <<Do("404")>>} }

MainProxied ==
  { << <<U, O, SubOf(2), O>>, x, <<>>, <<>> >> : x \in {<<F>>, <<U, O>>, <<Do("404")>>} }

MCPlans == SideBySide \cup Nested \cup MainProxied
=============================================================================
