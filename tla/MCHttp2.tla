------------------------------ MODULE MCHttp2 ------------------------------
(* Small instances of the three sides of an HTTP/2 connection: what it      *)
(* sends, the dependency tree of its streams, and the body of a request.    *)
(* A behaviour is of one of them.                                           *)
EXTENDS Http2

CONSTANTS RankOf1, RankOf3
MCRank == [s \in Sids |-> IF s = 3 THEN RankOf3 ELSE RankOf1]

VARIABLES part, node, closed, count, last, stream, frame, conn, sender

treeVars == <<node, closed, count, last>>
bodyVars == <<stream, frame, conn, sender>>
allVars == <<vars, treeVars, bodyVars, part>>

(* Four streams, of which two may be open and two closed ones kept. *)
Tree == INSTANCE Http2Tree WITH
  Sids <- {1, 3, 5, 7}, MaxClosed <- 2, MaxStreams <- 2, CountRange <- 256

(* A body of two buffers, its length declared rightly, wrongly or not. *)
Body == INSTANCE Http2Body WITH
  Body <- 4, Declared <- {3, 4}, BufferSize <- 2, MaxWindow <- 9, MaxSize <- 5,
  Paddings <- {0, 1}, MaxPadded <- 2, client <- sender

MCInit ==
  /\ part \in {"send", "tree", "body"}
  /\ Init /\ Tree!Init /\ Body!Init
  /\ part # "body" => stream.declared = -1

MCNext ==
  /\ UNCHANGED part
  /\ \/ part = "send" /\ Next /\ UNCHANGED <<treeVars, bodyVars>>
     \/ part = "tree" /\ Tree!Next /\ UNCHANGED <<vars, bodyVars>>
     \/ part = "body" /\ Body!Next /\ UNCHANGED <<vars, treeVars>>

(* The fairness of Http2 and of Http2Body, each in its part. *)
MCSpec ==
  /\ MCInit /\ [][MCNext]_allVars
  /\ WF_vars(part = "send" /\ Worker) /\ WF_vars(part = "send" /\ ReadFails)
  /\ SF_vars(part = "send" /\ Timers)
  /\ \A s \in Sids : /\ WF_vars(part = "send" /\ Respond(s))
                     /\ SF_vars(part = "send" /\ StreamTimeout(s))
  /\ SF_bodyVars(part = "body" /\ Body!BodyTimeout)
  /\ WF_bodyVars(part = "body" /\ (Body!ReadRequestHandler \/ Body!SendRequest))

(* Http2Tree: lists and pointers are one tree, and nodes are reused exactly *)
(* when no stream has them; Http2Body: windows, buffer and body agree.      *)
TreeAndBodySound ==
  /\ part = "tree" => Tree!OneTree /\ Tree!ReuseExact
  /\ part = "body" => Body!BodySound

(* Http2 and Http2Body: every stream is closed, and every body that is read *)
(* ends, but for the states named Leaked and Unwatched there.  A stream is  *)
(* opened and a body read once, so from some point on none is left.         *)
StreamsAndBodiesEnd ==
  <>[](/\ part = "send" => \A s \in Sids : h2c.streams[s].live => Leaked(s)
       /\ part = "body" => stream.state # "reading" \/ Body!Unwatched)
=============================================================================
