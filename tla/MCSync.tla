------------------------------- MODULE MCSync -------------------------------
(* Small instances of two places where processes or requests wait for each  *)
(* other: the mutex in shared memory (three workers and the master) and the *)
(* resolver, whose askers wait for one another's queries.  They never meet: *)
(* a behaviour is of one of them.                                           *)
EXTENDS Shmtx, Sequences, TLC

VARIABLES
  part,
  node, resend, expire, timer, ctx, todo

asked == <<node, resend, expire, timer, ctx, todo>>
allVars == <<part, vars, asked>>

AllPoints == Points \ {"dead", "reaped"}

(* A name in two families and one no query can be made for. *)
Dual == INSTANCE Resolver WITH
  Names <- {"a", "m"}, Malformed <- {"m"}, Addrs <- {"p"}, Askers <- {1, 2},
  IPv6 <- TRUE, MaxRecursion <- 2

(* Two names that may lead to each other. *)
Chain == INSTANCE Resolver WITH
  Names <- {"a", "b"}, Malformed <- {}, Addrs <- {}, Askers <- {1, 2},
  IPv6 <- FALSE, MaxRecursion <- 2

MCInit ==
  /\ part \in {"mutex", "dual", "chain"}
  /\ Init
  /\ IF part = "chain" THEN Chain!Init ELSE Dual!Init

MCNext ==
  /\ UNCHANGED part
  /\ \/ part = "mutex" /\ Next /\ UNCHANGED asked
     \/ part = "dual" /\ Dual!Next /\ UNCHANGED vars
     \/ part = "chain" /\ Chain!Next /\ UNCHANGED vars

(* The fairness of Shmtx and Resolver, each in its part. *)
MCSpec ==
  /\ MCInit /\ [][MCNext]_allVars
  /\ Fairness
  /\ WF_asked(part = "chain" /\ Chain!CallHandler)
  /\ \A a \in {1, 2} : SF_asked(part = "chain" /\ Chain!Timeout(a))

(* Resolver: nodes, queues, waiters and the timer agree. *)
NamesSound == /\ part = "dual" => Dual!ResolverSound
              /\ part = "chain" => Chain!ResolverSound

(* Resolver: whoever asked is called or gives up (the two askers are alike). *)
EventuallyAnswered == part = "chain" /\ ctx[1].state # "none" ~> ctx[1].state = "none"
=============================================================================
