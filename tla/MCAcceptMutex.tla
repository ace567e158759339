--------------------------- MODULE MCAcceptMutex ---------------------------
(* Small instances of AcceptMutex for TLC. *)
EXTENDS AcceptMutex

(* The last socket is a "reuseport" socket of one worker. *)
LastOwned == [s \in Sockets |-> IF s = N THEN CHOOSE w \in Workers : TRUE
                                         ELSE None]

=============================================================================
