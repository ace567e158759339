------------------------------- MODULE Mutex -------------------------------
(***************************************************************************)
(* What the inter-process mutex of nginx promises its users, whatever it   *)
(* does with the lock word, the wait counter and the semaphore: at most    *)
(* one process is inside; a process that dies inside keeps everybody else  *)
(* out until the master has recovered the mutex; nobody is put out of it   *)
(* while he is alive.                                                      *)
(***************************************************************************)
CONSTANT Clients

VARIABLE where   \* "out", "in", "stuck" (died inside) or "gone"

Init == where = [p \in Clients |-> "out"]

Move(p, from, to) ==
  /\ where[p] = from
  /\ where' = [where EXCEPT ![p] = to]

Enter(p) ==
  /\ \A q \in Clients : where[q] \notin {"in", "stuck"}
  /\ Move(p, "out", "in")

Leave(p) == Move(p, "in", "out")
Die(p) == Move(p, "in", "stuck") \/ Move(p, "out", "gone")
Recover(p) == Move(p, "stuck", "gone")
Return(p) == Move(p, "gone", "out")

Next == \E p \in Clients : Enter(p) \/ Leave(p) \/ Die(p) \/ Recover(p) \/ Return(p)

Spec == Init /\ [][Next]_where
=============================================================================
