---------------------------- MODULE MCEventLoop ----------------------------
(* Small instances of EventLoop for TLC.  A run covers four workloads: the  *)
(* one of the configuration file, about the kernel's reports, one in which  *)
(* events are deleted and added again, one about timers and reusable        *)
(* connections, and one about posted events.                                *)
EXTENDS EventLoop

VARIABLE workload

Deletes == INSTANCE EventLoop WITH Signals <- {"in"}, Does <- {"delete", "defer"}

Pool == INSTANCE EventLoop WITH Signals <- {"in"}, Does <- {"timer", "reuse"}

Posts == INSTANCE EventLoop WITH Signals <- {"in"}, Does <- {"post", "timer"}

MCInit == Init /\ workload \in {"edges", "deletes", "pool", "posts"}

MCNext ==
  /\ UNCHANGED workload
  /\ \/ workload = "edges" /\ Next
     \/ workload = "deletes" /\ Deletes!Next
     \/ workload = "pool" /\ Pool!Next
     \/ workload = "posts" /\ Posts!Next

MCSpec == MCInit /\ [][MCNext]_<<vars, workload>>
=============================================================================
