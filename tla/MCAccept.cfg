CONSTANTS
  Workers = {w1, w2}
  None = none
  N = 2
  Owner <- LastOwned
  Udp = {2}
  Directives = {TRUE, FALSE}
  MultiAccept = TRUE
  ConnN = 16
  Busy = 14
  FailingCalls = {"add"}
  Faults = {"crash", "emfile"}
  MaxFaults = 2
  MaxArrivals = 3
SPECIFICATION FairSpec
INVARIANT HolderServes
PROPERTY Served
CHECK_DEADLOCK FALSE
