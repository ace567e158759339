CONSTANTS
  NWorkers = 2
  Helpers = {}
  MaxProcs = 6
  NPids = 7
  Signals = {"HUP", "USR1", "USR2", "WINCH", "QUIT"}
  MaxSignals = 2
  Faults = {"crash", "config", "exec"}
  MaxFaults = 1
SPECIFICATION MCSpec
INVARIANTS WorkersTracked ChannelsTold NobodyLost
PROPERTY TermEnds
CHECK_DEADLOCK FALSE
