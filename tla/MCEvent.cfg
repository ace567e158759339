CONSTANTS
  N = 2
  Signals = {"in", "err"}
  Does = {"addconn", "defer"}
  MaxReborn = 1
  DrainMax = 2
  MaxBatch = 2
SPECIFICATION MCSpec
INVARIANT LoopSound
PROPERTY NoStaleEvent
