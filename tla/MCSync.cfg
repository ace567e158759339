CONSTANTS
  Master = master
  Free = free
  Workers = {w1, w2, w3}
  Semaphore = TRUE
  CrashPoints <- AllPoints
  FailingCalls = {"sem_wait", "sem_post"}
  MaxFaults = 1
  MaxCalls = 4
SPECIFICATION MCSpec
INVARIANTS MutualExclusion WakeupsSafe NamesSound
PROPERTIES SleeperServed KeepsPromise EventuallyAnswered
CHECK_DEADLOCK FALSE
