CONSTANTS
  Threads = {t1, t2, t3}
  Tasks = {k1, k2}
  Exit = exit
  NoTask = none
  MaxQueue = 1
  MaxPosts = 2
  Spurious = 1
SPECIFICATION MCSpec
INVARIANTS PoolSound ParsersExact DataKept AccessKept CacheSound SessionsSound
PROPERTY PoolServes
CHECK_DEADLOCK FALSE
