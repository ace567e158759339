SPECIFICATION Spec
CONSTANTS
  Requests = {1, 2}
  Peers = {1, 2}
  Conns = {1, 2}
  Mixes <- MCMixes
  Answers <- MCAnswers
  NextOn = {"ERROR", "TIMEOUT", "HTTP_404"}
  CacheMax = 1
  Together = 1
  Blocks = 1
INVARIANTS
  DummyMeansSent
CHECK_DEADLOCK FALSE
