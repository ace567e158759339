CONSTANTS
  Sids = {1, 3}
  Rank <- MCRank
  RankOf1 = 1
  RankOf3 = 2
  Bodies = {0, 3}
  FrameSize = 2
  MaxWindow = 4
  Initial = 2
  Grants = {1, 3}
  Settings = {1, 3}
  MaxFrames = 1
SPECIFICATION MCSpec
INVARIANTS SendSound TreeAndBodySound
CHECK_DEADLOCK FALSE
PROPERTIES StreamsAndBodiesEnd
