SPECIFICATION FairSpec
CONSTANTS
  A = A
  B = B
  Hash <- MCHash
  MaxFaults = 2
  MaxNumber = 2
  MaxTips = 2
PROPERTIES HearsAgain WatchCatchesUp
CHECK_DEADLOCK FALSE
