SPECIFICATION Spec
CONSTANTS
  NoBlock = NoBlock
  Block <- MCBlock
  Number <- MCNumber
  Parent <- MCParent
  Time <- MCTime
  Logged <- MCLogged
  Interval = 2
  FirstTip <- MCFirstTip
  Plans <- MCPlans
  From = 0
  Batch = 3
  Window = 2
  GapBatch = 2
  Retries = 1
  Queue = 2
  MaxMoves = 2
  MaxTroubles = 1
  MaxReruns = 0
INVARIANTS StateIsItsBlock StoreIsCanonical OpenIsHonest WatchAgreesWithRead CaughtUp
PROPERTY ClosesWhole
CHECK_DEADLOCK FALSE
