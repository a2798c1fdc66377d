SPECIFICATION FairSpec
CONSTANTS
  NoBlock = NoBlock
  Height = 4
  Block <- MCBlock
  Number <- MCNumber
  Parent <- MCParent
  Endpoint = {e1, e2}
  Window = 2
  Cap = 3
  FirstTip <- FirstA
  MaxDisturbances = 3
  MaxRestarts = 1
PROPERTIES ViewIsLinked Convergence
INVARIANTS TypeOK RecoveryWindow CacheOfOneWorker CacheCoversRetained
CHECK_DEADLOCK FALSE
