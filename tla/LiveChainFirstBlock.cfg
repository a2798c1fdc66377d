SPECIFICATION FairSpec
CONSTANTS
  NoBlock = NoBlock
  Height = 3
  Block <- MCBlock
  Number <- MCNumber
  Parent <- MCParent
  Endpoint = {e1}
  Window = 2
  Cap = 3
  FirstTip <- SecondA
  MaxDisturbances = 2
  MaxRestarts = 0
PROPERTY ConvergenceAfterEveryReorg
CHECK_DEADLOCK FALSE
