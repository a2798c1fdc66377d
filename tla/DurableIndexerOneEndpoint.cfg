SPECIFICATION FairSpec
CONSTANTS
  NoBlock = NoBlock
  Height = 3
  Block <- MCBlock
  Number <- MCNumber
  Parent <- MCParent
  Endpoint = {e1}
  StartBlock = 1
  Finality = {"confirmations"}
  Confirmations = 1
  Given = {}
  ReorgDepth = 2
  Window = 2
  Retries = 3
  FirstTip <- Genesis
  MayConflict = FALSE
  MaxDisturbances = 4
  MaxRestarts = 1
PROPERTIES FinalizedKept CatchesUp
CHECK_DEADLOCK FALSE
