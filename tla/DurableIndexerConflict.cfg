SPECIFICATION Spec
CONSTANTS
  NoBlock = NoBlock
  Height = 4
  Block <- MCBlock
  Number <- MCNumber
  Parent <- MCParent
  Endpoint = {e1}
  StartBlock = 1
  Finality = {"confirmations"}
  Confirmations = 0
  Given = {}
  ReorgDepth = 2
  Window = 2
  Retries = 1
  FirstTip <- Genesis
  MayConflict = TRUE
  MaxDisturbances = 4
  MaxRestarts = 1
PROPERTY ConflictFailsClosed
CHECK_DEADLOCK FALSE
