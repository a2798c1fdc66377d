SPECIFICATION Spec
CONSTANTS
  NoBlock = NoBlock
  Height = 3
  Block <- MCBlock
  Number <- MCNumber
  Parent <- MCParent
  Endpoint = {e1, e2}
  StartBlock = 1
  Finality = {"confirmations", "finalized"}
  Confirmations = 0
  Given = {2}
  ReorgDepth = 2
  Window = 2
  Retries = 1
  FirstTip <- Genesis
  MayConflict = FALSE
  MaxDisturbances = 2
  MaxRestarts = 1
INVARIANTS TypeOK CheckpointIsSaved StoredChain
PROPERTY StoreFollowsChain
CHECK_DEADLOCK FALSE
