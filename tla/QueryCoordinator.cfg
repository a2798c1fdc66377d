SPECIFICATION FairClientSpec
CONSTANTS
  Caller <- MCCaller
  Key <- MCKey
  Chains <- MCChains
  WithReceipts = {"g", "a2"}
  Capacity = 1
  BlocksLimit = 2
  Asked = 2
  None = None
  Null = "null"
INVARIANTS SharedRead NoOrphanRead NoStrayInterrupt CacheInv
PROPERTIES Answered AtOnceIsCurrent
CHECK_DEADLOCK FALSE
