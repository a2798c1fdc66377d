SPECIFICATION FairSpec
CONSTANTS
  e1 = e1
  e2 = e2
  r1 = r1
  w1 = w1
  Endpoint <- MCEndpoint
  Read <- MCRead
  Write <- MCWrite
  Request <- MCRequest
  Background <- MCBackground
  Capacity = 2
  Concurrency = 1
  Rps = 1
  MinAttempts = 2
  MaxSelected = 1
  Late <- MCLate
  Foreign <- MCForeign
INVARIANTS GivenBack ForegroundRoom TriedEveryPeer
PROPERTY Settles
CHECK_DEADLOCK FALSE
