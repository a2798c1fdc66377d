SPECIFICATION FairSpec
CONSTANTS
  From = 0
  Latest = 4
  Top = 5
  Directions = {"forward", "backward"}
  PageSize = 2
  Concurrency = 2
  PerChunk = 1
  EventBlocks <- MCEventBlocks
  Retries = 1
  MaxTroubles = 2
INVARIANTS CoverageExact PagesTile
PROPERTY Completes
CHECK_DEADLOCK FALSE
