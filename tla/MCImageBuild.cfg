SPECIFICATION FairSpec
CONSTANTS
  Plans <- BuildPlans
  Entries = 2
  Chunks = 3
  WireCapacity = 1
  MaxFaults = 3
INVARIANTS PublishedComplete NoContainerLeft
PROPERTY BuildEnds
CHECK_DEADLOCK FALSE
