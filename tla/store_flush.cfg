SPECIFICATION FairSpec
CONSTANTS
  Blind = FALSE
  MaxVersion = 3
  MaxFlush = 5
  MaxFaults = 2
INVARIANTS TypeOK
PROPERTIES NeverOlder ChangesAreSaved
CHECK_DEADLOCK FALSE
