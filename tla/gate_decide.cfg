SPECIFICATION Spec
CONSTANTS
  PairItem = {p1, p2}
  OpenItem = {s}
  MaxTries = 2
  MaxCalls = 3
  MaxFaults = 1
INVARIANTS TypeOK TriesAreBounded OneEffect FileIsForItem
CHECK_DEADLOCK FALSE
