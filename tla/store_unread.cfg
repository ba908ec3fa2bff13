SPECIFICATION Spec
CONSTANTS
  Blind = TRUE
  MaxVersion = 1
  MaxFlush = 2
  MaxFaults = 1
PROPERTIES WrittenStays
CHECK_DEADLOCK FALSE
