SPECIFICATION Spec
CONSTANTS
  Peer = {p}
  Late = {}
  Overlapping = {}
  Rereads = TRUE
  MaxSends = 2
  Troubles = {"fetch"}
  MaxTroubles = 1
INVARIANTS RetryableIsNotStale
CHECK_DEADLOCK FALSE
