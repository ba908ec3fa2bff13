SPECIFICATION Spec
CONSTANTS
  Hash = {h1}
  NoHash = NoHash
  MaxTurns = 0
  MaxSigns = 1
  MaxLoss = 0
  MaxCrash = 0
  Clocks = {}
  Closers = {}
  Revokers = {"initiator"}
  Ephemeral = FALSE
PROPERTIES RevokedStaysRevoked
CHECK_DEADLOCK FALSE
