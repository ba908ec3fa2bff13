SPECIFICATION FairSpec
CONSTANTS
  Hash = {h1}
  NoHash = NoHash
  MaxTurns = 1
  MaxSigns = 1
  MaxLoss = 0
  MaxCrash = 0
  Clocks = {}
  Closers = {}
  Revokers = {}
  Ephemeral = TRUE
INVARIANTS TypeOK
PROPERTIES RatifiedByBothIsCoSigned ApprovalReachesInitiator
CHECK_DEADLOCK FALSE
