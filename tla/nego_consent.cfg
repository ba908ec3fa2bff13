SPECIFICATION Spec
CONSTANTS
  Hash = {h1, h2}
  NoHash = NoHash
  MaxTurns = 0
  MaxSigns = 1
  MaxLoss = 1
  MaxCrash = 1
  Clocks = {}
  Closers = {}
  Revokers = {}
  Ephemeral = FALSE
INVARIANTS CoSignNeedsBothHumans LiveNeedsRecipientHuman ConsentInv
 
CHECK_DEADLOCK FALSE
