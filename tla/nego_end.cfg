SPECIFICATION Spec
CONSTANTS
  Hash = {h1}
  NoHash = NoHash
  MaxTurns = 0
  MaxSigns = 1
  MaxLoss = 0
  MaxCrash = 0
  Clocks = {"recipient"}
  Closers = {"recipient"}
  Revokers = {"initiator"}
  Ephemeral = FALSE
INVARIANTS OpenGateIsForPending ClosedThreadIsOver
PROPERTIES TerminalIsFinal DeadlineIsLocal EvidenceIsKept
CHECK_DEADLOCK FALSE
