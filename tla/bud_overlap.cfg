SPECIFICATION Spec
CONSTANTS
  Base = 0
  Num = {1}
  MaxDrafts = 1
  MaxLoss = 1
  MaxCrash = 1
  Overlapping = {"initiator"}
  Leavers = {"initiator"}
  None = None
  Numberless = Numberless
INVARIANTS TypeOK BudgetInv MaxNeedsBothHumans
CHECK_DEADLOCK FALSE
