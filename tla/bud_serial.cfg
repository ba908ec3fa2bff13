SPECIFICATION FairSpec
CONSTANTS
  Base = 0
  Num = {1, 2}
  MaxDrafts = 1
  MaxLoss = 1
  MaxCrash = 0
  Overlapping = {}
  Leavers = {"initiator"}
  None = None
  Numberless = Numberless
INVARIANTS AwaitedIsComing SameBudgetAtRest RaceIsSettled
PROPERTIES MaxNeverFalls ApprovedByBothIsApplied
CHECK_DEADLOCK FALSE
