SPECIFICATION FairSpec
CONSTANTS
  Third = Third
  Busy = {"initiator", "joiner"}
  MaxFaults = 2
  MaxChanges = 1
INVARIANTS TypeOK AdmittedNeedsApproval JoinerBondedMeansAdmitted FailureLeavesNothing RelayCopyAgrees OthersKept
PROPERTIES PingPong ApprovedIsBonded
CHECK_DEADLOCK FALSE
