SPECIFICATION FairSpec
CONSTANTS
  Peer = {p}
  Late = {p}
  Overlapping = {p}
  Rereads = TRUE
  MaxSends = 2
  Troubles = {"fault","fetch","repost","expiry","crash","revoke"}
  MaxTroubles = 2
INVARIANTS TypeOK  StaleWasAccepted
PROPERTIES AcceptedOnce MailIsAnswered
CHECK_DEADLOCK FALSE
