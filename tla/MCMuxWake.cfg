SPECIFICATION FairSpec
CONSTANTS
  Caller = {a, b}
  MaxU32 = 2
  Grants = {0,2}
  Preemptive = FALSE
  MaxWire = 2
  MaxInbound = 0
  MaxGrants = 1
INVARIANTS NoStrandedSender
PROPERTIES CreditWakesSender PeerCloseWakesSender
CHECK_DEADLOCK FALSE
