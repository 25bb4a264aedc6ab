SPECIFICATION FairSpec
CONSTANTS
  Caller = {a, b}
  MaxU32 = 2
  Grants = {0,1}
  Preemptive = TRUE
  MaxWire = 1
  MaxInbound = 0
  MaxGrants = 1
PROPERTIES CreditWakesSender
CHECK_DEADLOCK FALSE
