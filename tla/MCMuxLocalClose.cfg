SPECIFICATION FairSpec
CONSTANTS
  Caller = {a, b}
  MaxU32 = 2
  Grants = {0,1}
  Preemptive = FALSE
  MaxWire = 1
  MaxInbound = 0
  MaxGrants = 0
PROPERTIES LocalCloseWakesSender
CHECK_DEADLOCK FALSE
