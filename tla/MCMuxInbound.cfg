SPECIFICATION Spec
CONSTANTS
  Caller = {a, b}
  MaxU32 = 2
  Grants = {1}
  Preemptive = TRUE
  MaxWire = 1
  MaxInbound = 2
  MaxGrants = 1
INVARIANTS PeerCloseRemoves WireWithinGrants
PROPERTIES ImplementsPipe
CHECK_DEADLOCK FALSE
