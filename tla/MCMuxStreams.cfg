SPECIFICATION Spec
CONSTANTS
  Caller = {a, b}
  MaxU32 = 3
  Grants = {1}
  Preemptive = TRUE
  MaxWire = 1
  MaxInbound = 0
  MaxGrants = 0
SYMMETRY Symmetry
INVARIANTS TypeOK UplinkLegal
CHECK_DEADLOCK FALSE
