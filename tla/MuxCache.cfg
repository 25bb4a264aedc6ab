SPECIFICATION Spec
CHECK_DEADLOCK FALSE
CONSTANTS
  Caller = {c1, c2}
  Url = {u1, u2}
  Port = {p1}
  None = None
  FirstUrl = u1
  MaxMux = 3
  MaxSets = 3
INVARIANTS UsedMuxIsUp RelayTaken SingleMux
