SPECIFICATION Spec
CONSTANTS
  Threshold = 3
  MaxPayload = 2
  MaxCredit = 2
  MaxOutgoing = 8
  Callers <- MCWriters
INVARIANTS WriteOnce
CHECK_DEADLOCK FALSE
