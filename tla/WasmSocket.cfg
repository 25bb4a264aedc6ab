SPECIFICATION Spec
CHECK_DEADLOCK FALSE
CONSTANTS
  Stalls = TRUE
  MaxCalls = 4
  MaxMsgs = 2
INVARIANTS OpenIsServed NoDataAfterClose
PROPERTIES EndIsFinal
