SPECIFICATION FairSpec
CONSTANTS
  Kinds = {"native", "browser", "port"}
  Sender = {1, 2}
  Nobody = Nobody
  MaxSaid = 2
  Full = 3
INVARIANTS NothingLost SentIsWired
PROPERTIES EndIsLast ConnectReturns RecvEnds
CHECK_DEADLOCK FALSE
