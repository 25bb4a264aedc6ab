SPECIFICATION FairSpec
CONSTANTS
  Threshold = 3
  MaxPayload = 2
  MaxCredit = 2
  MaxOutgoing = 8
  Callers <- MCCallers
INVARIANTS NoGap FlushMeansSent ReadOnce CarefulWriteOnce
PROPERTIES EofIsComplete ReaderNotStuck
CHECK_DEADLOCK FALSE
