SPECIFICATION FairSpec
CONSTANTS
  Handle = {1, 2}
  Conn = {1, 2}
  Key = {"a", "b"}
  Url <- MCUrl
  None = None
  Setups <- MCSetups
  MaxRedirects = 1
  MaxPerHost = 1
  Idle = 1
INVARIANTS TypeOK OneOwner AnswerIsOwn PoolClean GoesWhereTold
 
CHECK_DEADLOCK FALSE
