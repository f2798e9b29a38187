SPECIFICATION FairSpec
CONSTANTS
  c1 = c1
  c2 = c2
  Calls = {c1, c2}
  NoCall = NoCall
  Timeout = 2
INVARIANTS
  TypeOK
  NoEarlyInterrupt
PROPERTY
  WatchedStatementEnds
CHECK_DEADLOCK FALSE
