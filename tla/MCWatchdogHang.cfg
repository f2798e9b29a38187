SPECIFICATION FairSpec
CONSTANTS
  c1 = c1
  c2 = c2
  Calls = {c1, c2}
  NoCall = NoCall
  Timeout = 2
PROPERTY
  InterruptedCallReplies
CHECK_DEADLOCK FALSE
