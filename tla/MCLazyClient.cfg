SPECIFICATION FairSpec
CONSTANTS
  c1 = c1
  c2 = c2
  c3 = c3
  c4 = c4
  Calls = {c1, c2, c3, c4}
  NoCall = NoCall
INVARIANTS
  TypeOK
  NoClientLeak
  ClosedOnce
  GetIsUsable
PROPERTIES
  EveryCallEnds
  Cell
CHECK_DEADLOCK FALSE
