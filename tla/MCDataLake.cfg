SPECIFICATION FairSpec
CONSTANTS
  c1 = c1
  c2 = c2
  p1 = p1
  p2 = p2
  f1 = f1
  f2 = f2
  f3 = f3
  Calls = {c1, c2}
  NoCall = NoCall
  Places = {p1, p2}
  NoPlace = NoPlace
  Files = {f1, f2, f3}
  Rank <- MCRank
  ViewName <- MCViewName
  Contents <- MCContents
  Urls = {"folder", "plain", "memory"}
  MaxChanges = 2
INVARIANTS
  TypeOK
  CachedLakeIsWhole
  CursorOfItsFolder
PROPERTIES
  BuiltOncePerFolder
  EveryCallReplies
CHECK_DEADLOCK FALSE
