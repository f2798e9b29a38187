SPECIFICATION Spec
CONSTANTS
  c1 = c1
  c2 = c2
  t1 = t1
  t2 = t2
  n1 = n1
  Calls = {c1, c2}
  Threads = {t1, t2}
  Shared = Shared
  Names = {n1}
  NoName = NoName
  Sources <- MCSources
  Header = 1
  Limits = {0, 5, NoLimit}
  NoLimit = NoLimit
  Dialects = {"sql", "search", "documents"}
SYMMETRY ThreadSymmetry
INVARIANTS
  TypeOK
  FileIsLongestPrefix
  TruncationIsTold
  FileHoldsReport
CHECK_DEADLOCK FALSE
