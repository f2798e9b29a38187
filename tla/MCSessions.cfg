SPECIFICATION Spec
CONSTANTS
  a1 = a1
  a2 = a2
  o1 = o1
  s1 = s1
  s2 = s2
  Agents = {a1, a2}
  Orchestrators = {o1}
  Sessions = {s1, s2}
  Nobody = Nobody
  NotAnAgent = NotAnAgent
  Budgets = {5, NoBudget}
  NoBudget = NoBudget
  DefaultRows = 3
  HardMaxRows = 2
  PageSizes = {0, 1, 5}
  FirstPages <- MCFirstPages
  TableSize = 4
  MaxReadings = 1
INVARIANTS
  TypeOK
  BudgetOfTheAgent
  PagesCoverTheResult
CHECK_DEADLOCK FALSE
