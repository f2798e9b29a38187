SPECIFICATION FairSpec
CONSTANTS
  c1 = c1
  c2 = c2
  c3 = c3
  a1 = a1
  a2 = a2
  NoCall = NoCall
  NoBudget = NoBudget
  Calls = {c1, c2, c3}
  Agents = {a1, a2}
  AgentOf <- MCAgentOf
  MaxRows = 2
  Budgets = {2, NoBudget}
  Threshold = 1
  Estimates = {1, 2}
  Builds = {"gil", "free"}
INVARIANTS
  TypeOK
  BudgetRespected
  WithheldOnlyOverBudget
  MetricsExact
PROPERTIES
  ExhaustionIsFinal
  EveryCallDecided
  Ledger
CHECK_DEADLOCK FALSE
