SPECIFICATION Spec
CONSTANTS
  c1 = c1
  c2 = c2
  a1 = a1
  NoCall = NoCall
  NoBudget = NoBudget
  Calls = {c1, c2}
  Agents = {a1}
  AgentOf <- MCAgentOf
  MaxRows = 1
  Budgets = {1}
  Threshold = 1
  Estimates = {1, 2}
  Builds = {"gil"}
INVARIANT
  ErrorMeansNotRun
CHECK_DEADLOCK FALSE
