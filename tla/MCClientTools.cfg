SPECIFICATION Spec
CONSTANTS
  c1 = c1
  c2 = c2
  a1 = a1
  NoCall = NoCall
  NoBudget = NoBudget
  Closer = Closer
  Calls = {c1, c2}
  Agents = {a1}
  AgentOf <- MCAgentOf
  MaxRows = 2
  DefaultRows = 1
  Budgets = {2}
  MaxCloses = 1
  Dialects = {"search", "mongodb", "neo4j"}
INVARIANTS
  TypeOK
  LedgerMatchesReplies
  NothingLeftUnsaid
  NoSessionLeak
  BlockedBeforeRunning
  ShownWithinBudget
CHECK_DEADLOCK FALSE
