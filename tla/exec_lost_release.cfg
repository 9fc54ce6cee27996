SPECIFICATION Spec
CONSTANTS
  a1 = a1  a2 = a2  t1 = t1  t2 = t2  t3 = t3  r1 = r1  r2 = r2  r3 = r3
  Tasks = {t1, t3}
  Agents = {a1, a2}
  Requests = {r1, r2}
  NoTask = NoTask
  NoAgent = NoAgent
  AgentOf <- SharedAgent
  InitialStatus <- AllQueued
  LockScope = "database"
  ConcurrentRefresh = FALSE
  CancelRunning = FALSE
  ServiceTargets = {}
  Faults = {}
  MaxConversations = 2
SYMMETRY RequestSymmetry
INVARIANTS NoLeakedAgent
