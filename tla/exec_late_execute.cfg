SPECIFICATION Spec
CONSTANTS
  a1 = a1  a2 = a2  t1 = t1  t2 = t2  t3 = t3  r1 = r1  r2 = r2  r3 = r3
  Tasks = {t1}
  Agents = {a1}
  Requests = {r1, r2, r3}
  NoTask = NoTask
  NoAgent = NoAgent
  AgentOf <- OneAgent
  InitialStatus <- AllQueued
  LockScope = "row"
  ConcurrentRefresh = FALSE
  CancelRunning = FALSE
  ServiceTargets = {"WAITING_FOR_APPROVAL"}
  Faults = {}
  MaxConversations = 3
SYMMETRY RequestSymmetry
INVARIANTS NoLeakedAgent
