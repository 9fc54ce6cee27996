SPECIFICATION RegistrySpec
CONSTANTS
  k1 = k1  k2 = k2  k3 = k3  k4 = k4  p1 = p1  p2 = p2
  a1 = a1  a2 = a2  n1 = n1  n2 = n2  c1 = c1  c2 = c2  g1 = g1  g2 = g2
  Tasks = {k1, k2, k3}
  Projects = {p1, p2}
  Agents = {a1, a2}
  Names = {n1}
  Creators = {c1, c2}
  Registrars = {g1, g2}
  NoTask = NoTask  NoProject = NoProject  NoAgent = NoAgent  NoName = NoName  NoRow = NoRow
  Moves = {"AVAILABLE", "BUSY"}
  Found <- FoundTables
  Payloads <- ClientPayloads
INVARIANTS TypeOK ParentsAreSound ChainsEnd
PROPERTIES WalksEnd MeetsTaskCreation
