SPECIFICATION Spec
CONSTANTS
  n1 = n1  n2 = n2  n3 = n3  r1 = r1  r2 = r2  r3 = r3
  Names = {n1, n2, n3}
  Requests = {r1, r2, r3}
  NoName = NoName
  RacedNames = {n1}
  Faults = {"filesystem", "database", "crash"}
SYMMETRY Interchangeable
INVARIANTS TypeOK UnracedHasWorkspace NoOrphanWorkspace
