SPECIFICATION FairSpec
CONSTANTS
  r1 = r1  r2 = r2  r3 = r3  r4 = r4
  Calls = {r1, r2, r3, r4}
  Threads = 2
  Connections = 2
  MaxCommits = 1
INVARIANTS NothingLeaks
PROPERTIES OnlyTimeoutsEndGridlock EveryCallReturns
