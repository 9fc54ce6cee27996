SPECIFICATION Spec
CONSTANTS
  t1 = t1  t2 = t2  c1 = c1  c2 = c2  c3 = c3
  Tasks = {t1}
  Callers = {c1, c2, c3}
  NoTask = NoTask
  MaxTime = 2
SYMMETRY Interchangeable
INVARIANTS TypeOK TimesAreOrdered ColumnsAgree
PROPERTIES StampsAreFinal FollowsLifecycle
