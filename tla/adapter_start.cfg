SPECIFICATION CallSpec
CONSTANTS
  p1 = p1  p2 = p2
  MaxTokens = 3
  StartTimeout = 5
  PollInterval = 2
  RequestTimeout = 3
  Pollers = {p1, p2}
  Projects <- SmallProjects
INVARIANTS TypeOK StartIsBounded RepositoryIsTheOrigins UsualOriginsResolve ConflictHidesNothing
PROPERTIES KeepsContract CallIsAnswered
CHECK_DEADLOCK FALSE
