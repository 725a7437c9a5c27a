SPECIFICATION Spec
CONSTANTS
  d1 = d1
  d2 = d2
  e1 = e1
  Procs = {p1, p2}
  Paths = {d1, d2}
  Ids = {i1, i2, i3}
  Exchanges = {e1}
  Overlap <- Inside
  Budget = 1
  NoProc = NoProc
  NoPath = NoPath
  NoId = NoId
SYMMETRY Interchangeable
INVARIANTS PromiseKept RegistersAgain
PROPERTIES FailureLeavesNoTrace RepositoryKept ResultsApart
CHECK_DEADLOCK FALSE
