SPECIFICATION Spec
CONSTANTS
  p1 = p1
  p2 = p2
  x1 = x1
  x2 = x2
  Procs <- TwoProcs
  Patches <- OnePatch
  Rank <- RankOne
  Modes = {"automatic", "explicit"}
  Others = {"commit", "crash"}
  MaxCommit = 2
  MaxRuns = 2
  NoProc = NoProc
  NoPatch = NoPatch
SYMMETRY Interchangeable
PROPERTIES ArchivedAfterSuccess
