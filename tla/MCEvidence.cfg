SPECIFICATION Spec
CONSTANTS
  p1 = p1
  p2 = p2
  x1 = x1
  x2 = x2
  Procs <- TwoProcs
  Patches <- OnePatch
  Rank <- RankOne
  Modes = {"automatic"}
  Others = {"commit", "withdraw", "take", "crash"}
  MaxCommit = 3
  MaxRuns = 2
  NoProc = NoProc
  NoPatch = NoPatch
SYMMETRY Interchangeable
PROPERTIES PendingEvidenceKept
