SPECIFICATION FairSpec
CONSTANTS
  MaxOutput = 2
  MaxInterrupts = 2
INVARIANTS NothingSurvives ExitStatusIsTrue OutputIsComplete
PROPERTY RunEnds
CHECK_DEADLOCK FALSE
