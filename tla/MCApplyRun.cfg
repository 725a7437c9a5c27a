SPECIFICATION ApplySpec
CONSTANTS
  MaxOutput = 1
  MaxInterrupts = 1
  MaxWaits = 1
  MaxMoves = 1
  None = None
INVARIANTS GroupUnderLock NoLeftover SuccessIsEarned PinCoversResult ReportIsTrue ReportsAreRead
PROPERTIES ForeignKept RequestEnds KeepsRequestContract
CHECK_DEADLOCK FALSE
