\* Archives of up to four members; two changes by others at any moments of one Apply.
SPECIFICATION Spec
CONSTANTS
  Names = {"patch.json", "META", "env", "chat", "run", "a", "c", "d", "D", "bad"}
  Folded <- FoldedNames
  Unsafe = {"bad"}
  PatchJson = "patch.json"
  HandoffName = "META"
  Handoff = {"env", "chat"}
  Context = {"this", "that"}
  Nothing = Nothing
  MaxEntries = 4
  MaxEntry = 2
  MaxTotal = 4
  Packages <- Archives
  Targets <- Where
  Trees <- Forest
  Ignored = {}
  MaxChanges = 2
INVARIANTS ReadsExactly OutcomeIsTrue
PROPERTIES ReplacesWhatItSaw
CHECK_DEADLOCK FALSE
