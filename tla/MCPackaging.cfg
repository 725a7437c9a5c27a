\* Two changes by others, and Ctrl-C, at any moments of one packing.
SPECIFICATION Spec
CONSTANTS
  Names = {1, 2}
  Entrypoint = 1
  Chunks = {old, new}
  Nothing = Nothing
  MaxChanges = 2
SYMMETRY Contents
INVARIANTS PackageIsReal OutcomeIsTrue
PROPERTIES ForeignFilesStay
CHECK_DEADLOCK FALSE
