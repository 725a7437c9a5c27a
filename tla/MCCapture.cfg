\* Three changes at any moments of a read-only or bundle capture, a link in an ignored directory.
SPECIFICATION Spec
CONSTANTS
  Paths = {1, 2, 3}
  Blobs = {"a", "a2", "b"}
  Nothing = Nothing
  Ignored = {3}
  Converted = {2}
  Clean <- CleanBlob
  MaxChanges = 3
  Starts <- Beginnings
  Files <- UserFiles
  Nested = {3}
  Empty = "b"
  Kinds = {"live", "readonly"}
INVARIANTS ContextIsReal BundleIsReal
CHECK_DEADLOCK FALSE
