\* Two Exchanges and everything that can happen to them.
SPECIFICATION Spec
CONSTANTS
  Roots = {d1, d2}
  Locks = {"registry", "repository"}
  NoLock = NoLock
  Errors = {e1, e2}
  Others = {"overflow", "reconfigure", "damage", "stop", "error", "probe_error", "backend"}
  Budget = 2
SYMMETRY Symmetry
INVARIANTS WorkRemembered
CHECK_DEADLOCK FALSE
