\* One Exchange; every change is dealt with, a stop ends the watcher, and it comes to rest.
SPECIFICATION FairSpec
CONSTANTS
  Roots = {d1}
  Locks = {"registry", "repository"}
  NoLock = NoLock
  Errors = {e1}
  Others = {"overflow", "reconfigure", "damage", "stop", "error", "probe_error", "backend"}
  Budget = 3
PROPERTIES WorkDone StopEnds Settles
CHECK_DEADLOCK FALSE
