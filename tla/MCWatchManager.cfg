SPECIFICATION Spec
CONSTANTS
  Jobs = {j1, j2}
  Handles = {h1, h2}
  Callbacks = {f1}
  Planners = {p1}
  Mode = "event"
  MaxRevision = 1
  MaxChanges = 1
  MaxQueue = 1
  Faults = {"call", "overflow"}
  None = none
  Nil = nil
SYMMETRY IdSymmetry
INVARIANTS
  StoppedHandleIsSilent
  WatchSetConsistent
CHECK_DEADLOCK FALSE
