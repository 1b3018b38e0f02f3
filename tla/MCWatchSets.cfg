SPECIFICATION Spec
CONSTANTS
  Jobs = {j1}
  Handles = {h1, h2}
  Callbacks = {f1}
  Planners = {p1}
  Mode = "event"
  MaxRevision = 1
  MaxChanges = 0
  MaxQueue = 1
  Faults = {}
  None = none
  Nil = nil
INVARIANTS
  CompleteWatcherSets
CHECK_DEADLOCK FALSE
