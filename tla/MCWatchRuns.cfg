SPECIFICATION RunsSpec
CONSTANTS
  Jobs = {j1}
  Handles = {h1, h2}
  Callbacks = {f1}
  Planners = {p1}
  Mode = "poll"
  MaxRevision = 1
  MaxChanges = 1
  MaxQueue = 1
  Faults = {"call"}
  Policies = {"skip", "queue-latest"}
  Requests = {"other"}
  None = none
  Nil = nil
PROPERTIES
  ChangeIsServed
  CloseReturns
CHECK_DEADLOCK FALSE
