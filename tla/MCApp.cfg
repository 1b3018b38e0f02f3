SPECIFICATION Spec
CONSTANTS
  Runs = {r1, r2}
  Jobs = {j1, j2}
  Seed = {j1}
  Requests = {q1, q2}
  Subscribers = {s1}
  MaxRuns = 1
  EventsPerRun = 2
  ChannelSlack = 1
  HistKeep = 1
  MaxRevision = 3
  MaxLogID = 3
  MaxRestarts = 1
  NoRun = NoRun
  NoJob = NoJob
SYMMETRY IdSymmetry
INVARIANTS
  TypeOK
  DeleteIsClean
  ExitLeavesNothing
  ResumeIsSeamless
PROPERTY SwitchIsExact
CHECK_DEADLOCK FALSE
