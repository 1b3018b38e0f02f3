SPECIFICATION Spec
CONSTANTS
  Procs = {p1, p2}
  OldValue = v1
  Values = {v1, v2}
  MaxId = 2
  MaxRev = 2
  MaxAcks = 3
  FirstFiles <- NewAndLegacy
  NoFile = noFile
  NoJob = noJob
  NoProc = noProc
  Gone = gone
SYMMETRY ProcSymmetry
INVARIANTS
  TypeOK
  OneAckPerRevision
  NothingIsLost
CHECK_DEADLOCK FALSE
