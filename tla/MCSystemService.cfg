SPECIFICATION SystemSpec
CONSTANTS
  CronFiles = {f1}
  Units = {u1}
  Pids = {p1}
  Defs = {d1, d2}
  Whole = whole
  Calls = {q1, q2, q3, q4}
SYMMETRY IdSymmetry
INVARIANTS
  DefinitionsSurvive
CHECK_DEADLOCK FALSE
