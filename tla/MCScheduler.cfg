SPECIFICATION Spec
CONSTANTS
  Jobs = {j1, j2}
  Specs = {"hourly"}
  Kinds = {"absent", "off", "malformed", "unparsable", "hourly"}
  Callers = {c1, c2}
  Callbacks = {f1}
  MaxRevision = 2
  NoEntry = none
SYMMETRY IdSymmetry
INVARIANTS
  TypeOK
  EngineMatchesRegistry
  RegistryFollowsList
  ErrorsAreCurrent
  HolderProgresses
CHECK_DEADLOCK FALSE
