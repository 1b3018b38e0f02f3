SPECIFICATION Spec
CONSTANTS
  Jobs = {j1}
  Installers = {reconciler, run}
  Reconciler = reconciler
  Temps = {t1, t2}
  MaxRevision = 2
  MaxWaiting = 1
  NoFile = noFile
SYMMETRY TempSymmetry
INVARIANTS
  NilMeansExact
  NoDoubleTrigger
  TriggersInvokeWholeWrapper
CHECK_DEADLOCK FALSE
