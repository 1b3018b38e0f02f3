SPECIFICATION FairSpec
CONSTANTS
  Kids = {k1}
  Leader = leader
  HasTimeout = TRUE
  MaxStops = 1
  CanEscape = TRUE
  CallsCanFail = TRUE
INVARIANTS
  TypeOK
  NoKnownSurvivor
  StatusNamesStrongestReason
PROPERTIES
  SignalsWhileOwned
  TerminationCompletes
CHECK_DEADLOCK FALSE
