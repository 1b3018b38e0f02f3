SPECIFICATION Spec
CONSTANTS
  Runs = {r1, r2, r3}
  Jobs = {j1}
  Subscribers = {}
  MaxRuns = 1
  ChannelSlack = 1
  MaxLogs = 0
  EventsPerRun = 0
  Outcomes = {"succeeded"}
  NoRun = NoRun
  NoJob = NoJob
SYMMETRY IdSymmetry
INVARIANTS
  TypeOK
  ExclusiveExecution
  SlotsOwned
  OneTicketPerTerminalRun
  HistoryInTerminalOrder
PROPERTIES
  TerminalIsFinal
  ImplementsLifecycle
