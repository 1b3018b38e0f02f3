SPECIFICATION FairSpec
CONSTANTS
  Runs = {r1, r2}
  Jobs = {j1}
  Subscribers = {}
  MaxRuns = 1
  EventsPerRun = 0
  ChannelSlack = 0
  MaxLogs = 1
  Outcomes = {"failed"}
  NoRun = NoRun
  NoJob = NoJob
INVARIANT
  LogsDrainedWhenTerminal
PROPERTIES
  StopTakesEffect
  HistoryDrains
  AcceptedRunsFinish
