SPECIFICATION RegistrySpec
CONSTANTS
  app = app
  cli = cli
  a1 = a1
  a2 = a2
  c1 = c1
  Procs = {app, cli}
  Tasks = {a1, a2, c1}
  Shells = {c1}
  ProcOf <- MCProcOf
  Models <- MCModels
  Ggufs = {"single", "part"}
  Shard <- MCShard
  Weight <- MCWeight
  Blobs <- MCBlobs
  Starts <- MCStarts
  Candidates = 1
  MaxCalls = 2
  MaxOutside = 1
  NoTask = NoTask
  NoEntry = NoEntry
  NoFile = NoFile
  AnyFile = AnyFile
PROPERTIES
  ListIsDisk
  ChoiceKept
  AnsweredCallsEnd
CHECK_DEADLOCK FALSE
