SPECIFICATION Spec
CHECK_DEADLOCK FALSE
CONSTANTS
  Process = {server, cli}
  Thread <- Threads
  ProcessOf <- Owner
  Tables = 3
  LogNames <- LevelAndPath
  PathName = path
  RootName = storage
  Value = {d, v}
  Default = d
  NoRow = NoRow
  MaxFaults = 1
  MaxStops = 1
  MaxCalls = 2
  server = server
  cli = cli
  s1 = s1
  s2 = s2
  c1 = c1
  level = level
  path = path
  storage = storage
  d = d
  v = v
INVARIANTS
  NeverHalfMade
  SavedAtRest
PROPERTIES
  StartEnds
