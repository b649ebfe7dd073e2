SPECIFICATION Spec
CHECK_DEADLOCK FALSE
CONSTANTS
  Worker = {w1, w2}
  Api = {a, b}
  WithHeaders = {a}
  Nowhere = nowhere
  MaxCalls = 3
  Exporter = {e1, e2, e3}
  HostOf <- MCHosts
  Corpus = {x, y}
  FilesOf <- MCFiles
  Absent = absent
  Blank = blank
  MaxExports = 3
  MaxFaults = 1
  e1 = e1
  e2 = e2
  e3 = e3
  server = server
  cli = cli
  x = x
  y = y
  f = f
  g = g
INVARIANTS
  
  NothingStaleSent
  AloneIsComplete
  FilesAreOwn
  NoCsvLeft
