SPECIFICATION Spec
CHECK_DEADLOCK FALSE
CONSTANTS
  Handler = {h1, h2}
  Path = {a, b, c}
  Default = a
  File = {f1, f2}
  Dir = {d}
  DirOf <- OneFolder
  MaxRequests = 3
  MaxFaults = 1
  h1 = h1
  h2 = h2
  a = a
  b = b
  c = c
  d = d
  f1 = f1
  f2 = f2
INVARIANTS
  RootHoldsFiles
  ServesRoot
PROPERTIES
  FilesStay
  AtomicRootSpec
  RestartEnds
