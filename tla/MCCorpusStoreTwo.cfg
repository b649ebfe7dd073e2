SPECIFICATION Spec
CHECK_DEADLOCK FALSE
CONSTANTS
  Client = {p1, p2}
  File = {f1, f2}
  NoArchive = NoArchive
  MaxId = 1
  MaxRequests = 3
  MaxFaults = 0
SYMMETRY Symmetry
INVARIANTS
  NoOrphanMembers
  AddedIsThere
