SPECIFICATION Spec
CHECK_DEADLOCK FALSE
CONSTANTS
  Client = {p1}
  File = {f1, f2}
  NoArchive = NoArchive
  MaxId = 2
  MaxRequests = 5
  MaxFaults = 2
SYMMETRY Symmetry
INVARIANTS
  CurrentUntilFailure
  NoOrphanUntilFailure
  DeleteDeletes
PROPERTIES
  ListsEndWell
