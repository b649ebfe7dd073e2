SPECIFICATION Spec
CHECK_DEADLOCK FALSE
CONSTANTS
  Conn = {c1, c2}
  Leaving = {c2}
  Handler = {h1, h2}
  Query <- Queries
  Broken <- UnknownApi
  Param = {p}
  State = {0, 1}
  Unknown = Unknown
  MaxWork = 6
  MaxFaults = 1
  MaxDepth = 1
  c1 = c1
  c2 = c2
  h1 = h1
  h2 = h2
  p = p
  nowhere = nowhere
INVARIANTS
  AnswerIsOwn
  AddsWhatWasShown
  ViewsCurrent
  OwnCloseIsSafe
PROPERTIES
  EveryMessageAnswered
