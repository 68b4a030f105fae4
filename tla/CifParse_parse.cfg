SPECIFICATION Spec
CONSTANTS
  Code = {b}
  ValidCode = {b}
  Name = {x, y, z}
  ValidName = {x, y}
  Anonymous = anonymous
  NoPath = no_path
  NoName = no_name
  FrameDepths = {0, 1, 2}
  SkippedSkips = FALSE
  Budget = 6
  MaxColumns = 2
INVARIANTS SkipDepthExact PacketsAreCurrent EmptyLoopsPruned
PROPERTIES EndsWereStarted SkippedNotStored ParseReturns
