SPECIFICATION Spec
CONSTANTS
  Files = {1, 2, 3, 4, 5}
  Roomodes = 1
  Releases = {1, 2}
  Policy <- ThePolicy
  Src <- TheSource
  Graveyard <- TheGraveyard
  TooFar = {}
  Scope <- TheScope
  Required = {4}
  MaxEdits = 1
  Modes = {2}
  MaxCommands = 3
  Absent = Absent
  None = None
  Idle = Idle
INVARIANTS UneditedIsQuiet
PROPERTIES KeepsUserText AroundBlockKept Converges CheckedAfterRun
CHECK_DEADLOCK FALSE
