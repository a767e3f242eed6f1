SPECIFICATION LiveSpec
CONSTANTS
  Strategies = {"predicate", "raw", "key_range"}
  Row <- MCRow
  Key <- MCKey
  Where <- MCTwo
  InitialRows = 1
  MinRows = 1
  MaxRows = 4
  EscalationCap = 2
  RCSI = FALSE
  Est = 3
  SmallTable = 5
  UnknownTable = 7
  SelfWait = 2
  LogDrain = 2
  MaxEdits = 1
  MaxRekeys = 1
  MaxStops = 1
  MaxTouches = 1
  MaxCrashes = 1
INVARIANT NothingSkipped
INVARIANT AppliedOnce
INVARIANT ResumePointKept
PROPERTY RunEnds
