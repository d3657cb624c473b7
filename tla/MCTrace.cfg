SPECIFICATION Spec
CONSTANTS
  MaxTurns = 2
  MaxItems = 3
  MaxRuns = 2
  Projections = {1, 2}
  Failures = {"NONE", "CUT", "UNENDED", "LINE"}
  Boundaries = {FALSE}
CHECK_DEADLOCK FALSE
INVARIANTS
  WriteAhead
  OnlyTheLastUntraced
  OneRunPerDirectory
