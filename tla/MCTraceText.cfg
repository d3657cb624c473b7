SPECIFICATION Spec
CONSTANTS
  MaxTurns = 1
  MaxItems = 1
  MaxRuns = 1
  Projections = {1}
  Failures = {}
  Boundaries = {TRUE, FALSE}
CHECK_DEADLOCK FALSE
INVARIANTS
  EventsReadBack
