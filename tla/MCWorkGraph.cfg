SPECIFICATION FairSpec
CONSTANTS
  WorkIds = {1, 2, 3, 4}
INVARIANTS
  Verdict
  WavesFollowPasses
  SkippedExactly
PROPERTIES
  Settles
  WalkAdvances
