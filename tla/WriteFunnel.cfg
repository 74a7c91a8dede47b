SPECIFICATION Spec
CONSTANTS
  Write = {w1, w2}
  MaxVersion = 4
  Resends = 3
  NULL = NULL
SYMMETRY WriteSymmetry
INVARIANTS
  EveryEndIsRecorded
  TrailTellsTheTruth
  NoLostUpdate
  AppliedDiffIsTrue
\* The requests may all have ended.
CHECK_DEADLOCK FALSE
