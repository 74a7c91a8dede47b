SPECIFICATION Spec
CONSTANTS
  Write = {w1, w2}
  MaxVersion = 4
  Resends = 3
  NULL = NULL
INVARIANT ScaleRecordsWhatItReplaced
\* The requests may all have ended.
CHECK_DEADLOCK FALSE
