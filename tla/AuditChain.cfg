SPECIFICATION FairSpec
CONSTANTS
  Call = {c1, c2, c3}
  ChainRetries = 2
  NULL = NULL
INVARIANTS
  WalkFindsNoBreak
  OneRowPerCall
  UnchainedOnlyUnderContention
PROPERTIES
  VisibleInIdOrder
  ImplementsTrail
  EveryCallReturns
\* Every call may have returned: that is the end, not a deadlock.
CHECK_DEADLOCK FALSE
