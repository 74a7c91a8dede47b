SPECIFICATION VSpec
CONSTANTS
  Call = {c1, c2, c3}
  ChainRetries = 1
  NULL = NULL
  Window = {2}
SYMMETRY CallSymmetry
INVARIANTS
  NoFalseAlarm
  ReportAccountsForEveryRow
  PassAttestsListing
  AlterationIsReported
  EditedRecordIsNotVouchedFor
  RenumberingIsNamed
  TrailStaysOpen
\* Every call and the verification may have returned.
CHECK_DEADLOCK FALSE
