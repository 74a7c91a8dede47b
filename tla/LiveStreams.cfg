SPECIFICATION FairSpec
CONSTANTS
  Kinds = {"logs", "exec"}
  Pods <- MCPods
  Asked <- MCAsked
  Credits = 1
  MaxLines = 2
  MaxInput = 2
  NULL = NULL
INVARIANTS
  OneTerminalFrame
  EndIsTheTruth
  NeverGuesses
  ShellsAreAccountedFor
PROPERTY NothingLeftBehind
\* The websocket may be closed and everything of it gone.
CHECK_DEADLOCK FALSE
