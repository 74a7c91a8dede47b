SPECIFICATION Spec
CONSTANTS
  Kinds = {"exec"}
  Pods <- MCPods
  Asked <- MCAsked
  Credits = 1
  MaxLines = 1
  MaxInput = 1
  NULL = NULL
INVARIANT EveryShellIsRecorded
CHECK_DEADLOCK FALSE
