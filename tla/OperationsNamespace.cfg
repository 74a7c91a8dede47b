SPECIFICATION Spec
CONSTANTS
  NULL = NULL
  UNREAD = UNREAD
  Parts = {"handshake"}
  Writers = {"namespace"}
  MaxMoves = 0
  Gaps = TRUE
  PodSets <- MCPodSets
  Newcomers <- MCNewcomers
  Installs = {}
  Group = {"core", "builtin", "operators", "aggregated"}
  CoreGroup = "core"
  Page = {"catalog", "installed", "package", "routes", "capabilities", "route", "router", "olm", "overview"}
  MaxDrift <- MCDrift
  MaxEvents = 0
INVARIANTS
  UnreadIsNeverSafe
CHECK_DEADLOCK FALSE
