SPECIFICATION Spec
CONSTANTS
  NULL = NULL
  UNREAD = UNREAD
  Parts = {"install"}
  Writers = {}
  MaxMoves = 0
  Gaps = FALSE
  PodSets <- MCPodSets
  Newcomers <- MCNewcomers
  Installs = {"router"}
  Group = {"core", "builtin", "operators", "aggregated"}
  CoreGroup = "core"
  Page = {"catalog", "installed", "package", "routes", "capabilities", "route", "router", "olm", "overview"}
  MaxDrift <- MCDrift
  MaxEvents = 1
INVARIANTS
  UninstalledMeansGone
CHECK_DEADLOCK FALSE
