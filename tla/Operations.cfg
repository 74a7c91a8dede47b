SPECIFICATION Spec
CONSTANTS
  NULL = NULL
  UNREAD = UNREAD
  Parts = {"handshake", "drain", "route", "install", "page"}
  Writers = {"expand", "snapshot", "csr", "taints", "labels", "psa", "hpa", "grant", "namespace", "subscribe"}
  MaxMoves = 2
  Gaps = FALSE
  PodSets <- MCPodSets
  Newcomers <- MCNewcomers
  Installs = {"router", "olm", "project"}
  Group = {"core", "builtin", "operators", "aggregated"}
  CoreGroup = "core"
  Page = {"catalog", "installed", "package", "routes", "capabilities", "route", "router", "olm", "overview"}
  MaxDrift <- MCDrift
  MaxEvents = 2
INVARIANTS
  WhatLandsWasAccepted
  UnreadIsNeverSafe
  DrainTellsTheTruth
  
  InstallTellsTheTruth
  PagesTellTheTruth
CHECK_DEADLOCK FALSE
