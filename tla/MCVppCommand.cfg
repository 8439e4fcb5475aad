SPECIFICATION VppSpec
CONSTANTS
  Paths <- MCPaths
  NoPath = "nopath"
  Keys <- MCKeys
  Candidates <- MCCandidates
  Routes <- MCRoutes
  Gres <- MCGres
  Edges <- MCEdges
  RoutesOf <- MCRoutesOf
  GresOf <- MCGresOf
  EdgesOf <- MCEdgesOf
  TableOf <- MCTableOf
  Dest <- MCDest
  Via <- MCVia
  NoGre = "none"
  VlanRefused = {"e3"}
  HasVlan = TRUE
  Deny = FALSE
  Verify = TRUE
  RetryCount = 1
  MaxFaults = 2
INVARIANTS
  AppliedForwards
  NothingLeft
  OneFailureRestores
  CleanSwitchCompletes
PROPERTIES
  InstallKeepsTunnels
