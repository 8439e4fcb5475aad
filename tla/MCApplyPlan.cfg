SPECIFICATION PlanSpec
CONSTANTS
  Paths <- MCPaths
  NoPath = "nopath"
  Gres <- MCGres
  SegmentsOf <- MCSegmentsOf
  RoutesOf <- MCRoutesOf
  OwnEgress <- MCOwnEgress
  SelectorOf <- MCSelectorOf
  NoSelector = "noselector"
  NoTunnel = "notunnel"
  IntentLists <- MCIntentLists
  MaxFaults = 2
CHECK_DEADLOCK FALSE
INVARIANTS
  CompletedInPlace
  UndoneLeavesNothing
  ScriptTakenBack
  RouteIsCarried
