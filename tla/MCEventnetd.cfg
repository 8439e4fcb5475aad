CONSTANTS
  direct = direct
  hub = hub
  NoPath = NoPath
  NoHealth = NoHealth
  NoConfig = NoConfig
  Paths <- MCPaths
  node <- MCNode
  rank <- MCRank
  path <- MCPath
  Configs <- MCConfigs
  Lines <- MCLines
  Intent <- MCIntent
  Modes = {"file", "socket", "gathered", "reload", "sighup"}
  Count = 0
  BatchSize = 2
  RetryBudget = 1
SPECIFICATION ServedSpec
INVARIANT FileNamesActive
PROPERTIES
  NeverForwardsToDisabled
  StreamKeepsHealthyPath
  TermStops
