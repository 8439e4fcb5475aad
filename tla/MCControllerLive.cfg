CONSTANTS
  k1 = k1
  direct = direct
  hub = hub
  t1 = t1
  t2 = t2
  Keys = {k1}
  Tunnels = {t1, t2}
  Paths <- MCPaths
  segments <- MCSegments
  candidates <- MCCandidates
  NoPath = NoPath
  NoKey = NoKey
  RetryCount = 0
  MaxTunnels = 2
  MaxApplied = 1
  SilentInstalls = FALSE
  NoHealth = NoHealth
  path <- MCPath
  node <- MCNode
  rank <- MCRank
  Enabled <- MCPaths
  Intents <- MCThresholds
  Rtts = {10}
  MaxStreak = 2
SPECIFICATION LoopSpec
PROPERTIES
  HoldsDown
  ToleratesFailures
  FailsOver
  FailsBack
