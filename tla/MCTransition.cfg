CONSTANTS
  k1 = k1
  k2 = k2
  direct = direct
  hub = hub
  other = other
  t1 = t1
  t2 = t2
  t3 = t3
  t4 = t4
  Keys = {k1, k2}
  Tunnels = {t1, t2, t3, t4}
  Paths <- MCPaths
  segments <- MCSegments
  candidates <- MCDisjoint
  NoPath = NoPath
  NoKey = NoKey
  RetryCount = 1
  MaxTunnels = 4
  MaxApplied = 2
  SilentInstalls = FALSE
SPECIFICATION Spec
INVARIANTS
  TypeOK
  AppliedIsActive
  AppliedIsCarried
  MakeBeforeBreak
  SwitchToReadyPath
  NoOrphanTunnels
PROPERTIES
  OtherKeysKeepTunnels
  ImplementsTransaction
