SPECIFICATION HealthSpec
CONSTANTS
  Paths = {p1}
  Kinds = {"measure", "tunnel", "route", "interface"}
  Rtts = {5}
  Vlan = TRUE
  BatchSize = 2
  MaxAge = 1
  MaxTime = 2
  MaxStreak = 2
  MaxSent = 3
INVARIANT LatestWins
INVARIANT AsNewAsApplied
INVARIANT ObservedHealthyNeedsBoth
