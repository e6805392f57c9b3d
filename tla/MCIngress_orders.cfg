SPECIFICATION Spec
CONSTANTS
  Requests = {r1, r2}
  Events = {e1}
  Drivers = {d1}
  Seed = 20
  StatsRows <- MCStats
  NoStats = NoStats
  MaxArrivals = 2
  MaxOrders = 2
  Posts = {p1, p2}
  Configs <- MCConfigs
INVARIANTS OffersMatchClaims ScoringNeedsZeroThreshold ReplayIsReal
CHECK_DEADLOCK FALSE
SYMMETRY MCSymmetry
