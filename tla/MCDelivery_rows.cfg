SPECIFICATION FairSpec
CONSTANTS
  Drivers = {d1}
  NoDriver = NoDriver
  Calls = {c1, c2}
  Monitors = {m1, m2}
  OTP_MAX_ATTEMPTS = 1
  MaxAssignments = 1
  MaxCalls = 2
  MaxFaults = 1
INVARIANTS StatusAnnounced DeliveredHasProof
PROPERTIES BreachIsMarked
