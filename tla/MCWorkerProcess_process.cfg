SPECIFICATION FairSpec
CONSTANTS
  Batches = {b1, b2}
  Events = {e1, e2}
  PLimit = 1
  FailureThreshold = 2
  HalfOpenMaxCalls = 1
INVARIANTS OpensAtThreshold HalfOpenAdmits NothingLeaks
PROPERTIES CircuitRecovers ShutdownDrains
CHECK_DEADLOCK FALSE
