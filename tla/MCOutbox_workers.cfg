SPECIFICATION FairSpec
CONSTANTS
  Keys = {k1, k2}
  MaxEvents = 2
  Workers = {w1, w2}
  Retriers = {}
  NoWorker = NoWorker
  NoKey = NoKey
  MaxRetries = 2
  BatchSize = 1
  MaxRevivals = 0
  MaxFaults = 1
INVARIANTS CompletedWasHandled SingleOwner Recoverable
PROPERTIES CompletedStays EventuallySettled
