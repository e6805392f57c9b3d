SPECIFICATION Spec
CONSTANTS
  Keys = {k1}
  MaxEvents = 1
  Workers = {w1, w2}
  Retriers = {r1, r2}
  NoWorker = NoWorker
  NoKey = NoKey
  MaxRetries = 2
  BatchSize = 1
  MaxRevivals = 2
  MaxFaults = 1
INVARIANTS FailedExhausted
PROPERTIES KeepsPromise
