SPECIFICATION ArchiveFairSpec
CONSTANTS
  Keys = {k1}
  MaxEvents = 2
  Workers = {w1}
  Retriers = {}
  NoWorker = NoWorker
  NoKey = NoKey
  MaxRetries = 1
  BatchSize = 1
  MaxRevivals = 1
  MaxFaults = 1
  Janitors = {j1}
  Archivers = {a1}
  Cleaners = {c1}
  ArchiveBatch = 1
  RetentionAge = 1
INVARIANTS NothingLost ArchivedWasHandled
PROPERTIES ArchivalHappens
