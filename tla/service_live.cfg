\* Two workers, two jobs, two lives, no faults, fairness: progress and retention.
SPECIFICATION LiveSpec
CONSTANTS
  Jobs = {1, 2}
  MaxAttempts = 2
  Workers = {w1, w2}
  Handlers = {}
  Readers = {}
  NudgeCap = 1
  MaxBoots = 2
  Faults = FALSE
INVARIANTS RetentionTakesTheFile NewJobIsSeen
PROPERTIES EveryJobSettles ShutdownCompletes LostOnlyToConflict
