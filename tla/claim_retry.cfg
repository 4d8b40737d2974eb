\* Two workers, one life, no faults: the idle worker's Claim takes the write lock.
SPECIFICATION Spec
CONSTANTS
  Jobs = {1, 2}
  MaxAttempts = 2
  Workers = {w1, w2}
  Handlers = {}
  Readers = {}
  NudgeCap = 1
  MaxBoots = 1
  Faults = FALSE
INVARIANT FailuresAreRecorded
