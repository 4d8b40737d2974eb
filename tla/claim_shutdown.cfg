\* One job, one worker, an interrupt.
SPECIFICATION Spec
CONSTANTS
  Jobs = {1}
  MaxAttempts = 1
  Workers = {w1}
  Handlers = {}
  Readers = {}
  NudgeCap = 1
  MaxBoots = 2
  Faults = FALSE
INVARIANT ShutdownFailsNoJob
