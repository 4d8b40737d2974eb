\* Two jobs, four ticks to the second, backoff of two seconds.
SPECIFICATION Spec
CONSTANTS
  Jobs = {j1, j2}
  Base = 2
  Digits = 2
  Seconds = 4
  MaxAttempts = 2
  Retention = 1
INVARIANTS DueIsRunnable
PROPERTIES FairToTheSecond BackoffToTheSecond RetentionToTheSecond
