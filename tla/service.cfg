\* Two workers, a synchronous handler, a reader, two jobs, three lives, faults.
SPECIFICATION Spec
CONSTANTS
  Jobs = {1, 2}
  MaxAttempts = 2
  Workers = {w1, w2}
  Handlers = {h1}
  Readers = {r1}
  NudgeCap = 1
  MaxBoots = 3
  Faults = TRUE
SYMMETRY WorkerSymmetry
INVARIANTS IInv NoDoubleRender WorkerOwnsRow ArtifactMatchesRow AttemptBound ServedMatchesDigest GoneOnlyAfterPurge
PROPERTIES TerminalIsFinal PromisedArtifactKept ImplementsLifecycle ImplementsListing
