\* Two templates, two texts of each, two requests in flight.
SPECIFICATION Spec
CONSTANTS
  Names = {n1, n2}
  None = None
  JobsURL = JobsURL
  MaxEdits = 1
  Slots = {c1, c2}
INVARIANTS SavedUnderOwnName CleanMeansSaved
PROPERTY WaitingLosesNothing
SYMMETRY NameSlotSymmetry
