SPECIFICATION Spec
CONSTANTS
  Keys = {k1, k2}
  NoKey = NoKey
  Renders = {k1}
  Slots = {c1, c2}
INVARIANTS PromptUnlessCancelled LoadingEnds
PROPERTIES NoRegress CatchesUp
