SPECIFICATION Spec
CONSTANTS
  Names = {t1}
  None = None
  MaxEdits = 1
  BadJSON = {1}
  URLs = {u1, u2, u3}
  MaxPages = 2
  Slots = {c1, c2}
SYMMETRY PaneSymmetry
INVARIANTS UrlsAccounted BusyEnds PreviewIsCurrent
