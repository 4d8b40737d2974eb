SPECIFICATION Spec
CONSTANTS
  Positions = {200, 403, 900}
  Kept = {0, 20, 75}
  MaxLines = 2
  Width = 2
  Places <- SomePlaces
INVARIANT CaretInText
PROPERTY ZoomMoves
