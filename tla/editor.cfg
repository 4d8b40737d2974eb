SPECIFICATION Spec
CONSTANTS
  Plain = {name}
  Methods = {keys}
  Hyphenated = {dashed}
  PageKey = page
  Fields = {paper, margin_cm}
  MaxRefs = 2
PROPERTIES  ControlsKeep
