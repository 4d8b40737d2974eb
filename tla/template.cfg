\* One designer at a time, with faults and without.
SPECIFICATION Spec
CONSTANTS
  Keys = {k1, k2}
  Savers = {s1}
  Renders = {r1}
  Body = {}
  MaxSaves = 3
  Faults = {TRUE, FALSE}
  Absent = Absent
  Empty = Empty
  Torn = Torn
PROPERTIES ImplementsRegister
INVARIANTS UndisturbedRenderSucceeds SavedTemplateCompiles NeverTorn UndisturbedStamp
