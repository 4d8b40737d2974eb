\* Two designers save the same template.
SPECIFICATION Spec
CONSTANTS
  Keys = {k1, k2}
  Savers = {s1, s2}
  Renders = {r1}
  Body = {}
  MaxSaves = 2
  Faults = {FALSE}
  Absent = Absent
  Empty = Empty
  Torn = Torn
INVARIANT SavedTemplateCompiles
