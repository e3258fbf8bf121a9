SPECIFICATION Spec
CONSTANTS
  Keys = {k1, k2}
  Values = {v1}
  Callers = {c1, c2, c3}
  Absent = Absent
  TTLs = {0, 1}
  MaxTTL = 1
  MaxTime = 3
  MaxOps = 4
SYMMETRY Symmetry
INVARIANTS
  Accounted
PROPERTIES
  MapSpec
