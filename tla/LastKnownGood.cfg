SPECIFICATION Spec
CONSTANTS
  Keys = {k1, k2}
  Values = {v1, v2}
  Refreshers = {r1}
  Readers = {g1}
  None = None
  StaleAfter = 1
  MaxTime = 3
  MaxWrites = 3
SYMMETRY Symmetry
INVARIANTS
  ReadsTellTheLog
  FreshnessHonest
  EntriesInv
