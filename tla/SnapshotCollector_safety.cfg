SPECIFICATION Spec
CONSTANTS
  Scrapes = {s1, s2}
  Loops = {l1, l2}
  Nobody = Nobody
  RefreshInterval = 1
  Bounds = {0}
  OwnStamps = FALSE
  SyncTimeout = FALSE
  MaxTime = 3
SYMMETRY Symmetry
INVARIANTS
  SingleFlight
  NoLostWakeup
  OneLoop
  RepliesWhole
PROPERTIES
  StampsSettle
