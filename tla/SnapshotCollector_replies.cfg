SPECIFICATION HangingSpec
CONSTANTS
  Scrapes = {s1, s2}
  Loops = {l1}
  Nobody = Nobody
  RefreshInterval = 2
  Bounds = {}
  OwnStamps = TRUE
  SyncTimeout = TRUE
  MaxTime = 3
INVARIANTS
  CollectorInv
  FreshWithoutLoop
PROPERTIES
  RegisterSpec
  TimeoutReleasesScrapes
  CancelledLoopsStop
