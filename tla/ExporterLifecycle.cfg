SPECIFICATION FairSpec
CONSTANTS
  a = a
  b = b
  Base = Base
  Nil = Nil
  Collectors <- MCCollectors
  Plans <- MCPlans
  Requests = {r1}
INVARIANTS
  LifecycleInv
  WholeBatches
  LoopsMatchRegistry
PROPERTIES
  CancelReturns
  NothingLeaks
