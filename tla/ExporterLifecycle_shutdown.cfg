SPECIFICATION Spec
CONSTANTS
  a = a
  b = b
  Base = Base
  Nil = Nil
  Collectors <- MCCollectors
  Plans <- OneFeature
  Requests = {r1}
INVARIANT
  CleanShutdown
