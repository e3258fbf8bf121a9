SPECIFICATION Spec
CONSTANTS
  Unset = Unset
  Empty = Empty
  Malformed = Malformed
  Segments <- MCSegments
  MaxSegments = 3
INVARIANTS
  MetricsServed
  RoutesInv
