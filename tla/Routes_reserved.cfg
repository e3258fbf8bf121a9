SPECIFICATION Spec
CONSTANTS
  Unset = Unset
  Empty = Empty
  Malformed = Malformed
  Segments <- MCSegments
  MaxSegments = 2
INVARIANT
  ReservedRefused
