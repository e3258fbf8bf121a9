SPECIFICATION FairSpec
CONSTANTS
  v = v
  w = w
  Raw = Raw
  None = None
  Callers = {c1, c2, c3}
  Contents <- MCContents
  Valid <- MCValid
  MaxChanges = 2
INVARIANTS
  TypeOK
  OneConfig
  ReportTruthful
  ExplicitFileUsed
  RefusedForGood
PROPERTIES
  CallsReturn
  PreparedStays
