SPECIFICATION Spec
CONSTANTS
  Scrapes = {s1, s2, s3}
  MaxRewrites = 2
SYMMETRY Symmetry
INVARIANTS
  ScrapeInv
  MTimeNotNewer
  ErrorsAdvance
