SPECIFICATION TestsSpec
CONSTANTS
  Attempts = 2
  Padded <- MCPadded
  Identifiers <- MCIdentifiers
  Addresses <- MCAddresses
  Paths <- MCPaths
  Builds <- MCBuilds
  Intervals <- MCIntervals
INVARIANTS
  NoOrphans
  GoodExporterPasses
  BackgroundHonest
  SmokeVouches
  RenamedKeepsMetrics
  OneInterval
  VersionStable
PROPERTY
  TestsEnd
