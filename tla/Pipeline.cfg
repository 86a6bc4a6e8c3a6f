SPECIFICATION FairSpec
CONSTANTS
  Architectures <- MCArchitectures
  Cases <- MCCases
  Samples = 3
  Readings <- MCReadings
  Paths <- MCPaths
  FullDisks <- MCFullDisks
INVARIANTS NothingPartial OneRunPerCell RatiosWithinArchitecture
PROPERTIES WorkflowEnds PublishedWhole
