SPECIFICATION FairSpec
CONSTANTS
  UINT64_MAX = 63
  InitialCount = 2
  Sizes <- MCSizes
  Targets <- MCTargets
  SampleCounts <- MCSampleCounts
  Costs <- MCCosts
  Jitter = 3
INVARIANTS TypeOK RowsExact NeverOvershoots SteadyFillsTarget
PROPERTIES CalibrationReturns Implements
