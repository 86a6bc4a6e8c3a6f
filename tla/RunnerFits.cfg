SPECIFICATION Spec
CONSTANTS
  UINT64_MAX = 63
  InitialCount = 2
  Sizes = {0}
  Targets <- MCTargets
  SampleCounts = {1}
  Costs <- MCCosts
  Jitter = 0
INVARIANTS SampleFitsTarget
