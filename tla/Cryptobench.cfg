SPECIFICATION Spec
CONSTANTS
  NsPerUs = 3
  UsPerMs = 2
  UsPerSec = 4
  UINT64_MAX = 2047
  Mega = 2
  TotalSize = 16
  LargestBlock = 8
  EcdhRounds = 50
  RsaRounds = 20
  Starts <- MCStarts
  Elapsed <- MCElapsed
  Steps <- MCSteps
INVARIANTS TablesWhole RatesTrue
