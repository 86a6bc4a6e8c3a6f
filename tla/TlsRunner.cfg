SPECIFICATION FairSpec
CONSTANTS
  UINT64_MAX = 63
  Targets <- MCTargets
  SampleCounts = {2}
  Costs <- MCCosts
  Jitter = 2
  TransferSizes = {5}
  HandshakeCount = 1
  TransferCount = 4
INVARIANTS TlsRowsExact TlsNeverOvershoots
PROPERTIES TlsCalibrationReturns TlsImplements
