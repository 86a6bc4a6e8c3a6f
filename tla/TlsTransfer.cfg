SPECIFICATION FairSpec
CONSTANTS
  Sizes <- MCSizes
  RecordSize = 3
  MaxFragment = 3
  Overhead = 1
  Capacity = 4
  Period = 2
  MaxIterations = 2
  MaxBatches = 2
INVARIANTS TypeOK NeverFails Delivered ChannelExact
PROPERTIES BatchReturns
