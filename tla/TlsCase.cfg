SPECIFICATION TlsSpec
CONSTANTS
  INT_MAX = 4
  TransferSizes = {1, 5}
  Ciphers = {c1, c2}
  MaxBatches = 3
  MaxIterations = 2
  c1 = c1
  c2 = c2
INVARIANTS TlsTypeOK TlsMemorySafe
PROPERTIES TlsImplements
