SPECIFICATION TlsSpec
CONSTANTS
  UINT64_MAX = 255
  Numeral <- MCNumeral
  ArgLists <- MCArgLists
  WordOptions <- MCWordOptions
  NumberOptions <- MCNumberOptions
  Least <- MCLeast
  Largest <- MCLargest
  Unit <- MCUnit
  Values <- MCValues
  Defaults <- MCDefaults
  Ciphers <- MCCiphers
  DefaultSizes <- MCSizes
INVARIANTS OptionsExact TlsStatusHonest MatchedExact
