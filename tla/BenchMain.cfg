SPECIFICATION Spec
CONSTANTS
  UINT64_MAX = 255
  Numeral <- MCNumeral
  ArgLists <- MCArgLists
  WordOptions <- MCWordOptions
  NumberOptions <- MCNumberOptions
  Least <- MCLeast
  Largest <- MCLargest
  Unit <- MCUnit
  Values <- MCValues
  Defaults <- MCDefaults
  Algorithms <- MCAlgorithms
  DefaultSizes <- MCSizes
  INT_MAX = 7
INVARIANTS OptionsExact StatusHonest CasesSound
