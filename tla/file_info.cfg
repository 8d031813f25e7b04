SPECIFICATION Spec
CONSTANTS
  k1 = k1
  k2 = k2
  k3 = k3
  TwoTo16 = 64
  TwoTo32 = 16
  FlagSets <- MCFlagSets
  UnpackedSizes <- MCUnpackedSizes
  NameSizes <- MCNameSizes
  Values = {7}
  Versions = {1}
  Blocks <- MCBlocks
  NULL = NULL
SYMMETRY BlocksAlike
INVARIANTS TypeOK InfoReadBack DataTiled ReadAsFilled BlocksOwned
CHECK_DEADLOCK FALSE
