SPECIFICATION FairSpec
CONSTANTS
  TwoTo31 = 4
  TwoTo32 = 8
  CHUNK_SIZE = 2
  Lengths <- MCLengths
  Sizes <- MCSizes
  Offsets <- MCOffsets
  MaxLen = 9
INVARIANTS TypeOK
PROPERTIES ChunkedIsWhole ImplementsByteStream TransferReturns
CHECK_DEADLOCK FALSE
