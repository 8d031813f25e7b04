SPECIFICATION Spec
CONSTANTS
  TwoTo16 = 65536
  TwoTo31 = 16
  TwoTo32 = 32
  DataSizes <- MCDataSizes
  AddedSizes <- MCAddedSizes
  ChunkSizes <- MCChunkSizes
  MaxWritten = 34
INVARIANTS TypeOK HeadersValidate SizesReadBack
PROPERTIES BackpatchFits OverrunsAtOnce
CHECK_DEADLOCK FALSE
