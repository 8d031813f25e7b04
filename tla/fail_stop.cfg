SPECIFICATION Spec
CONSTANTS
  b1 = b1
  b2 = b2
  pA = pA
  pF = pF
  Marker = Marker
  Torn = Torn
  NoPayload = NoPayload
  NoRecord = NoRecord
  Bytes <- OneByte
  Payloads <- OnePayload
  InitialStreams <- MixedFiles
  Faults = {"read", "write", "seek", "flush", "alloc", "readonly"}
  Habits = {"abandon"}
  Announced = {0, 1}
  MaxChunk = 2
  SkipBuffer = 1
  MaxLen = 5
INVARIANTS TypeOK AckedRecordsComplete WholeUntilFailure
PROPERTIES AckedRecordsIntact ImplementsFallibleLog
