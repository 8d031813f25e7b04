SPECIFICATION Spec
CONSTANTS
  b1 = b1
  b2 = b2
  pA = pA
  pF = pF
  Marker = Marker
  Torn = Torn
  NoPayload = NoPayload
  NoRecord = NoRecord
  Bytes <- OneByte
  Payloads <- OnePayload
  InitialStreams <- NewFiles
  Faults = {"write"}
  Habits = {"carry_on"}
  Announced = {0, 1}
  MaxChunk = 1
  SkipBuffer = 1
  MaxLen = 4
PROPERTIES AckedRecordsIntact
