SPECIFICATION Spec
CONSTANTS
  b1 = b1
  b2 = b2
  pA = pA
  pF = pF
  Marker = Marker
  Torn = Torn
  NoPayload = NoPayload
  NoRecord = NoRecord
  Bytes <- MCBytes
  Payloads <- TwoPayloads
  InitialStreams <- OneRecord
  Faults = {}
  Habits = {}
  Announced = {0}
  MaxChunk = 1
  SkipBuffer = 1
  MaxLen = 6
PROPERTIES SkipGoesToNextRecord
