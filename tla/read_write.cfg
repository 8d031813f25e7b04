SPECIFICATION FairSpec
CONSTANTS
  b1 = b1
  b2 = b2
  pA = pA
  pF = pF
  Marker = Marker
  Torn = Torn
  NoPayload = NoPayload
  NoRecord = NoRecord
  Bytes <- OneByte
  Payloads <- OnePayload
  InitialStreams <- MixedFiles
  Faults = {"read", "flush", "readonly"}
  Habits = {"implicit_end", "carry_on"}
  Announced = {0, 1}
  MaxChunk = 2
  SkipBuffer = 1
  MaxLen = 4
INVARIANTS ArchiveWellFormed WriterInSync ReaderInSync ChecksumsAgree SkipOnTrack
PROPERTIES ImplementsLog SkipTerminates FailedReadIsFinal RefusedCallsChangeNothing
