SPECIFICATION FairSpec
CONSTANTS
  K = K
  C = C
  bang = bang
  sub = sub
  six = six
  zero = zero
  x = x
  Byte <- MCByte
  Zero = zero
  MarkerBytes <- MCMarker
  Contents <- MCContents
  ReadFailures <- MCReadFailures
INVARIANTS ScanInv FoundIsFirst NothingMissed
PROPERTIES ScanEnds ImplementsSearch
CHECK_DEADLOCK FALSE
