---------------------------- MODULE MCMarkerScan -----------------------------
(* MarkerScan with the six bytes of the KCF marker, in streams put together *)
(* from whole markers, the beginnings of markers and other bytes.           *)
EXTENDS MarkerScan

CONSTANTS K, C, bang, sub, six, zero, x

MCByte == {K, C, bang, sub, six, zero, x}

MCMarker == <<K, C, bang, sub, six, zero>>

MCPieces == {SubSeq(MCMarker, 1, n) : n \in 1..6} \cup {<<x>>, <<zero>>}

MCContents ==
  {<<>>} \cup MCPieces
  \cup {p[1] \o p[2] : p \in MCPieces \X MCPieces}
  \cup {p[1] \o p[2] \o p[3] : p \in MCPieces \X MCPieces \X MCPieces}
MCReadFailures == {-1}

==============================================================================
