-------------------------- MODULE MarkerScan_proofs --------------------------
(***************************************************************************)
(* KCF_find_marker finds the first marker, whatever the marker, as long as  *)
(* it does not begin with the byte that fills the window, and whatever the  *)
(* stream.                                                                  *)
(***************************************************************************)
EXTENDS MarkerScan, TLAPS

LEMMA WidthType == Width \in Nat \ {0}
BY ScanConstantsOK DEF Width

(* Where the marker is does not depend on the scan.                         *)
LEMMA EndsAtStays ==
  ASSUME stream' = stream, start' = start
  PROVE  \A p : EndsAt(p)' <=> EndsAt(p)
BY DEF EndsAt

(* The window matches exactly if the marker ends at the position: a byte of *)
(* the filling that is still there is first in the window.                  *)
LEMMA MatchIsMarker ==
  ASSUME TypeOK, Window
  PROVE  buf = MarkerBytes <=> EndsAt(pos)
<1>1. /\ Width \in Nat /\ 1 \in 1..Width /\ start \in Nat /\ pos \in Nat
      /\ DOMAIN MarkerBytes = 1..Width
  BY WidthType, ScanConstantsOK DEF TypeOK, Width
<1>2. ASSUME buf = MarkerBytes PROVE EndsAt(pos)
  <2>1. pos - Width + 1 > start
    BY <1>1, <1>2, MarkerStartsNonzero DEF Window
  <2>2. \A i \in 1..Width : pos - Width + i > start
    BY <1>1, <2>1
  <2> QED
    BY <1>1, <1>2, <2>1, <2>2 DEF EndsAt, Window
<1>3. ASSUME EndsAt(pos) PROVE buf = MarkerBytes
  <2>1. \A i \in 1..Width : pos - Width + i > start
    BY <1>1, <1>3 DEF EndsAt
  <2>2. \A i \in 1..Width : buf[i] = MarkerBytes[i]
    BY <1>3, <2>1 DEF EndsAt, Window
  <2>3. buf \in [1..Width -> Byte] /\ MarkerBytes \in [1..Width -> Byte]
    BY ScanConstantsOK DEF TypeOK, Width
  <2> DEFINE S == 1..Width
  <2>4. buf \in [S -> Byte] /\ MarkerBytes \in [S -> Byte] /\ \A i \in S : buf[i] = MarkerBytes[i]
    BY <2>2, <2>3
  <2> HIDE DEF S
  <2> QED
    BY <2>4
<1> QED
  BY <1>2, <1>3

LEMMA ScanInit == Init => ScanInv
<1> SUFFICES ASSUME Init PROVE ScanInv
  OBVIOUS
<1>1. stream \in Seq(Byte) /\ Len(stream) \in Nat /\ start \in 0..Len(stream) /\ pos = start
  BY ScanConstantsOK DEF Init
<1>2. TypeOK
  BY <1>1, ScanConstantsOK DEF Init, TypeOK, EmptyWindow
<1>3. Window
  BY <1>1, WidthType DEF Init, Window, EmptyWindow
<1> QED
  BY <1>1, <1>2, <1>3 DEF Init, ScanInv, FoundIsFirst, NothingMissed

LEMMA ScanNext == ScanInv /\ [Next]_vars => ScanInv'
<1> SUFFICES ASSUME ScanInv, [Next]_vars PROVE ScanInv'
  OBVIOUS
<1>1. /\ TypeOK /\ Width \in Nat \ {0} /\ start \in Nat /\ pos \in Nat /\ Len(stream) \in Nat
      /\ start <= pos /\ pos <= Len(stream)
  BY WidthType DEF ScanInv, TypeOK
<1>2. ASSUME result = "none", Match PROVE ScanInv'
  <2>1. Window /\ \A p \in start..(pos - 1) : ~EndsAt(p)
    BY <1>2 DEF ScanInv
  <2>2. EndsAt(pos)
    BY <1>1, <1>2, <2>1, MatchIsMarker DEF Match
  <2> QED
    BY <1>1, <1>2, <2>1, <2>2 DEF Match, ScanInv, TypeOK, FoundIsFirst, NothingMissed, EndsAt
<1>3. ASSUME result = "none", Slide PROVE ScanInv'
  <2>1. Window /\ ~EndsAt(pos) /\ \A p \in start..(pos - 1) : ~EndsAt(p)
    BY <1>1, <1>3, MatchIsMarker DEF ScanInv, Slide
  <2>2. stream[pos + 1] \in Byte /\ pos + 1 \in start..Len(stream)
    BY <1>1, <1>3 DEF Slide, TypeOK
  <2>3. TypeOK'
    BY <1>1, <1>3, <2>2 DEF Slide, TypeOK, Shifted
  <2>4. Window'
    <3> SUFFICES ASSUME NEW i \in 1..Width
                 PROVE  buf'[i] = IF pos' - Width + i > start' THEN stream'[pos' - Width + i] ELSE Zero
      BY DEF Window
    <3>1. CASE i < Width
      <4>1. buf'[i] = buf[i + 1] /\ i + 1 \in 1..Width
        BY <1>1, <1>3, <3>1 DEF Slide, Shifted
      <4>2. pos - Width + (i + 1) = pos' - Width + i
        BY <1>1, <1>3 DEF Slide
      <4> QED
        BY <1>3, <2>1, <4>1, <4>2 DEF Window, Slide
    <3>2. CASE i = Width
      <4>1. buf'[i] = stream[pos + 1] /\ pos' - Width + i = pos + 1
        BY <1>1, <1>3, <3>2 DEF Slide, Shifted
      <4> QED
        BY <1>1, <1>3, <4>1 DEF Slide
    <3> QED
      BY <1>1, <3>1, <3>2
  <2>5. \A p \in start'..(pos' - 1) : ~EndsAt(p)'
    <3>1. \A p \in start..pos : ~EndsAt(p)
      BY <1>1, <2>1
    <3>2. start' = start /\ pos' - 1 = pos /\ stream' = stream
      BY <1>1, <1>3 DEF Slide
    <3> QED
      BY <3>1, <3>2, EndsAtStays
  <2> QED
    BY <1>3, <2>3, <2>4, <2>5 DEF Slide, ScanInv, FoundIsFirst, NothingMissed
<1>4. ASSUME result = "none", EndOfStream PROVE ScanInv'
  <2>1. ~EndsAt(pos) /\ \A p \in start..(pos - 1) : ~EndsAt(p)
    BY <1>1, <1>4, MatchIsMarker DEF ScanInv, EndOfStream
  <2>2. TypeOK'
    BY <1>1, <1>4 DEF EndOfStream, TypeOK, Shifted
  <2>3. \A p \in start..pos : ~EndsAt(p)
    BY <1>1, <2>1
  <2>4. start' = start /\ pos' = pos /\ stream' = stream /\ result' = "INVALID_FORMAT" /\ pos = Len(stream)
    BY <1>4 DEF EndOfStream
  <2>5. NothingMissed'
    BY <2>3, <2>4, EndsAtStays DEF NothingMissed
  <2> QED
    BY <2>2, <2>4, <2>5 DEF ScanInv, FoundIsFirst
<1>5. ASSUME result = "none", ReadFails PROVE ScanInv'
  <2>1. PICK ret \in ReadFailures : result' = IF ret = -1 THEN "READ" ELSE "INVALID_FORMAT"
    BY <1>5 DEF ReadFails
  <2>2. ret = -1 \/ ret = -2
    BY ScanConstantsOK
  <2>3. TypeOK'
    BY <1>1, <1>5, <2>1 DEF ReadFails, TypeOK, Shifted
  <2>4. -2 \notin ReadFailures => result' = "READ"
    BY <2>1, <2>2
  <2> QED
    BY <1>5, <2>1, <2>3, <2>4 DEF ScanInv, FoundIsFirst, NothingMissed
<1>6. CASE CallAgain
  <2>1. TypeOK'
    BY <1>1, <1>6, ScanConstantsOK DEF CallAgain, TypeOK, EmptyWindow
  <2>2. Window'
    BY <1>1, <1>6 DEF CallAgain, Window, EmptyWindow
  <2> QED
    BY <1>1, <1>6, <2>1, <2>2 DEF CallAgain, ScanInv, FoundIsFirst, NothingMissed
<1>7. CASE UNCHANGED vars
  BY <1>7 DEF vars, ScanInv, TypeOK, Window, EndsAt, FoundIsFirst, NothingMissed
<1> QED
  BY <1>2, <1>3, <1>4, <1>5, <1>6, <1>7 DEF Next, Turn

THEOREM ScanCorrect == Spec => []ScanInv
BY ScanInit, ScanNext, PTL DEF Spec

(* A successful scan has found the first marker.                            *)
THEOREM FirstMarkerFound == Spec => []FoundIsFirst
<1>1. ScanInv => FoundIsFirst
  BY DEF ScanInv
<1> QED
  BY <1>1, ScanCorrect, PTL

(* A scan that ends with INVALID_FORMAT has missed none.                    *)
THEOREM NoMarkerMissed == Spec => []NothingMissed
<1>1. ScanInv => NothingMissed
  BY DEF ScanInv
<1> QED
  BY <1>1, ScanCorrect, PTL

(***************************************************************************)
(* The loop is one step of MarkerSearch.                                    *)
(***************************************************************************)
(* In the loop, the markers to come are those that have not been passed.    *)
LEMMA AheadInLoop ==
  ASSUME ScanInv, result = "none"
  PROVE  /\ \A p : p \in Search!Ahead <=> p \in start..Len(stream) /\ EndsAt(p)
         /\ \A p \in start..(pos - 1) : ~EndsAt(p)
         /\ buf = MarkerBytes <=> EndsAt(pos)
BY MatchIsMarker DEF Search!Ahead, EndsAt, Width, ScanInv

LEMMA TurnSearches ==
  ASSUME ScanInv, Turn
  PROVE  Search!Find \/ UNCHANGED Search!vars
<1>1. /\ start \in Nat /\ pos \in Nat /\ Len(stream) \in Nat
      /\ start <= pos /\ pos <= Len(stream) /\ result = "none"
  BY DEF ScanInv, TypeOK, Turn
<1>2. /\ \A p : p \in Search!Ahead <=> p \in start..Len(stream) /\ EndsAt(p)
      /\ \A p \in start..(pos - 1) : ~EndsAt(p)
      /\ buf = MarkerBytes <=> EndsAt(pos)
  BY <1>1, AheadInLoop
<1>3. \A q \in Search!Ahead : pos <= q /\ (buf # MarkerBytes => pos < q)
  BY <1>1, <1>2
<1>4. CASE Match
  <2>1. pos \in Search!Ahead /\ pos' = pos /\ result' = "OK" /\ stream' = stream
    BY <1>1, <1>2, <1>4 DEF Match
  <2> QED
    BY <1>1, <1>3, <2>1 DEF Search!Find, Search!Found
<1>5. CASE Slide
  BY <1>1, <1>5 DEF Slide, Search!vars
<1>6. CASE EndOfStream
  <2>1. Search!Ahead = {}
    <3>1. \A q \in Search!Ahead : q \in start..Len(stream) /\ pos < q
      BY <1>2, <1>3, <1>6 DEF EndOfStream
    <3> QED
      BY <1>1, <1>6, <3>1 DEF EndOfStream
  <2>2. pos' = Len(stream) /\ result' = "INVALID_FORMAT" /\ stream' = stream
    BY <1>6 DEF EndOfStream
  <2> QED
    BY <1>1, <2>1, <2>2 DEF Search!Find, Search!Absent
<1>7. CASE ReadFails
  <2>1. /\ pos' = pos /\ stream' = stream /\ buf # MarkerBytes
        /\ \E ret \in ReadFailures : result' = IF ret = -1 THEN "READ" ELSE "INVALID_FORMAT"
    BY <1>7 DEF ReadFails
  <2>2. result' # "none" /\ pos \in start..Len(stream)
    BY <1>1, <2>1
  <2> QED
    BY <1>1, <1>3, <2>1, <2>2 DEF Search!Find, Search!Broken
<1> QED
  BY <1>4, <1>5, <1>6, <1>7 DEF Turn

(* KCF_find_marker is the one step that KcfHandle takes it for, whatever    *)
(* the marker, the stream and the failures (marker.c:13-43).                *)
THEOREM ScanImplementsSearch == Spec => ImplementsSearch
<1>1. Init => Search!Init
  BY DEF Init, Search!Init
<1>2. ScanInv /\ [Next]_vars => [Search!Next]_(Search!vars)
  <2> SUFFICES ASSUME ScanInv, [Next]_vars
               PROVE  Search!Next \/ UNCHANGED Search!vars
    OBVIOUS
  <2>1. CASE Turn
    BY <2>1, TurnSearches DEF Search!Next
  <2>2. CASE CallAgain
    BY <2>2 DEF CallAgain, Search!Next, Search!CallAgain
  <2>3. CASE UNCHANGED vars
    BY <2>3 DEF vars, Search!vars
  <2> QED
    BY <2>1, <2>2, <2>3 DEF Next
<1> QED
  BY <1>1, <1>2, ScanCorrect, PTL DEF Spec, ImplementsSearch, Search!Spec
==============================================================================
