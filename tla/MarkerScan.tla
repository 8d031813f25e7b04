----------------------------- MODULE MarkerScan ------------------------------
(***************************************************************************)
(* KCF_find_marker (kcf/marker.c), byte by byte: a window of as many bytes  *)
(* as the marker has slides over the stream.  KcfHandle takes the whole     *)
(* scan as one step that finds the nearest marker; here the loop is shown   *)
(* to do that.                                                              *)
(***************************************************************************)
EXTENDS Integers, Sequences

CONSTANTS
  Byte,         \* values of a byte
  Zero,         \* what the window is filled with before anything is read
  MarkerBytes,  \* MARKER_1 ... MARKER_6
  Contents,     \* what the stream may hold
  ReadFailures  \* negative results that IO_read may give

Width == Len(MarkerBytes)

ASSUME ScanConstantsOK ==
  /\ Zero \in Byte
  /\ MarkerBytes \in Seq(Byte) /\ MarkerBytes # <<>>
  /\ \A stream \in Contents : stream \in Seq(Byte)
  /\ ReadFailures \subseteq {-1, -2}

(* The one thing the code needs of the marker: its first byte is not the    *)
(* value that the window starts with.                                       *)
ASSUME MarkerStartsNonzero == MarkerBytes[1] # Zero

VARIABLES
  stream,     \* the bytes of the stream
  start, pos, \* how many had been read before the call, and have been now
  buf,        \* the window
  result      \* what KCF_find_marker returns, "none" in the loop

vars == <<stream, start, pos, buf, result>>

EmptyWindow == [i \in 1..Width |-> Zero]

Init ==
  /\ stream \in Contents
  /\ start \in 0..Len(stream) /\ pos = start
  /\ buf = EmptyWindow
  /\ result = "none"

(* Mutants: the window loses its last byte; the last byte is not compared;  *)
(* the byte before the end is taken for the end; the end is not an end.     *)
ShiftedTwice(b) == [i \in 1..Width |-> IF i < Width - 1 THEN buf[i + 2] ELSE b]

MatchButLast ==
  /\ \A i \in 1..(Width - 1) : buf[i] = MarkerBytes[i]
  /\ result' = "OK"
  /\ UNCHANGED <<stream, start, pos, buf>>

EndOfStreamEarly ==
  /\ buf # MarkerBytes /\ pos + 1 >= Len(stream)
  /\ result' = "INVALID_FORMAT"
  /\ UNCHANGED <<stream, start, pos, buf>>

EndOfStreamIgnored ==
  /\ buf # MarkerBytes /\ pos = Len(stream)
  /\ UNCHANGED vars

(* All bytes but the last take the value of their neighbours, the last that *)
(* of the next byte of the stream, or keeps its own when there is none.     *)
Shifted(b) == [i \in 1..Width |-> IF i < Width THEN buf[i + 1] ELSE b]

Match ==
  /\ buf = MarkerBytes
  /\ result' = "OK"
  /\ UNCHANGED <<stream, start, pos, buf>>

Slide ==
  /\ buf # MarkerBytes /\ pos < Len(stream)
  /\ buf' = Shifted(stream[pos + 1]) /\ pos' = pos + 1
  /\ UNCHANGED <<stream, start, result>>

EndOfStream ==
  /\ buf # MarkerBytes /\ pos = Len(stream)
  /\ buf' = Shifted(buf[Width]) /\ result' = "INVALID_FORMAT"
  /\ UNCHANGED <<stream, start, pos>>

(* Mutant: the loop goes on after a failure of reading.                     *)
ReadFailsUnnoticed ==
  /\ buf # MarkerBytes /\ ReadFailures # {}
  /\ buf' = Shifted(buf[Width])
  /\ UNCHANGED <<stream, start, pos, result>>

(* Only -1 counts as an error of reading, not -2 of a stream that has no    *)
(* read method.                                                             *)
ReadFails ==
  /\ buf # MarkerBytes
  /\ \E ret \in ReadFailures : result' = IF ret = -1 THEN "READ" ELSE "INVALID_FORMAT"
  /\ buf' = Shifted(buf[Width])
  /\ UNCHANGED <<stream, start, pos>>

Turn == result = "none" /\ (Match \/ Slide \/ EndOfStream \/ ReadFails)

(* A scan that failed leaves ParserState as it was, and the function can be *)
(* called again: with a new window, from where the last scan stopped.       *)
CallAgain ==
  /\ result \in {"READ", "INVALID_FORMAT"}
  /\ start' = pos /\ buf' = EmptyWindow /\ result' = "none"
  /\ UNCHANGED <<stream, pos>>

Next == Turn \/ CallAgain

Spec == Init /\ [][Next]_vars

(* The loop runs in the caller's thread and nothing interrupts it; reading   *)
(* is under no obligation to fail.                                          *)
FairSpec == Spec /\ WF_vars(result = "none" /\ (Match \/ Slide \/ EndOfStream))

(***************************************************************************)
(* Properties.                                                              *)
(***************************************************************************)
TypeOK ==
  /\ stream \in Seq(Byte)
  /\ start \in 0..Len(stream) /\ pos \in start..Len(stream)
  /\ buf \in [1..Width -> Byte]
  /\ result \in {"none", "OK", "READ", "INVALID_FORMAT"}

(* The marker ends at byte p of the stream, all of it read by this call.    *)
EndsAt(p) ==
  /\ p - Width >= start
  /\ \A i \in 1..Width : stream[p - Width + i] = MarkerBytes[i]

(* The position is left right after the marker, and after the first one     *)
(* there is: neither the filling of the window nor a partial match is taken *)
(* for it or hides it.                                                      *)
FoundIsFirst ==
  result = "OK" => EndsAt(pos) /\ \A p \in start..(pos - 1) : ~EndsAt(p)

(* INVALID_FORMAT means that the rest of the stream has no marker.          *)
NothingMissed ==
  result = "INVALID_FORMAT" /\ -2 \notin ReadFailures
  => pos = Len(stream) /\ \A p \in start..pos : ~EndsAt(p)

(* A call is one search from where it was made, whatever the turns of its   *)
(* loop: it stops after the nearest marker, at the end when there is none,  *)
(* and when reading fails it has passed no marker that it has read whole.   *)
Search ==
  INSTANCE MarkerSearch
    WITH position <- IF result = "none" THEN start ELSE pos, answer <- result

ImplementsSearch == Search!Spec

(* Every call comes to an end.                                              *)
ScanEnds == result = "none" ~> result # "none"

(* What the window holds in the loop: the last bytes that the call has read,*)
(* after as much of the filling as is left.                                 *)
Window ==
  \A i \in 1..Width :
    buf[i] = IF pos - Width + i > start THEN stream[pos - Width + i] ELSE Zero

ScanInv ==
  /\ TypeOK
  /\ result = "none" => Window /\ \A p \in start..(pos - 1) : ~EndsAt(p)
  /\ FoundIsFirst
  /\ NothingMissed
==============================================================================
