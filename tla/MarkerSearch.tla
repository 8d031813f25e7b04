---------------------------- MODULE MarkerSearch -----------------------------
(***************************************************************************)
(* What callers take KCF_find_marker for, as KcfHandle does: one step from  *)
(* where the stream stands to right after the nearest marker, to the end if *)
(* there is none, or to somewhere before it if reading fails.               *)
(***************************************************************************)
EXTENDS Integers, Sequences

CONSTANTS
  MarkerBytes,  \* MARKER_1 ... MARKER_6
  Contents,     \* what the stream may hold
  ReadFailures  \* negative results that IO_read may give

VARIABLES
  stream,    \* the bytes of the stream
  position,  \* how many have been read
  answer     \* what the call has returned, "none" before it has

vars == <<stream, position, answer>>

(* Where a marker ends all of which is still to be read.                    *)
Ahead ==
  {p \in position..Len(stream) :
    /\ p - Len(MarkerBytes) >= position
    /\ \A i \in 1..Len(MarkerBytes) : stream[p - Len(MarkerBytes) + i] = MarkerBytes[i]}

Init ==
  /\ stream \in Contents /\ position \in 0..Len(stream)
  /\ answer = "none"

Found ==
  /\ position' \in Ahead /\ \A q \in Ahead : position' <= q
  /\ answer' = "OK"

Absent ==
  /\ Ahead = {} /\ position' = Len(stream)
  /\ answer' = "INVALID_FORMAT"

(* No marker has been passed, but the beginning of one may have been.       *)
Broken ==
  /\ position' \in position..Len(stream) /\ \A q \in Ahead : position' < q
  /\ \E ret \in ReadFailures : answer' = IF ret = -1 THEN "READ" ELSE "INVALID_FORMAT"

Find == answer = "none" /\ (Found \/ Absent \/ Broken) /\ stream' = stream

CallAgain ==
  /\ answer \in {"READ", "INVALID_FORMAT"} /\ answer' = "none"
  /\ UNCHANGED <<stream, position>>

Next == Find \/ CallAgain

Spec == Init /\ [][Next]_vars
==============================================================================
