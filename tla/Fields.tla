------------------------------- MODULE Fields --------------------------------
(***************************************************************************)
(* Buffers as kcf/bytepack.c fills and reads them, field by field: a        *)
(* function from the offset of each field to its width in bytes and its     *)
(* value.                                                                   *)
(***************************************************************************)
EXTENDS Integers

(* A number or a text put into a buffer.  Past the end the writers store    *)
(* nothing and return false, which no caller looks at: whether a buffer has *)
(* room for its fields is for those who size it (Overruns of RecordCodec,   *)
(* DataTiled of FileInfoCodec).                                             *)
Field(w, v) == [width |-> w, value |-> v]

NoFields == [at \in {} |-> Field(0, 0)]

Garbage == -2

(* What is read of w bytes at an offset of a buffer of size bytes: a field,  *)
(* or, where none of that width begins, whatever bytes are there.  Past the *)
(* end the readers store none and return false; no caller looks at that,    *)
(* and goes on with what its variable held.                                 *)
FieldAt(h, size, at, w) ==
  IF at \in DOMAIN h /\ h[at].width = w /\ at + w <= size THEN h[at].value ELSE Garbage

(* The fields lie side by side from offset 0 to size, without a gap or an   *)
(* overlap: where one ends, the next begins.                                *)
Tiles(h, size) ==
  /\ 0 \in DOMAIN h
  /\ \A at \in DOMAIN h :
       LET end == at + h[at].width
       IN  /\ end = size \/ (at < end /\ end \in DOMAIN h)
           /\ \A next \in DOMAIN h : at < next => end <= next
==============================================================================
