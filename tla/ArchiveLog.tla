----------------------------- MODULE ArchiveLog ------------------------------
(***************************************************************************)
(* What the writing half of the library promises (kcf/write.h, spec.md): an *)
(* archive to which whole records are appended.  A record is a header cell  *)
(* followed by the bytes of its added data; the header says how many there  *)
(* are and, if asked to, what their checksum is, however the data arrived:  *)
(* with the header, or in pieces after it.                                  *)
(***************************************************************************)
EXTENDS Sequences, Naturals

CONSTANTS
  Archives,  \* what the file may hold before
  Records,   \* headers a caller may ask for
  NoRecord,  \* no record is open
  Pieces     \* byte sequences passed in one call

VARIABLES
  archive,  \* cells of the marker and of the complete records
  open,     \* the header asked for the record being written, or NoRecord
  data      \* the bytes it has got

vars == <<archive, open, data>>

(* The cells of record r with added data d.  One without the size flag has  *)
(* none.                                                                    *)
Complete(r, d) ==
  <<[r EXCEPT !.AddedSize = Len(d), !.AddedDataCRC32 = IF r.hasCRC THEN d ELSE <<>>]>> \o d

(* The archive when the open record, if any, ends where it is.              *)
Closed == IF open = NoRecord THEN archive ELSE archive \o Complete(open, data)

Begin(r) ==
  /\ r.hasSize
  /\ open' = r /\ data' = <<>> /\ archive' = Closed

(* No more data than was announced, if anything was.                        *)
Fits(x) == open.AddedSize > 0 => Len(data) + Len(x) <= open.AddedSize

Add(x) ==
  /\ open # NoRecord /\ Fits(x)
  /\ data' = data \o x
  /\ UNCHANGED <<archive, open>>

End == open' = NoRecord /\ data' = <<>> /\ archive' = Closed

(* The flags follow the data that is passed with the record: without data   *)
(* there is no size field, as KCF_write_record_with_added_data writes it    *)
(* (write.c:85-88).  write.h:39-41 says that the flags are always set.      *)
Flagged(r, x) == [r EXCEPT !.hasSize = x # <<>>, !.hasCRC = @ /\ x # <<>>]

(* A record at once.                                                        *)
Append1(r, x) ==
  open' = NoRecord /\ data' = <<>> /\ archive' = Closed \o Complete(Flagged(r, x), x)

(* A record without added data may claim to have a checksum.                *)
AppendBare(r) ==
  /\ ~r.hasSize
  /\ open' = NoRecord /\ data' = <<>> /\ archive' = Closed \o Complete(r, <<>>)

Init == archive \in Archives /\ open = NoRecord /\ data = <<>>

Next ==
  \/ End
  \/ \E r \in Records : Begin(r) \/ AppendBare(r)
  \/ \E x \in Pieces : Add(x)
  \/ \E r \in Records, x \in Pieces : Append1(r, x)

Spec == Init /\ [][Next]_vars
==============================================================================
