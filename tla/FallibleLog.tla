----------------------------- MODULE FallibleLog -----------------------------
(***************************************************************************)
(* ArchiveLog where calls may fail, and where the file may be closed with a *)
(* record open.  Nothing that was appended is lost, and what is left of the *)
(* record in progress stays at the end, as the next part of the archive.    *)
(***************************************************************************)
EXTENDS ArchiveLog

(* Of the open record: its header, as it was asked for, the data it has got *)
(* and some more that was passed to it.                                     *)
BreakOpen ==
  /\ open # NoRecord
  /\ \E x \in Pieces : Fits(x) /\ archive' = archive \o (<<open>> \o (data \o x))

(* Of a record at once: its header and some of its data.                    *)
BreakAtOnce ==
  /\ open = NoRecord
  /\ \E r \in Records, x \in Pieces : \E n \in 1..(Len(x) + 1) :
       archive' = archive \o SubSeq(Complete(Flagged(r, x), x), 1, n)

Break == open' = NoRecord /\ data' = <<>> /\ (BreakOpen \/ BreakAtOnce)

NextOrBreak == Next \/ Break

FallibleSpec == Init /\ [][NextOrBreak]_vars
==============================================================================
