------------------------------- MODULE KcfLog --------------------------------
(***************************************************************************)
(* The record writer implements ArchiveLog: the complete records are the    *)
(* cells before the record being written, whose header, as it was asked     *)
(* for, is kept in LastRecord, and whose data are the cells after it.       *)
(***************************************************************************)
EXTENDS KcfHandle

CONSTANT NoRecord  \* no record is open

IsOpen == kcf.ParserState = "WRITE_ADDED_DATA"

Log ==
  INSTANCE ArchiveLog
    WITH Archives <- InitialStreams,
         Records  <- NewRecords,
         Pieces   <- Chunks,
         archive  <- SubSeq(io.cells, 1, Settled),
         open     <- IF IsOpen THEN kcf.LastRecord ELSE NoRecord,
         data     <- IF IsOpen THEN SubSeq(io.cells, Settled + 2, Len(io.cells)) ELSE <<>>

(* Every call of the library appends whole records, or goes on with the one *)
(* that is open, or leaves the archive as it is.                            *)
ImplementsLog == Log!Spec

(* The same when calls fail, for a caller that then gives up the handle:    *)
(* the header of the open record is the one in the stream, because the copy *)
(* in LastRecord may be without its main data, and nothing is open any more *)
(* on a handle that has failed.                                             *)
HoldsRecord == IsOpen /\ call.handle = "sound"

CellsBefore ==
  IF HoldsRecord THEN SubSeq(io.cells, 1, kcf.RecordOffset) ELSE io.cells

HeaderHeld == IF HoldsRecord THEN io.cells[kcf.RecordOffset + 1] ELSE NoRecord

DataHeld ==
  IF HoldsRecord THEN SubSeq(io.cells, kcf.RecordOffset + 2, Len(io.cells)) ELSE <<>>

Fallible ==
  INSTANCE FallibleLog
    WITH Archives <- InitialStreams,
         Records  <- NewRecords,
         Pieces   <- Chunks,
         archive  <- CellsBefore,
         open     <- HeaderHeld,
         data     <- DataHeld

(* Whatever fails, the file only grows: a call that succeeds has appended   *)
(* the record it was asked for, and one that fails at most what is left of  *)
(* a record in progress.                                                    *)
ImplementsFallibleLog == Fallible!FallibleSpec
=============================================================================
