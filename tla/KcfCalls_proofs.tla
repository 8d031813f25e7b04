--------------------------- MODULE KcfCalls_proofs ----------------------------
(***************************************************************************)
(* What a refused call and a failed read leave behind, for all bytes,       *)
(* bounds, files, faults and habits; that a caller who gives up a handle    *)
(* after a failure loses no record; and that one who also starts to write   *)
(* on whole records and fills them is told of whole records alone.          *)
(***************************************************************************)
EXTENDS KcfSync_proofs

Unchanged(o, k, s) == o.kcf = k /\ o.io = s

(* The outcomes of a call from handle k and stream s that are refusals      *)
(* leave both alone.                                                        *)
RefusalsClean(outcomes, k, s) ==
  \A o \in outcomes : o.ret = "INVALID_STATE" => Unchanged(o, k, s)

(***************************************************************************)
(* Only the first test of a function refuses: what comes after it fails     *)
(* otherwise.                                                               *)
(***************************************************************************)
LEMMA BackpatchNeverRefuses ==
  ASSUME NEW k, NEW s, NEW o \in Backpatch(k, s)
  PROVE  o.ret # "INVALID_STATE"
BY DEF Backpatch, When, Result

LEMMA FinishRefuses ==
  ASSUME NEW k, NEW s
  PROVE  /\ RefusalsClean(KCF_finish_added_data(k, s), k, s)
         /\ k.ParserState = "WRITE_ADDED_DATA" =>
              \A o \in KCF_finish_added_data(k, s) : o.ret # "INVALID_STATE"
<1>1. CASE k.ParserState # "WRITE_ADDED_DATA"
  BY <1>1 DEF KCF_finish_added_data, Refuse, Result, RefusalsClean, Unchanged
<1>2. CASE k.ParserState = "WRITE_ADDED_DATA"
  <2>1. ASSUME NEW o \in KCF_finish_added_data(k, s)
        PROVE  o.ret # "INVALID_STATE"
    <3>1. o \in Backpatch(k, s) \/ o = Result(Cleaned(k), s, "OK")
      BY <1>2 DEF KCF_finish_added_data
    <3> QED
      BY <3>1, BackpatchNeverRefuses DEF Result
  <2> QED
    BY <2>1 DEF RefusalsClean
<1> QED
  BY <1>1, <1>2

LEMMA WriteHeaderNeverRefuses ==
  ASSUME NEW k, NEW s, NEW r, NEW o \in WriteHeader(k, s, r)
  PROVE  o.ret # "INVALID_STATE"
<1> DEFINE At(a) == [k EXCEPT !.RecordOffset = a]
           x == <<rec_to_buffer(r)>>
<1>1. \/ o = Result(k, s, "OUT_OF_MEMORY")
      \/ \E a \in IO_tell(s), w \in IO_write(s, x) :
           \/ o = Result(At(a), w.io, "WRITE")
           \/ \E c \in CopiesOf(r) : o = Result(OpenRecord(At(a), c), w.io, "OK")
  BY DEF WriteHeader, When
<1> HIDE DEF At, x
<1> QED
  BY <1>1 DEF Result

LEMMA HeaderAndDataNeverRefuses ==
  ASSUME NEW k, NEW s, NEW r, NEW x, NEW o \in HeaderAndData(k, s, r, x)
  PROVE  o.ret # "INVALID_STATE"
<1>1. \/ \E q, t : o = Result(q, t, "OUT_OF_MEMORY")
      \/ \E q, t : o = Result(q, t, "WRITE")
      \/ \E q, t : o = Result(q, t, "OK")
  BY DEF HeaderAndData, When
<1> QED
  BY <1>1 DEF Result

LEMMA WriteRecordRefuses ==
  ASSUME NEW k, NEW s, NEW r
  PROVE  RefusalsClean(KCF_write_record(k, s, r), k, s)
<1> SUFFICES ASSUME NEW o \in KCF_write_record(k, s, r), o.ret = "INVALID_STATE"
             PROVE  Unchanged(o, k, s)
  BY DEF RefusalsClean
<1>1. \/ o = Result(k, s, "INVALID_STATE")
      \/ \E f \in PreviousFinished(k, s) : ~Survives(f) /\ o = f
      \/ \E f \in PreviousFinished(k, s) : o \in WriteHeader(f.kcf, f.io, r)
  BY DEF KCF_write_record, Refuse
<1> QED
  BY <1>1, WriteHeaderNeverRefuses DEF Unchanged, Result, Survives

LEMMA WriteRecordWithAddedDataRefuses ==
  ASSUME NEW k, NEW s, NEW r, NEW x
  PROVE  RefusalsClean(KCF_write_record_with_added_data(k, s, r, x), k, s)
<1> SUFFICES ASSUME NEW o \in KCF_write_record_with_added_data(k, s, r, x),
                    o.ret = "INVALID_STATE"
             PROVE  Unchanged(o, k, s)
  BY DEF RefusalsClean
<1>1. \/ o = Result(k, s, "INVALID_STATE")
      \/ \E f \in PreviousFinished(k, s) : ~Survives(f) /\ o = f
      \/ \E f \in PreviousFinished(k, s) : o \in HeaderAndData(f.kcf, f.io, r, x)
  BY DEF KCF_write_record_with_added_data, Refuse
<1> QED
  BY <1>1, HeaderAndDataNeverRefuses DEF Unchanged, Result, Survives

LEMMA WriteAddedDataRefuses ==
  ASSUME NEW k, NEW s, NEW x
  PROVE  RefusalsClean(KCF_write_added_data(k, s, x), k, s)
BY DEF KCF_write_added_data, Refuse, Result, RefusalsClean, Unchanged

LEMMA WriteMarkerRefuses ==
  ASSUME NEW k, NEW s
  PROVE  RefusalsClean(KCF_write_marker(k, s), k, s)
BY DEF KCF_write_marker, Refuse, Result, RefusalsClean, Unchanged

LEMMA ReadHeaderReturns ==
  ASSUME NEW k, NEW s, NEW hd \in read_record_header(k, s)
  PROVE  hd.ret \in {"OK", "READ"}
BY ReadHeaderForms

LEMMA ReadRecordRefuses ==
  ASSUME NEW k, NEW s
  PROVE  RefusalsClean(KCF_read_record(k, s), k, s)
<1> DEFINE k0 == [k EXCEPT !.ReadOrWritten = 0, !.AvailableOrToBeWritten = 0,
                           !.AddedDataCRC32 = <<>>, !.ActualAddedDataCRC32 = <<>>]
<1>1. ASSUME NEW hd \in read_record_header(k0, s)
      PROVE  hd.ret \in {"OK", "READ"}
  BY ReadHeaderReturns
<1>2. ASSUME NEW hd \in read_record_header(k0, s), NEW o \in ReadBody(hd)
      PROVE  o.ret # "INVALID_STATE"
  BY <1>1 DEF ReadBody, Result, When
<1> QED
  BY <1>2 DEF KCF_read_record, Refuse, Result, RefusalsClean, Unchanged

LEMMA ReadAddedDataRefuses ==
  ASSUME NEW k, NEW s, NEW n
  PROVE  RefusalsClean(KCF_read_added_data(k, s, n), k, s)
BY DEF KCF_read_added_data, Refuse, Result, When, RefusalsClean, Unchanged

LEMMA FindMarkerRefuses ==
  ASSUME NEW k, NEW s
  PROVE  RefusalsClean(KCF_find_marker(k, s), k, s)
BY DEF KCF_find_marker, Refuse, Result, When, RefusalsClean, Unchanged

LEMMA StartReadingRefuses ==
  ASSUME NEW k, NEW s
  PROVE  RefusalsClean(KCF_start_reading(k, s), k, s)
<1> SUFFICES ASSUME NEW o \in KCF_start_reading(k, s), o.ret = "INVALID_STATE"
             PROVE  FALSE
  BY DEF RefusalsClean
<1>1. \/ o.ret = "OK"
      \/ \E q, t : o \in Flushed(q, t)
      \/ k.ParserState = "WRITE_ADDED_DATA" /\ o \in KCF_finish_added_data(k, s)
  BY DEF KCF_start_reading, Result
<1>2. ASSUME NEW q, NEW t, o \in Flushed(q, t) PROVE FALSE
  BY <1>2 DEF Flushed, When, Result
<1> QED
  BY <1>1, <1>2, FinishRefuses

LEMMA FileCallRefuses ==
  ASSUME NEW k, NEW s
  PROVE  RefusalsClean(FileCallRefused(k, s), k, s)
BY DEF FileCallRefused, Refuse, When, Result, RefusalsClean, Unchanged

(***************************************************************************)
(* The calls.                                                               *)
(***************************************************************************)
(* A step in which a call is refused leaves handle and stream alone.        *)
CleanStep ==
  call'.ret = "INVALID_STATE" => UNCHANGED <<kcf, io>>

LEMMA ReturnClean ==
  ASSUME NEW op, NEW outcomes, NEW ack,
         RefusalsClean(outcomes, kcf, io), Return(op, outcomes, ack)
  PROVE  CleanStep
<1>1. PICK o \in outcomes : kcf' = o.kcf /\ io' = o.io /\ call' = Returned(op, o.ret)
  BY DEF Return
<1> QED
  BY <1>1 DEF RefusalsClean, Unchanged, Returned, CleanStep

LEMMA SkipClean ==
  ASSUME TypeOK, KCF_skip_record, Idle'
  PROVE  CleanStep
<1>1. Good(kcf, io)
  BY TypeOKGood
<1>2. ASSUME NEW k, NEW s, NEW n \in Nat PROVE ~SkipBegins(k, s, n)
  BY DEF SkipBegins, Idle
<1>3. ASSUME NEW hd \in read_record_header(kcf, io), SkipFromHeader(hd)
      PROVE  CleanStep
  <2>1. hd.ret \in {"OK", "READ"}
    BY ReadHeaderReturns
  <2>2. GoodHeader(hd)
    BY <1>1, ReadHeaderType
  <2>3. hd.header.AddedSize \in Nat
    BY <2>2 DEF GoodHeader, Headers, RecordOf
  <2>4. PICK e \in {"READ", "CRASHED"} : SkipReturns(hd.kcf, hd.io, e)
    BY <1>2, <1>3, <2>1, <2>3 DEF SkipFromHeader
  <2> QED
    BY <2>4 DEF SkipReturns, Returned, CleanStep
<1>4. kcf.AvailableOrToBeWritten \in Nat
  BY DEF TypeOK, Handles
<1>5. ASSUME SkipReturns(kcf, io, "INVALID_STATE")
      PROVE  CleanStep
  BY <1>5 DEF SkipReturns, CleanStep
<1> QED
  BY <1>2, <1>3, <1>4, <1>5 DEF KCF_skip_record

(* The operations of the property, without those that it leaves out.        *)
LEMMA RefusedStep ==
  ASSUME TypeOK, [Next]_vars, Idle, Idle',
         call'.op \notin {"start_writing", "init_archive", "skip_file"}
  PROVE  CleanStep
<1>1. CASE StartReading
  BY <1>1, ReturnClean, StartReadingRefuses DEF StartReading
<1>2. CASE StartWriting \/ InitArchive \/ SkipFile
  BY <1>2 DEF StartWriting, InitArchive, SkipFile, Return, Returned
<1>3. CASE FindMarker
  BY <1>3, ReturnClean, FindMarkerRefuses DEF FindMarker
<1>4. CASE WriteMarker
  BY <1>4, ReturnClean, WriteMarkerRefuses DEF WriteMarker
<1>5. CASE ReadRecord
  BY <1>5, ReturnClean, ReadRecordRefuses DEF ReadRecord
<1>6. CASE ReadAddedData
  BY <1>6, ReturnClean, ReadAddedDataRefuses DEF ReadAddedData
<1>7. CASE KCF_skip_record
  BY <1>7, SkipClean
<1>8. CASE SkipStep
  BY <1>8 DEF SkipStep
<1>9. CASE WriteRecord
  BY <1>9, ReturnClean, WriteRecordRefuses DEF WriteRecord
<1>10. CASE WriteRecordWithAddedData
  BY <1>10, ReturnClean, WriteRecordWithAddedDataRefuses DEF WriteRecordWithAddedData
<1>11. CASE WriteAddedData
  BY <1>11, ReturnClean, WriteAddedDataRefuses DEF WriteAddedData
<1>12. CASE FinishAddedData
  BY <1>12, ReturnClean, FinishRefuses DEF FinishAddedData
<1>13. CASE FileCall
  BY <1>13, ReturnClean, FileCallRefuses DEF FileCall
<1>14. CASE Reopen
  BY <1>14 DEF Reopen, Created, CleanStep
<1>15. CASE UNCHANGED vars
  BY <1>15 DEF vars, CleanStep
<1> QED
  BY <1>1, <1>2, <1>3, <1>4, <1>5, <1>6, <1>7, <1>8, <1>9, <1>10, <1>11, <1>12, <1>13,
     <1>14, <1>15 DEF Next

(* A refused call has changed nothing, whatever failed before it: the tests *)
(* of the state come before the first assignment in every function of       *)
(* read.c, write.c and marker.c.                                            *)
THEOREM RefusedCallsAreClean == Spec => RefusedCallsChangeNothing
<1>1. TypeOK /\ [Next]_vars =>
        [Idle /\ Idle' /\ call'.ret = "INVALID_STATE"
           /\ call'.op \notin {"start_writing", "init_archive", "skip_file"}
         => UNCHANGED <<kcf, io>>]_vars
  BY RefusedStep DEF CleanStep
<1> QED
  BY <1>1, TypeCorrect, PTL DEF Spec, RefusedCallsChangeNothing

(***************************************************************************)
(* From a handle that could not read the body of a record every call but    *)
(* one refuses, and that one, KCF_start_reading, changes nothing.           *)
(***************************************************************************)
Stuck(k) == k.ParserState = "READ_RECORD_DATA"

KeepsStuck(outcomes) == \A o \in outcomes : Stuck(o.kcf)

LEMMA StuckWriting ==
  ASSUME NEW k, Stuck(k), NEW s, NEW r, NEW x, NEW p
  PROVE  /\ KeepsStuck(KCF_finish_added_data(k, s))
         /\ KeepsStuck(KCF_write_record(k, s, r))
         /\ KeepsStuck(KCF_write_record_with_added_data(k, s, r, x))
         /\ KeepsStuck(KCF_write_added_data(k, s, x))
         /\ KeepsStuck(KCF_write_marker(k, s))
         /\ KeepsStuck(KCF_start_writing(k, s))
         /\ KeepsStuck(KCF_init_archive(k, s, p))
<1>1. KCF_start_writing(k, s) = Refuse(k, s)
  BY DEF Stuck, KCF_start_writing
<1>2. KeepsStuck(Refuse(k, s))
  BY DEF KeepsStuck, Refuse, Result, Stuck
<1>3. KeepsStuck(KCF_init_archive(k, s, p))
  BY <1>1, <1>2 DEF KCF_init_archive, KeepsStuck, Refuse, Result
<1>4. ~MayWriteRecord(k)
  BY DEF MayWriteRecord, IsWritingState, Stuck
<1>5. KCF_write_marker(k, s) = Refuse(k, s)
  BY DEF KCF_write_marker, Stuck
<1>6. KCF_write_added_data(k, s, x) = Refuse(k, s)
  BY DEF KCF_write_added_data, Stuck
<1>7. KCF_finish_added_data(k, s) = Refuse(k, s)
  BY DEF KCF_finish_added_data, Stuck
<1> QED
  BY <1>1, <1>2, <1>3, <1>4, <1>5, <1>6, <1>7
     DEF KCF_write_record, KCF_write_record_with_added_data

LEMMA StuckReading ==
  ASSUME NEW k, Stuck(k), NEW s, NEW n
  PROVE  /\ KeepsStuck(KCF_start_reading(k, s))
         /\ KeepsStuck(KCF_find_marker(k, s))
         /\ KeepsStuck(KCF_read_record(k, s))
         /\ KeepsStuck(KCF_read_added_data(k, s, n))
         /\ KeepsStuck(FileCallRefused(k, s))
         /\ KeepsStuck(KCF_skip_file(k, s))
<1>1. KeepsStuck(Refuse(k, s)) /\ \A e : KeepsStuck({Result(k, s, e)})
  BY DEF KeepsStuck, Refuse, Result, Stuck
<1>2. KCF_start_reading(k, s) = {Result(k, s, "OK")}
  BY DEF Stuck, KCF_start_reading
<1>3. KCF_find_marker(k, s) = Refuse(k, s)
  BY DEF Stuck, KCF_find_marker
<1>4. KCF_read_record(k, s) = Refuse(k, s)
  BY DEF Stuck, KCF_read_record
<1>5. KCF_read_added_data(k, s, n) = Refuse(k, s)
  BY DEF Stuck, KCF_read_added_data
<1>6. KeepsStuck(FileCallRefused(k, s))
  BY <1>1 DEF FileCallRefused, When, KeepsStuck
<1>7. KeepsStuck(KCF_skip_file(k, s))
  BY <1>1, <1>4 DEF KCF_skip_file, KeepsStuck, Refuse, Result
<1> QED
  BY <1>1, <1>2, <1>3, <1>4, <1>5, <1>6, <1>7

LEMMA ReturnStuck ==
  ASSUME NEW op, NEW outcomes, NEW ack,
         KeepsStuck(outcomes), Return(op, outcomes, ack)
  PROVE  Stuck(kcf')
BY DEF Return, KeepsStuck

LEMMA StuckStep ==
  ASSUME [Next]_vars, Idle, Stuck(kcf), call'.op # "create"
  PROVE  Stuck(kcf')
<1>1. CASE StartReading
  BY <1>1, ReturnStuck, StuckReading DEF StartReading
<1>2. CASE StartWriting
  BY <1>2, ReturnStuck, StuckWriting DEF StartWriting
<1>3. CASE InitArchive
  BY <1>3, ReturnStuck, StuckWriting DEF InitArchive
<1>4. CASE FindMarker
  BY <1>4, ReturnStuck, StuckReading DEF FindMarker
<1>5. CASE WriteMarker
  BY <1>5, ReturnStuck, StuckWriting DEF WriteMarker
<1>6. CASE ReadRecord
  BY <1>6, ReturnStuck, StuckReading DEF ReadRecord
<1>7. CASE ReadAddedData
  BY <1>7, ReturnStuck, StuckReading DEF ReadAddedData
<1>8. CASE KCF_skip_record
  BY <1>8 DEF KCF_skip_record, SkipReturns, Stuck
<1>9. CASE SkipStep
  BY <1>9 DEF SkipStep
<1>10. CASE WriteRecord
  BY <1>10, ReturnStuck, StuckWriting DEF WriteRecord
<1>11. CASE WriteRecordWithAddedData
  BY <1>11, ReturnStuck, StuckWriting DEF WriteRecordWithAddedData
<1>12. CASE WriteAddedData
  BY <1>12, ReturnStuck, StuckWriting DEF WriteAddedData
<1>13. CASE FinishAddedData
  BY <1>13, ReturnStuck, StuckWriting DEF FinishAddedData
<1>14. CASE FileCall
  BY <1>14, ReturnStuck, StuckReading DEF FileCall
<1>15. CASE SkipFile
  BY <1>15, ReturnStuck, StuckReading DEF SkipFile
<1>16. CASE Reopen
  BY <1>16 DEF Reopen, Created
<1>17. CASE UNCHANGED vars
  BY <1>17 DEF vars
<1> QED
  BY <1>1, <1>2, <1>3, <1>4, <1>5, <1>6, <1>7, <1>8, <1>9, <1>10, <1>11, <1>12, <1>13,
     <1>14, <1>15, <1>16, <1>17 DEF Next

(* A handle that could not read the body of a record never comes back to    *)
(* records, by any call: read.c:91-101 and archive.c:21-116 know no way out *)
(* of READ_RECORD_DATA but a new handle.                                    *)
THEOREM FailedReadStays == Spec => FailedReadIsFinal
<1>1. [Next]_vars =>
        [Idle /\ kcf.ParserState = "READ_RECORD_DATA" /\ call'.op # "create"
         => kcf'.ParserState = "READ_RECORD_DATA"]_vars
  BY StuckStep DEF Stuck
<1> QED
  BY <1>1, PTL DEF Spec, FailedReadIsFinal

(***************************************************************************)
(* A caller that gives up the handle after a failure, and ends each record  *)
(* before the next: the library then writes at the end, or on the header of *)
(* the record that is open, and cells before that one are left alone.       *)
(***************************************************************************)
(* Transfers are whole or fail, positions are found and put back.           *)
GivesUp ==
  /\ Faults \cap {"short", "tell", "seekback"} = {}
  /\ Habits \cap {"overwrite", "implicit_end", "carry_on"} = {}

(* The first a cells of stream s are still in stream t.                     *)
Before(s, t, a) == \A i \in 1..a : i <= Len(t.cells) /\ t.cells[i] = s.cells[i]

(* Where the next write goes.                                               *)
Placed(k, s, a) ==
  /\ k.ParserState = "WRITE_ADDED_DATA" =>
       AtEnd(s) /\ a <= k.RecordOffset /\ k.RecordOffset < Len(s.cells)
  /\ k.ParserState = "WRITE_RECORD" => AtEnd(s)
  /\ k.ParserState # "WRITING"

Kept(o, s, a) ==
  Before(s, o.io, a) /\ (o.ret \notin Bad => Placed(o.kcf, o.io, a))

(* When the caller may take all there is for complete.                      *)
Closing(o) == o.ret = "OK" => o.kcf.ParserState # "WRITE_ADDED_DATA"

Acked(k, s, a) == Good(k, s) /\ a \in Nat /\ a <= Len(s.cells) /\ Placed(k, s, a)

LEMMA GoodFields ==
  ASSUME NEW k, NEW s, Good(k, s)
  PROVE  /\ k \in Handles /\ s \in Streams /\ s \in GoodStreams /\ s.cells \in Seq(Cells)
         /\ Len(s.cells) \in Nat /\ s.pos \in Nat /\ s.pos <= Len(s.cells)
         /\ k.RecordOffset \in Int /\ k.RecordOffset <= Len(s.cells) /\ ~k.IsWriting
<1>1. /\ s \in Streams /\ s \in GoodStreams /\ s.cells \in Seq(Cells)
      /\ s.pos \in Nat /\ s.pos <= Len(s.cells)
  BY DEF Good, GoodStreams, Streams, Cells
<1>2. k \in Handles /\ k.RecordOffset <= Len(s.cells)
  BY DEF Good
<1>3. k.RecordOffset \in Int
  BY <1>2 DEF Handles
<1>4. ~k.IsWriting
  BY DEF Good, Handles
<1>5. Len(s.cells) \in Nat
  BY <1>1
<1> QED
  BY <1>1, <1>2, <1>3, <1>4, <1>5

LEMMA SameBefore ==
  ASSUME NEW s, NEW t, NEW a \in Nat, t.cells = s.cells, Len(s.cells) \in Nat, a <= Len(s.cells)
  PROVE  Before(s, t, a)
BY DEF Before

LEMMA SameKept ==
  ASSUME NEW k, NEW s, NEW a, Acked(k, s, a), NEW o, o.kcf = k, o.io = s
  PROVE  Kept(o, s, a)
<1>1. a \in Nat /\ a <= Len(s.cells) /\ Len(s.cells) \in Nat /\ Placed(k, s, a)
  BY GoodFields DEF Acked
<1>2. Before(s, s, a)
  BY <1>1, SameBefore
<1> QED
  BY <1>1, <1>2 DEF Kept

LEMMA RefusedKept ==
  ASSUME NEW k, NEW s, NEW a, Acked(k, s, a), NEW o \in Refuse(k, s)
  PROVE  Kept(o, s, a)
<1>1. o.kcf = k /\ o.io = s
  BY DEF Refuse, Result
<1> QED
  BY <1>1, SameKept

(* A write past the first a cells leaves them alone; one at the end ends at *)
(* the end.                                                                 *)
LEMMA WriteKeeps ==
  ASSUME GivesUp, NEW s \in GoodStreams, NEW x \in Seq(Cells), NEW w \in IO_write(s, x),
         NEW a \in Nat, a <= s.pos
  PROVE  Before(s, w.io, a) /\ (AtEnd(s) => AtEnd(w.io))
<1>1. w.io = s \/ \E y \in {x} \cup PartsOf(x) : w.io = Stored(s, y)
  BY DEF IO_write, ChunksOf, When
<1>2. /\ s.cells \in Seq(Cells) /\ Len(s.cells) \in Nat /\ Len(x) \in Nat
      /\ s.pos \in Nat /\ s.pos <= Len(s.cells) /\ s \in Streams
  BY DEF GoodStreams, Streams, Cells
<1>3. CASE w.io = s
  BY <1>2, <1>3, SameBefore
<1>4. ASSUME NEW y \in {x} \cup PartsOf(x), w.io = Stored(s, y)
      PROVE  Before(s, w.io, a) /\ (AtEnd(s) => AtEnd(w.io))
  <2> DEFINE d == Put(s.cells, s.pos, y)
             n == AtLeast(Len(s.cells), s.pos + Len(y))
  <2>0. y \in Seq(Cells) /\ Len(y) \in Nat
    BY PartsType
  <2>1. w.io.cells = d /\ w.io.pos = s.pos + Len(y)
    BY <1>2, <1>4, StoredFields
  <2>2. Len(d) = n
    BY <1>2, <2>0, PutType
  <2>3. n \in Nat /\ Len(s.cells) <= n /\ (s.pos = Len(s.cells) => n = s.pos + Len(y))
    BY <1>2, <2>0 DEF AtLeast
  <2>4. ASSUME NEW i \in 1..a PROVE d[i] = s.cells[i] /\ i <= n
    <3> HIDE DEF n
    <3>1. i \in 1..n /\ i \notin (s.pos + 1)..(s.pos + Len(y))
      BY <1>2, <2>0, <2>3
    <3> QED
      BY <3>1 DEF Put, n
  <2> HIDE DEF d, n
  <2>5. Before(s, w.io, a)
    BY <2>1, <2>2, <2>4 DEF Before
  <2>6. AtEnd(s) => AtEnd(w.io)
    BY <2>1, <2>2, <2>3 DEF AtEnd
  <2> QED
    BY <2>5, <2>6
<1> QED
  BY <1>1, <1>3, <1>4

LEMMA BeforeBoth ==
  ASSUME NEW s, NEW t, NEW u, NEW a \in Nat, Before(s, t, a), Before(t, u, a)
  PROVE  Before(s, u, a)
BY DEF Before

(* The backpatch writes on the header of the open record.                   *)
LEMMA BackpatchKept ==
  ASSUME GivesUp, NEW k, NEW s, NEW a, Acked(k, s, a), k.ParserState = "WRITE_ADDED_DATA",
         NEW o \in Backpatch(k, s)
  PROVE  Kept(o, s, a) /\ Closing(o)
<1> DEFINE q == [k EXCEPT !.LastRecord.AddedSize = k.ReadOrWritten,
                          !.LastRecord.AddedDataCRC32 = k.AddedDataCRC32]
           there == Seek(s, k.RecordOffset)
           x == <<rec_to_buffer(q.LastRecord)>>
<1>1. /\ k \in Handles /\ s \in Streams /\ s \in GoodStreams /\ s.pos \in Nat
      /\ Len(s.cells) \in Nat /\ k.RecordOffset \in Int /\ k.RecordOffset <= Len(s.cells)
      /\ a \in Nat /\ a <= Len(s.cells) /\ AtEnd(s) /\ a <= k.RecordOffset
      /\ k.RecordOffset < Len(s.cells)
  BY GoodFields DEF Acked, Placed
<1>2. q \in Handles /\ x \in Seq(Cells)
  <2>1. q \in Handles
    BY <1>1, PatchedType
  <2>2. q.LastRecord \in Headers
    BY <2>1 DEF Handles
  <2> QED
    BY <2>1, <2>2, HeaderType
<1>3. there \in GoodStreams /\ there.cells = s.cells /\ there.pos = k.RecordOffset
  <2>1. k.RecordOffset \in Nat
    BY <1>1
  <2> QED
    BY <1>1, <2>1, SeekType, SeekFields
<1>4. Cleaned(q).ParserState = "WRITE_RECORD"
  BY <1>2 DEF Cleaned, Handles
<1>5. \/ o = Result(k, s, "WRITE") \/ o = Result(q, there, "OUT_OF_MEMORY")
      \/ o = Result(q, there, "CRASHED")
      \/ \E w \in IO_write(there, x) :
           \/ w.ok /\ \E b \in SeekBack(w.io, s.pos) : o = Result(Cleaned(q), b, "OK")
           \/ o = Result(q, w.io, "WRITE")
  BY DEF Backpatch, When
<1> HIDE DEF q, there, x
<1>6. CASE o.ret # "OK" /\ o.io.cells = s.cells
  BY <1>1, <1>5, <1>6, SameBefore DEF Kept, Closing, Result, Bad, Failures
<1>7. ASSUME NEW w \in IO_write(there, x), o = Result(q, w.io, "WRITE")
      PROVE  Kept(o, s, a) /\ Closing(o)
  <2>1. Before(there, w.io, a)
    BY <1>1, <1>2, <1>3, WriteKeeps
  <2> QED
    BY <1>3, <1>7, <2>1 DEF Before, Kept, Closing, Result, Bad, Failures
<1>8. ASSUME NEW w \in IO_write(there, x), w.ok, NEW b \in SeekBack(w.io, s.pos),
             o = Result(Cleaned(q), b, "OK")
      PROVE  Kept(o, s, a) /\ Closing(o)
  <2>1. Before(there, w.io, a)
    BY <1>1, <1>2, <1>3, WriteKeeps
  <2>2. w.io \in GoodStreams /\ w.io \in Streams
    BY <1>2, <1>3, WriteType DEF GoodStreams
  <2>3. b = Seek(w.io, s.pos)
    BY DEF SeekBack, When, GivesUp
  <2>4. b.cells = w.io.cells /\ b.pos = s.pos
    BY <2>2, <2>3, SeekFields
  <2>5. Before(s, b, a)
    BY <1>3, <2>1, <2>4 DEF Before
  <2>6. AtEnd(b)
    <3>1. w.io = Stored(there, x) \/ w.io = there
      BY <1>8 DEF IO_write, When, GivesUp
    <3>2. Len(x) = 1
      BY DEF x
    <3>3. CASE w.io = Stored(there, x)
      <4>1. w.io.cells = Put(s.cells, k.RecordOffset, x)
        BY <1>3, <3>3, StoredFields DEF GoodStreams
      <4>2. Len(w.io.cells) = AtLeast(Len(s.cells), k.RecordOffset + Len(x))
        <5>1. s.cells \in Seq(Cells) /\ k.RecordOffset \in Nat
          BY <1>1 DEF Streams, Cells
        <5>2. x \in Seq(Cells) /\ k.RecordOffset <= Len(s.cells)
          BY <1>1, <1>2
        <5>3. Len(Put(s.cells, k.RecordOffset, x)) = AtLeast(Len(s.cells), k.RecordOffset + Len(x))
          BY <5>1, <5>2, PutType
        <5> QED
          BY <4>1, <5>3
      <4>3. Len(w.io.cells) = Len(s.cells)
        BY <1>1, <3>2, <4>2 DEF AtLeast
      <4> QED
        BY <1>1, <2>4, <4>3 DEF AtEnd
    <3>4. CASE w.io = there
      BY <1>1, <1>3, <2>4, <3>4 DEF AtEnd
    <3> QED
      BY <3>1, <3>3, <3>4
  <2> QED
    BY <1>4, <1>8, <2>5, <2>6 DEF Kept, Closing, Result, Placed
<1> QED
  BY <1>3, <1>5, <1>6, <1>7, <1>8 DEF Result

LEMMA FinishKept ==
  ASSUME GivesUp, NEW k, NEW s, NEW a, Acked(k, s, a), NEW o \in KCF_finish_added_data(k, s)
  PROVE  Kept(o, s, a) /\ (k.ParserState = "WRITE_ADDED_DATA" => Closing(o))
         /\ (o.ret = "OK" => k.ParserState = "WRITE_ADDED_DATA")
<1>1. CASE k.ParserState # "WRITE_ADDED_DATA"
  <2>1. o \in Refuse(k, s)
    BY <1>1 DEF KCF_finish_added_data
  <2> QED
    BY <1>1, <2>1, RefusedKept DEF Refuse, Result
<1>2. CASE k.ParserState = "WRITE_ADDED_DATA"
  <2>1. CASE o \in Backpatch(k, s)
    BY <1>2, <2>1, BackpatchKept
  <2>2. CASE o = Result(Cleaned(k), s, "OK")
    <3>1. k \in Handles /\ a \in Nat /\ Len(s.cells) \in Nat /\ a <= Len(s.cells) /\ AtEnd(s)
      BY <1>2, GoodFields DEF Acked, Placed
    <3>2. Cleaned(k).ParserState = "WRITE_RECORD"
      BY <3>1 DEF Cleaned, Handles
    <3>3. Before(s, s, a)
      BY <3>1, SameBefore
    <3> QED
      BY <1>2, <2>2, <3>1, <3>2, <3>3 DEF Kept, Closing, Placed, Result
  <2> QED
    BY <1>2, <2>1, <2>2 DEF KCF_finish_added_data
<1> QED
  BY <1>1, <1>2

(* Between records a header is written at the end.                          *)
LEMMA WriteHeaderKept ==
  ASSUME GivesUp, NEW k, NEW s, NEW a, Acked(k, s, a), k.ParserState = "WRITE_RECORD",
         NEW r \in Headers, NEW o \in WriteHeader(k, s, r)
  PROVE  Kept(o, s, a) /\ (~r.hasSize => Closing(o))
<1> DEFINE x == <<rec_to_buffer(r)>>
           At == [k EXCEPT !.RecordOffset = s.pos]
<1>1. /\ k \in Handles /\ s \in GoodStreams /\ s.pos \in Nat /\ s.cells \in Seq(Cells)
      /\ Len(s.cells) \in Nat /\ a \in Nat /\ a <= Len(s.cells) /\ AtEnd(s)
  BY GoodFields DEF Acked, Placed
<1>2. x \in Seq(Cells) /\ Len(x) = 1
  BY HeaderType
<1>3. \/ o = Result(k, s, "OUT_OF_MEMORY")
      \/ \E w \in IO_write(s, x) :
           \/ o = Result(At, w.io, "WRITE")
           \/ w.ok /\ \E c \in CopiesOf(r) : o = Result(OpenRecord(At, c), w.io, "OK")
  <2>1. IO_tell(s) = {s.pos}
    BY DEF IO_tell, When, GivesUp
  <2> QED
    BY <2>1 DEF WriteHeader, When
<1>4. /\ At \in Handles /\ At.RecordOffset = s.pos /\ At.ParserState = "WRITE_RECORD"
  BY <1>1 DEF Handles
<1> HIDE DEF x, At
<1>5. CASE o = Result(k, s, "OUT_OF_MEMORY")
  BY <1>5, SameKept DEF Closing, Result
<1>6. ASSUME NEW w \in IO_write(s, x), o = Result(At, w.io, "WRITE")
      PROVE  Kept(o, s, a) /\ Closing(o)
  <2>1. Before(s, w.io, a)
    BY <1>1, <1>2, WriteKeeps DEF AtEnd
  <2> QED
    BY <1>6, <2>1 DEF Kept, Closing, Result, Bad, Failures
<1>7. ASSUME NEW w \in IO_write(s, x), w.ok, NEW c \in CopiesOf(r),
             o = Result(OpenRecord(At, c), w.io, "OK")
      PROVE  Kept(o, s, a) /\ (~r.hasSize => Closing(o))
  <2>1. Before(s, w.io, a) /\ AtEnd(w.io)
    BY <1>1, <1>2, WriteKeeps DEF AtEnd
  <2>2. c.hasSize = r.hasSize
    BY DEF CopiesOf, When, Headers, RecordOf
  <2>3. OpenRecord(At, c).RecordOffset = s.pos
    BY <1>4, <2>2 DEF OpenRecord, Handles
  <2>4. OpenRecord(At, c).ParserState = IF r.hasSize THEN "WRITE_ADDED_DATA" ELSE "WRITE_RECORD"
    BY <1>4, <2>2 DEF OpenRecord, Handles
  <2>5. s.pos < Len(w.io.cells)
    <3>1. w.io = Stored(s, x)
      BY <1>7 DEF IO_write, When, GivesUp
    <3>2. w.io.cells = Put(s.cells, s.pos, x)
      BY <1>1, <3>1, StoredFields DEF GoodStreams
    <3>3. Len(w.io.cells) = AtLeast(Len(s.cells), s.pos + Len(x))
      <4>1. s.cells \in Seq(Cells) /\ x \in Seq(Cells) /\ s.pos \in Nat /\ s.pos <= Len(s.cells)
        BY <1>1, <1>2 DEF AtEnd
      <4>2. Len(Put(s.cells, s.pos, x)) = AtLeast(Len(s.cells), s.pos + Len(x))
        BY <4>1, PutType
      <4> QED
        BY <3>2, <4>2
    <3> QED
      BY <1>1, <1>2, <3>3 DEF AtLeast, AtEnd
  <2>6. a <= s.pos
    BY <1>1 DEF AtEnd
  <2> QED
    BY <1>7, <2>1, <2>3, <2>4, <2>5, <2>6 DEF Kept, Closing, Placed, Result
<1> QED
  BY <1>3, <1>5, <1>6, <1>7

(* No record is open, so none is ended.                                     *)
LEMMA NothingToFinish ==
  ASSUME NEW k \in Handles, NEW s, k.ParserState \notin {"WRITE_ADDED_DATA", "WRITING"},
         MayWriteRecord(k), NEW f \in PreviousFinished(k, s)
  PROVE  k.ParserState = "WRITE_RECORD" /\ f = Result(k, s, "OK")
<1>1. k.ParserState = "WRITE_RECORD"
  BY DEF MayWriteRecord, IsWritingState
<1>2. [k EXCEPT !.ParserState = IF @ = "WRITING" THEN "WRITE_RECORD" ELSE @] = k
  BY DEF Handles
<1> QED
  BY <1>1, <1>2 DEF PreviousFinished

LEMMA WriteRecordKept ==
  ASSUME GivesUp, NEW k, NEW s, NEW a, Acked(k, s, a), k.ParserState # "WRITE_ADDED_DATA",
         NEW r \in Headers, NEW o \in KCF_write_record(k, s, r)
  PROVE  Kept(o, s, a) /\ (~r.hasSize => Closing(o))
<1>1. k \in Handles /\ k.ParserState # "WRITING"
  BY GoodFields DEF Acked, Placed
<1>2. CASE ~MayWriteRecord(k)
  <2>1. o \in Refuse(k, s)
    BY <1>2 DEF KCF_write_record
  <2> QED
    BY <2>1, RefusedKept DEF Closing, Refuse, Result
<1>3. CASE MayWriteRecord(k)
  <2>1. PICK f \in PreviousFinished(k, s) : o \in IF Survives(f) THEN WriteHeader(f.kcf, f.io, r) ELSE {f}
    BY <1>3 DEF KCF_write_record
  <2>2. k.ParserState = "WRITE_RECORD" /\ f = Result(k, s, "OK")
    BY <1>1, <1>3, NothingToFinish
  <2>3. o \in WriteHeader(k, s, r)
    BY <2>1, <2>2 DEF Survives, Result
  <2> QED
    BY <2>2, <2>3, WriteHeaderKept
<1> QED
  BY <1>2, <1>3

LEMMA WithDataKept ==
  ASSUME GivesUp, NEW k, NEW s, NEW a, Acked(k, s, a), k.ParserState # "WRITE_ADDED_DATA",
         NEW r \in Headers, NEW x \in Seq(Bytes),
         NEW o \in KCF_write_record_with_added_data(k, s, r, x)
  PROVE  Kept(o, s, a) /\ Closing(o)
<1> DEFINE h == <<rec_to_buffer(WithAddedData(r, x))>>
<1>1. /\ k \in Handles /\ k.ParserState # "WRITING" /\ s \in GoodStreams /\ s.pos \in Nat
      /\ Len(s.cells) \in Nat /\ a \in Nat /\ a <= Len(s.cells)
  BY GoodFields DEF Acked, Placed
<1>2. CASE ~MayWriteRecord(k)
  <2>1. o \in Refuse(k, s)
    BY <1>2 DEF KCF_write_record_with_added_data
  <2> QED
    BY <2>1, RefusedKept DEF Closing, Refuse, Result
<1>3. CASE MayWriteRecord(k)
  <2>1. PICK f \in PreviousFinished(k, s) : o \in IF Survives(f) THEN HeaderAndData(f.kcf, f.io, r, x) ELSE {f}
    BY <1>3 DEF KCF_write_record_with_added_data
  <2>2. k.ParserState = "WRITE_RECORD" /\ f = Result(k, s, "OK")
    BY <1>1, <1>3, NothingToFinish
  <2>3. o \in HeaderAndData(k, s, r, x)
    BY <2>1, <2>2 DEF Survives, Result
  <2>4. AtEnd(s) /\ a <= s.pos
    BY <1>1, <2>2 DEF Acked, Placed, AtEnd
  <2>5. h \in Seq(Cells) /\ x \in Seq(Cells)
    BY WithAddedDataType, HeaderType DEF Cells, Symbols
  <2>6. \/ o = Result(k, s, "OUT_OF_MEMORY")
        \/ \E w \in IO_write(s, h) :
             \/ o = Result(k, w.io, "WRITE")
             \/ \E d \in IO_write(w.io, x) : o = Result(k, d.io, IF d.ok THEN "OK" ELSE "WRITE")
    BY <2>3 DEF HeaderAndData, When
  <2> HIDE DEF h
  <2>7. CASE o = Result(k, s, "OUT_OF_MEMORY")
    BY <2>2, <2>7, SameKept DEF Closing, Result
  <2>8. ASSUME NEW w \in IO_write(s, h) PROVE Before(s, w.io, a) /\ AtEnd(w.io)
    BY <1>1, <2>4, <2>5, WriteKeeps
  <2>9. ASSUME NEW w \in IO_write(s, h), o = Result(k, w.io, "WRITE")
        PROVE  Kept(o, s, a) /\ Closing(o)
    BY <2>8, <2>9 DEF Kept, Closing, Result, Bad, Failures
  <2>10. ASSUME NEW w \in IO_write(s, h), NEW d \in IO_write(w.io, x),
                o = Result(k, d.io, IF d.ok THEN "OK" ELSE "WRITE")
         PROVE  Kept(o, s, a) /\ Closing(o)
    <3>1. w.io \in GoodStreams /\ Len(s.cells) <= Len(w.io.cells)
      BY <1>1, <2>5, WriteType
    <3>2. a <= w.io.pos
      <4>1. Len(w.io.cells) \in Nat /\ w.io.pos = Len(w.io.cells)
        BY <2>8, <3>1 DEF AtEnd, GoodStreams, Streams
      <4> QED
        BY <1>1, <3>1, <4>1
    <3>3. Before(w.io, d.io, a) /\ AtEnd(d.io)
      BY <1>1, <2>5, <2>8, <3>1, <3>2, WriteKeeps
    <3>4. Before(s, d.io, a)
      BY <1>1, <2>8, <3>3, BeforeBoth
    <3> QED
      BY <2>2, <2>10, <3>3, <3>4 DEF Kept, Closing, Placed, Result
  <2> QED
    BY <2>6, <2>7, <2>9, <2>10
<1> QED
  BY <1>2, <1>3

LEMMA WriteAddedDataKept ==
  ASSUME GivesUp, NEW k, NEW s, NEW a, Acked(k, s, a), NEW x \in Seq(Bytes),
         NEW o \in KCF_write_added_data(k, s, x)
  PROVE  Kept(o, s, a)
<1> DEFINE y == Clipped(k, x)
           q == [k EXCEPT !.ReadOrWritten = @ + Len(y),
                          !.AddedDataCRC32 = IF k.HasAddedDataCRC32 THEN @ \o y ELSE @]
<1>1. /\ k \in Handles /\ s \in GoodStreams /\ s.pos \in Nat /\ k.RecordOffset \in Int
      /\ Len(s.cells) \in Nat /\ a \in Nat /\ a <= Len(s.cells)
  BY GoodFields DEF Acked
<1>2. CASE k.ParserState # "WRITE_ADDED_DATA"
  <2>1. o \in Refuse(k, s)
    BY <1>2 DEF KCF_write_added_data
  <2> QED
    BY <2>1, RefusedKept
<1>3. CASE k.ParserState = "WRITE_ADDED_DATA"
  <2>1. \/ o = Result(k, s, "OK")
        \/ \E w \in IO_write(s, y) : o = Result(q, w.io, "OK") \/ o = Result(k, w.io, "WRITE")
    BY <1>3 DEF KCF_write_added_data
  <2>2. y \in Seq(Cells)
    <3>1. y \in Seq(Bytes)
      BY <1>1, ClippedType
    <3> QED
      BY <3>1 DEF Cells, Symbols
  <2>3. AtEnd(s) /\ a <= k.RecordOffset /\ k.RecordOffset < Len(s.cells) /\ a <= s.pos
    BY <1>1, <1>3 DEF Acked, Placed, AtEnd
  <2>4. q.ParserState = "WRITE_ADDED_DATA" /\ q.RecordOffset = k.RecordOffset
    <3> HIDE DEF y
    <3> QED
      BY <1>1, <1>3 DEF Handles
  <2> HIDE DEF y, q
  <2>5. CASE o = Result(k, s, "OK")
    BY <2>5, SameKept DEF Result
  <2>6. ASSUME NEW w \in IO_write(s, y), o = Result(q, w.io, "OK") \/ o = Result(k, w.io, "WRITE")
        PROVE  Kept(o, s, a)
    <3>1. Before(s, w.io, a) /\ AtEnd(w.io)
      BY <1>1, <2>2, <2>3, WriteKeeps
    <3>2. Len(s.cells) <= Len(w.io.cells) /\ Len(w.io.cells) \in Nat
      <4>1. w.io \in GoodStreams /\ Len(s.cells) <= Len(w.io.cells)
        BY <1>1, <2>2, WriteType
      <4>2. w.io.cells \in Seq(Symbols \cup HeaderCells)
        BY <4>1 DEF GoodStreams, Streams
      <4> QED
        BY <4>1, <4>2
    <3>3. k.RecordOffset < Len(w.io.cells)
      BY <1>1, <2>3, <3>2
    <3> QED
      BY <2>3, <2>4, <2>6, <3>1, <3>3 DEF Kept, Placed, Result, Bad, Failures
  <2> QED
    BY <2>1, <2>5, <2>6
<1> QED
  BY <1>2, <1>3

(***************************************************************************)
(* Reading writes nothing and leaves the states of writing alone.           *)
(***************************************************************************)
Writes == {"WRITE_ADDED_DATA", "WRITE_RECORD", "WRITING"}

Quiet(o, k, s) ==
  \/ o.kcf = k /\ o.io = s
  \/ o.io.cells = s.cells /\ o.kcf.ParserState \notin Writes

LEMMA QuietKept ==
  ASSUME NEW k, NEW s, NEW a, Acked(k, s, a), NEW o, Quiet(o, k, s)
  PROVE  Kept(o, s, a)
<1>1. CASE o.kcf = k /\ o.io = s
  BY <1>1, SameKept
<1>2. CASE o.io.cells = s.cells /\ o.kcf.ParserState \notin Writes
  <2>1. a \in Nat /\ a <= Len(s.cells) /\ Len(s.cells) \in Nat
    BY GoodFields DEF Acked
  <2>2. Before(s, o.io, a)
    BY <1>2, <2>1, SameBefore
  <2> QED
    BY <1>2, <2>2 DEF Kept, Placed, Writes
<1> QED
  BY <1>1, <1>2 DEF Quiet

LEMMA ReadHeaderQuiet ==
  ASSUME NEW k, NEW s, Good(k, s), k.ParserState \notin Writes, NEW hd \in read_record_header(k, s)
  PROVE  hd.io.cells = s.cells /\ hd.kcf.ParserState \notin Writes
<1>1. hd.io.cells = s.cells
  BY ReadHeaderType DEF Alike
<1>2. \A h : Parsed(k, h).ParserState = "READ_RECORD_DATA"
  BY GoodFields DEF Parsed, Handles
<1> QED
  BY <1>1, <1>2, ReadHeaderForms DEF Writes

LEMMA ReadRecordQuiet ==
  ASSUME NEW k, NEW s, Good(k, s), NEW o \in KCF_read_record(k, s)
  PROVE  Quiet(o, k, s)
<1> DEFINE k0 == [k EXCEPT !.ReadOrWritten = 0, !.AvailableOrToBeWritten = 0,
                           !.AddedDataCRC32 = <<>>, !.ActualAddedDataCRC32 = <<>>]
<1>1. CASE k.ParserState # "READ_RECORD_HEADER"
  BY <1>1 DEF KCF_read_record, Refuse, Result, Quiet
<1>2. CASE k.ParserState = "READ_RECORD_HEADER"
  <2>1. Good(k0, s)
    <3>1. <<>> \in Data
      BY EmptyType DEF Data
    <3> QED
      BY <3>1 DEF Good, Handles
  <2>2. k0.ParserState \notin Writes
    BY <1>2, GoodFields DEF Handles, Writes
  <2>3. PICK hd \in read_record_header(k0, s) : o \in ReadBody(hd)
    BY <1>2 DEF KCF_read_record
  <2> HIDE DEF k0
  <2>4. hd.io.cells = s.cells /\ hd.kcf.ParserState \notin Writes
    BY <2>1, <2>2, ReadHeaderQuiet
  <2>5. hd.kcf \in Handles
    BY <2>1, ReadHeaderType DEF GoodHeader, Good
  <2>6. o.io = hd.io
    BY <2>3 DEF ReadBody, When, Result
  <2>7. o.kcf = hd.kcf \/ o.kcf.ParserState \in {"READ_ADDED_DATA", "READ_RECORD_HEADER"}
    <3> DEFINE p == IF hd.header.hasSize THEN "READ_ADDED_DATA" ELSE "READ_RECORD_HEADER"
               next == [hd.kcf EXCEPT !.ParserState = p, !.AvailableOrToBeWritten = hd.header.AddedSize]
    <3>1. o.kcf = hd.kcf \/ o.kcf = next
      BY <2>3 DEF ReadBody, When, Result
    <3>2. next.ParserState = p
      <4> HIDE DEF p
      <4> QED
        BY <2>5 DEF Handles
    <3> HIDE DEF next
    <3> QED
      BY <3>1, <3>2
  <2> QED
    BY <2>4, <2>6, <2>7 DEF Quiet, Writes
<1> QED
  BY <1>1, <1>2

LEMMA ReadAddedDataQuiet ==
  ASSUME NEW k, NEW s, Good(k, s), NEW n \in Nat, NEW o \in KCF_read_added_data(k, s, n)
  PROVE  Quiet(o, k, s)
<1> DEFINE m == AtMost(n, k.AvailableOrToBeWritten)
           p == IF k.AvailableOrToBeWritten = m THEN "READ_RECORD_HEADER" ELSE k.ParserState
           Read == [k EXCEPT !.AvailableOrToBeWritten = @ - m,
                             !.ActualAddedDataCRC32 = @ \o BytesAt(s, m),
                             !.ReadOrWritten = @ + m,
                             !.ParserState = p]
           last == [k EXCEPT !.ParserState = "READ_RECORD_HEADER"]
<1>1. CASE k.ParserState # "READ_ADDED_DATA"
  BY <1>1 DEF KCF_read_added_data, Refuse, Result, Quiet
<1>2. CASE k.ParserState = "READ_ADDED_DATA"
  <2>1. \/ o = Result(last, s, "OK") \/ o = Result(k, s, "CRASHED")
        \/ \E got : o = Result(k, Ahead(s, got), "READ")
        \/ o = Result(Read, Ahead(s, m), "OK")
    BY <1>2 DEF KCF_read_added_data, When
  <2>2. \A got : Ahead(s, got).cells = s.cells
    BY GoodFields, AheadAlike DEF Alike
  <2>3. Read.ParserState = p /\ last.ParserState = "READ_RECORD_HEADER"
    <3> HIDE DEF m, p
    <3> QED
      BY GoodFields DEF Handles
  <2>4. p \notin Writes
    BY <1>2 DEF Writes
  <2> HIDE DEF Read, last, p, m
  <2> QED
    BY <1>2, <2>1, <2>2, <2>3, <2>4 DEF Result, Quiet, Writes
<1> QED
  BY <1>1, <1>2

LEMMA FindMarkerQuiet ==
  ASSUME NEW k, NEW s, Good(k, s), NEW o \in KCF_find_marker(k, s)
  PROVE  Quiet(o, k, s)
<1> DEFINE At(p) == Seek(s, p)
           q == [k EXCEPT !.ParserState = "READ_RECORD_HEADER"]
<1>1. CASE k.IsWriting \/ k.ParserState # "READ_MARKER"
  BY <1>1 DEF KCF_find_marker, Refuse, Result, Quiet
<1>2. CASE ~k.IsWriting /\ k.ParserState = "READ_MARKER"
  <2>1. \/ \E p : o = Result(q, At(p), "OK")
        \/ \E p : o = Result(k, At(p), "INVALID_FORMAT")
        \/ \E p : o = Result(k, At(p), "READ")
    BY <1>2 DEF KCF_find_marker, When
  <2>2. \A p : At(p).cells = s.cells
    BY GoodFields, SeekFields
  <2>3. q.ParserState = "READ_RECORD_HEADER"
    BY GoodFields DEF Handles
  <2> HIDE DEF At, q
  <2> QED
    BY <1>2, <2>1, <2>2, <2>3 DEF Result, Quiet, Writes
<1> QED
  BY <1>1, <1>2

LEMMA SkipFileQuiet ==
  ASSUME NEW k, NEW s, Good(k, s), NEW o \in KCF_skip_file(k, s)
  PROVE  Quiet(o, k, s)
<1>1. CASE o \in Refuse(k, s)
  BY <1>1 DEF Refuse, Result, Quiet
<1>2. ASSUME NEW f \in KCF_read_record(k, s), o = f \/ o = Result(f.kcf, f.io, "INVALID_STATE")
      PROVE  Quiet(o, k, s)
  <2>1. Quiet(f, k, s)
    BY ReadRecordQuiet
  <2> QED
    BY <1>2, <2>1 DEF Quiet, Result
<1> QED
  BY <1>1, <1>2 DEF KCF_skip_file

(***************************************************************************)
(* Switching.                                                               *)
(***************************************************************************)
LEMMA FlushedKept ==
  ASSUME NEW k, NEW s, NEW a, Acked(k, s, a), NEW o \in Flushed(k, s)
  PROVE  Kept(o, s, a) /\ (o.ret = "OK" => o.kcf.ParserState = "READ_RECORD_HEADER")
<1> DEFINE q == [k EXCEPT !.ParserState = "READ_RECORD_HEADER"]
<1>1. o = Result(q, s, "OK") \/ o = Result(k, s, "UNKNOWN")
  BY DEF Flushed, When
<1>2. q.ParserState = "READ_RECORD_HEADER"
  BY GoodFields DEF Acked, Handles
<1> HIDE DEF q
<1>3. Quiet(o, k, s)
  BY <1>1, <1>2 DEF Quiet, Result, Writes
<1> QED
  BY <1>1, <1>2, <1>3, QuietKept DEF Result

LEMMA StartReadingKept ==
  ASSUME GivesUp, NEW k, NEW s, NEW a, Acked(k, s, a), NEW o \in KCF_start_reading(k, s)
  PROVE  Kept(o, s, a) /\ (k.ParserState = "WRITE_ADDED_DATA" => Closing(o))
<1>1. Good(k, s) /\ a \in Nat /\ k \in Handles
  BY GoodFields DEF Acked
<1>2. CASE k.ParserState = "WRITE_ADDED_DATA"
  <2>1. PICK f \in KCF_finish_added_data(k, s) :
          o \in IF f.ret = "OK" THEN Flushed(f.kcf, f.io) ELSE {f}
    BY <1>2 DEF KCF_start_reading
  <2>2. Kept(f, s, a) /\ Closing(f)
    BY <1>2, FinishKept
  <2>3. CASE f.ret = "OK"
    <3>1. Good(f.kcf, f.io)
      BY <1>1, FinishType DEF GoodOutcome
    <3>2. Before(s, f.io, a) /\ Placed(f.kcf, f.io, a)
      BY <2>2, <2>3 DEF Kept, Bad, Failures
    <3>3. a <= Len(f.io.cells)
      <4>1. Len(f.io.cells) \in Nat
        BY <3>1, GoodFields
      <4>2. a > 0 => a \in 1..a
        BY <1>1
      <4> QED
        BY <1>1, <3>2, <4>1, <4>2 DEF Before
    <3>4. Acked(f.kcf, f.io, a)
      BY <1>1, <3>1, <3>2, <3>3 DEF Acked
    <3>5. o \in Flushed(f.kcf, f.io)
      BY <2>1, <2>3
    <3>6. Kept(o, f.io, a) /\ (o.ret = "OK" => o.kcf.ParserState = "READ_RECORD_HEADER")
      BY <3>4, <3>5, FlushedKept
    <3>7. Before(s, o.io, a)
      BY <1>1, <3>2, <3>6, BeforeBoth DEF Kept
    <3> QED
      BY <3>6, <3>7 DEF Kept, Closing
  <2> QED
    BY <2>1, <2>2, <2>3
<1>3. CASE k.ParserState = "WRITE_RECORD"
  BY <1>3, FlushedKept DEF KCF_start_reading
<1>4. CASE k.ParserState \notin {"WRITE_ADDED_DATA", "WRITE_RECORD"}
  <2> DEFINE To(p) == [k EXCEPT !.ParserState = p]
  <2>1. \/ o = Result(To("READ_MARKER"), s, "OK") \/ o = Result(To("READING"), s, "OK")
        \/ o = Result(k, s, "OK")
    BY <1>4 DEF KCF_start_reading
  <2>2. To("READ_MARKER").ParserState = "READ_MARKER" /\ To("READING").ParserState = "READING"
    BY <1>1 DEF Handles
  <2> HIDE DEF To
  <2>3. Quiet(o, k, s)
    BY <2>1, <2>2 DEF Quiet, Result, Writes
  <2> QED
    BY <1>4, <2>3, QuietKept
<1> QED
  BY <1>2, <1>3, <1>4

LEMMA StartWritingKept ==
  ASSUME NEW k, NEW s, NEW a, Acked(k, s, a), k.ParserState = "READ_RECORD_HEADER" => AtEnd(s),
         NEW o \in KCF_start_writing(k, s)
  PROVE  /\ Kept(o, s, a) /\ o.io = s /\ Placed(o.kcf, s, a)
         /\ k.ParserState # "WRITE_ADDED_DATA" => o.kcf.ParserState # "WRITE_ADDED_DATA"
<1> DEFINE Into(p) == [k EXCEPT !.ParserState = p]
<1>1. /\ k \in Handles /\ ~k.IsWriting /\ a \in Nat /\ a <= Len(s.cells)
      /\ Len(s.cells) \in Nat /\ Placed(k, s, a)
  BY GoodFields DEF Acked
<1>2. \A p : Into(p).ParserState = p /\ ~Into(p).IsWriting
  BY <1>1 DEF Handles
<1>3. Before(s, s, a)
  BY <1>1, SameBefore
<1>4. CASE k.ParserState \in {"NEUTRAL", "READING", "WRITING", "READ_MARKER"}
  <2>1. o \in KCF_write_marker(Into("WRITE_MARKER"), s)
    BY <1>4 DEF KCF_start_writing
  <2>2. o = Result(Into("WRITE_MARKER"), s, "INVALID_STATE")
    <3> HIDE DEF Into
    <3> QED
      BY <1>2, <2>1 DEF KCF_write_marker, Refuse
  <2> HIDE DEF Into
  <2> QED
    BY <1>2, <1>3, <2>2 DEF Result, Kept, Placed
<1>5. CASE k.ParserState = "READ_RECORD_HEADER"
  <2>1. o = Result(Into("WRITE_RECORD"), s, "OK")
    BY <1>5 DEF KCF_start_writing
  <2> HIDE DEF Into
  <2> QED
    BY <1>2, <1>3, <1>5, <2>1 DEF Result, Kept, Placed
<1>6. CASE k.ParserState \notin {"NEUTRAL", "READING", "WRITING", "READ_MARKER", "READ_RECORD_HEADER"}
  <2>1. o = Result(k, s, "OK") \/ o = Result(k, s, "INVALID_STATE")
    BY <1>6 DEF KCF_start_writing, Refuse
  <2> QED
    BY <1>1, <1>3, <2>1 DEF Result, Kept
<1> QED
  BY <1>4, <1>5, <1>6

LEMMA InitArchiveKept ==
  ASSUME GivesUp, NEW k, NEW s, NEW a, Acked(k, s, a), k.ParserState # "WRITE_ADDED_DATA",
         k.ParserState = "READ_RECORD_HEADER" => AtEnd(s),
         NEW p \in Payloads, NEW o \in KCF_init_archive(k, s, p)
  PROVE  Kept(o, s, a) /\ Closing(o)
<1> DEFINE header == [ZeroRecord EXCEPT !.payload = p]
<1>1. header \in Headers /\ ~header.hasSize
  BY EmptyType DEF ZeroRecord, Headers, RecordOf, Data
<1>2. PICK f \in KCF_start_writing(k, s) :
        IF f.ret = "OK" THEN \/ o \in KCF_write_record(f.kcf, f.io, header)
                             \/ o = Result(f.kcf, f.io, "CRASHED")
                        ELSE o = f
  BY DEF KCF_init_archive, KCF_write_archive_header, When
<1> HIDE DEF header
<1>3. Kept(f, s, a) /\ f.io = s /\ Placed(f.kcf, s, a) /\ f.kcf.ParserState # "WRITE_ADDED_DATA"
  BY StartWritingKept
<1>4. CASE f.ret = "OK"
  <2>1. Good(f.kcf, f.io)
    BY StartWritingType DEF GoodOutcome, Acked
  <2>2. Acked(f.kcf, s, a)
    BY <1>3, <2>1 DEF Acked
  <2>3. CASE o \in KCF_write_record(f.kcf, s, header)
    BY <1>1, <1>3, <2>2, <2>3, WriteRecordKept
  <2>4. CASE o = Result(f.kcf, s, "CRASHED")
    BY <2>2, <2>4, SameKept DEF Result, Closing
  <2> QED
    BY <1>2, <1>3, <1>4, <2>3, <2>4
<1>5. CASE f.ret # "OK"
  BY <1>2, <1>3, <1>5 DEF Closing
<1> QED
  BY <1>4, <1>5

(***************************************************************************)
(* The invariant of a caller that gives up.                                 *)
(***************************************************************************)
KInv ==
  /\ TypeOK
  /\ acked <= Len(io.cells)
  /\ call.handle = "sound" => Placed(kcf, io, acked)
  /\ ~Idle => kcf.ParserState \in {"READ_RECORD_DATA", "READ_ADDED_DATA"}

(* What a step may not touch.                                               *)
Leaves == Before(io, io', acked)

LEMMA SoundCalls ==
  ASSUME GivesUp, KInv, MayCall
  PROVE  Acked(kcf, io, acked) /\ Idle /\ call.handle = "sound"
BY TypeOKGood DEF GivesUp, KInv, MayCall, Acked, TypeOK

LEMMA ReturnKept ==
  ASSUME GivesUp, KInv, TypeOK', NEW op, NEW outcomes, NEW ack,
         \A o \in outcomes : GoodOutcome(o) /\ Kept(o, io, acked),
         ack = "all" => \A o \in outcomes : Closing(o),
         Return(op, outcomes, ack)
  PROVE  KInv' /\ Leaves
<1>1. PICK o \in outcomes : /\ kcf' = o.kcf /\ io' = o.io
                            /\ call' = Returned(op, o.ret)
                            /\ acked' = AckedBy(ack, o)
  BY DEF Return
<1>2. Acked(kcf, io, acked) /\ Idle /\ call.handle = "sound" /\ skipLeft' = skipLeft
  BY SoundCalls DEF Return
<1>3. Good(o.kcf, o.io) /\ Kept(o, io, acked) /\ acked \in Nat
  BY <1>2 DEF GoodOutcome, Acked
<1>4. /\ Len(o.io.cells) \in Nat /\ o.kcf.RecordOffset \in Int
      /\ o.kcf.RecordOffset <= Len(o.io.cells)
  BY <1>3, GoodFields
<1>5. acked <= Len(o.io.cells)
  <2>1. acked > 0 => acked \in 1..acked
    BY <1>3
  <2> QED
    BY <1>3, <1>4, <2>1 DEF Kept, Before
<1>6. o.ret = "OK" => o.ret \notin Bad
  BY DEF Bad, Failures
<1>7. acked' <= Len(io'.cells) /\ (o.ret \notin Bad => Placed(kcf', io', acked'))
  <2>1. CASE acked' = acked
    BY <1>1, <1>3, <1>5, <2>1 DEF Kept
  <2>2. CASE o.ret = "OK" /\ ack = "before" /\ acked' = AtLeast(acked, o.kcf.RecordOffset)
    <3>1. Placed(o.kcf, o.io, acked)
      BY <1>3, <1>6, <2>2 DEF Kept
    <3>2. acked' <= Len(o.io.cells)
      BY <1>3, <1>4, <1>5, <2>2 DEF AtLeast
    <3>3. acked <= o.kcf.RecordOffset => acked' <= o.kcf.RecordOffset
      BY <1>3, <1>4, <2>2 DEF AtLeast
    <3> QED
      BY <1>1, <3>1, <3>2, <3>3 DEF Placed
  <2>3. CASE o.ret = "OK" /\ ack = "all" /\ acked' = Len(o.io.cells)
    <3>1. Placed(o.kcf, o.io, acked)
      BY <1>3, <1>6, <2>3 DEF Kept
    <3>2. o.kcf.ParserState # "WRITE_ADDED_DATA"
      BY <2>3 DEF Closing
    <3> QED
      BY <1>1, <1>4, <2>3, <3>1, <3>2 DEF Placed
  <2> QED
    BY <1>1, <2>1, <2>2, <2>3 DEF AckedBy
<1>8. call'.handle = "sound" => o.ret \notin Bad
  BY <1>1 DEF Returned, Bad
<1>9. Idle'
  BY <1>2 DEF Idle
<1>10. Leaves
  BY <1>1, <1>3 DEF Leaves, Kept
<1> QED
  BY <1>7, <1>8, <1>9, <1>10 DEF KInv

LEMMA SkipKept ==
  ASSUME GivesUp, KInv, TypeOK', KCF_skip_record
  PROVE  KInv' /\ Leaves
<1>1. MayCall /\ acked' = acked
  BY DEF KCF_skip_record
<1>2. Acked(kcf, io, acked) /\ Idle /\ call.handle = "sound"
  BY <1>1, SoundCalls
<1>3. acked \in Nat /\ acked <= Len(io.cells) /\ Len(io.cells) \in Nat /\ Placed(kcf, io, acked)
  BY <1>2, GoodFields DEF Acked
<1>4. CASE kcf' = kcf /\ io' = io /\ (~Idle' => kcf.ParserState = "READ_ADDED_DATA")
  <2>1. Leaves
    BY <1>3, <1>4, SameBefore DEF Leaves
  <2> QED
    BY <1>1, <1>3, <1>4, <2>1 DEF KInv
<1>5. CASE /\ kcf.ParserState = "READ_RECORD_HEADER"
           /\ \E hd \in read_record_header(kcf, io) : SkipFromHeader(hd)
  <2>1. PICK hd \in read_record_header(kcf, io) : SkipFromHeader(hd)
    BY <1>5
  <2>2. Good(kcf, io) /\ kcf.ParserState \notin Writes
    BY <1>2, <1>5 DEF Acked, Writes
  <2>3. hd.io.cells = io.cells /\ hd.kcf.ParserState \notin Writes
    BY <2>2, ReadHeaderQuiet
  <2>4. hd.ret = "OK" => hd.kcf.ParserState = "READ_RECORD_DATA"
    <3>1. \A h : Parsed(kcf, h).ParserState = "READ_RECORD_DATA"
      BY <2>2, GoodFields DEF Parsed, Handles
    <3> QED
      BY <3>1, ReadHeaderForms
  <2>5. kcf' = hd.kcf /\ io' = hd.io /\ (hd.ret = "OK" \/ skipLeft' = skipLeft)
    BY <2>1 DEF SkipFromHeader, SkipReturns, SkipBegins
  <2>6. Leaves
    BY <1>3, <2>3, <2>5, SameBefore DEF Leaves
  <2>7. ~Idle' => kcf'.ParserState = "READ_RECORD_DATA"
    BY <1>2, <2>4, <2>5 DEF Idle
  <2>8. Placed(kcf', io', acked')
    BY <2>3, <2>5 DEF Placed, Writes
  <2> QED
    BY <1>1, <1>3, <2>3, <2>5, <2>6, <2>7, <2>8 DEF KInv
<1>6. CASE kcf.ParserState = "READ_ADDED_DATA" /\ SkipBegins(kcf, io, kcf.AvailableOrToBeWritten)
  BY <1>4, <1>6 DEF SkipBegins
<1>7. CASE SkipReturns(kcf, io, "INVALID_STATE")
  BY <1>2, <1>4, <1>7 DEF SkipReturns, Idle
<1> QED
  BY <1>5, <1>6, <1>7 DEF KCF_skip_record

LEMMA SkipStepKept ==
  ASSUME KInv, TypeOK', SkipStep
  PROVE  KInv' /\ Leaves
<1>1. ~Idle /\ acked' = acked
  BY DEF SkipStep
<1>2. kcf.ParserState \in {"READ_RECORD_DATA", "READ_ADDED_DATA"}
  BY <1>1 DEF KInv
<1>3. io \in Streams /\ acked \in Nat /\ acked <= Len(io.cells) /\ Len(io.cells) \in Nat
  BY DEF KInv, TypeOK, Streams
<1>4. io'.cells = io.cells
  BY <1>3, SkipStepMoves DEF Alike
<1>5. kcf' = kcf
  BY DEF SkipStep, SkipDone, IO_skip_ret
<1>6. Leaves
  BY <1>3, <1>4, SameBefore DEF Leaves
<1>7. Placed(kcf', io', acked')
  BY <1>2, <1>5 DEF Placed
<1> QED
  BY <1>1, <1>2, <1>3, <1>4, <1>5, <1>6, <1>7 DEF KInv

LEMMA NextKept ==
  ASSUME GivesUp, KInv, [Next]_vars
  PROVE  KInv' /\ Leaves
<1> USE DEF Operations
<1>1. TypeOK /\ TypeOK'
  BY NextType DEF KInv
<1>2. acked \in Nat /\ acked <= Len(io.cells) /\ Len(io.cells) \in Nat /\ io \in Streams
  BY DEF KInv, TypeOK, Streams
<1>3. Good(kcf, io)
  BY <1>1, TypeOKGood
<1>4. MayCall => Acked(kcf, io, acked)
  BY SoundCalls
<1>5. CASE StartReading
  <2> DEFINE S == KCF_start_reading(kcf, io)
             ack == IF kcf.ParserState = "WRITE_ADDED_DATA" THEN "all" ELSE "none"
  <2>1. Return("start_reading", S, ack) /\ Acked(kcf, io, acked)
    BY <1>4, <1>5 DEF StartReading, Return
  <2>2. \A o \in S : GoodOutcome(o) /\ Kept(o, io, acked)
    BY <1>3, <2>1, StartReadingType, StartReadingKept
  <2>3. ack = "all" => \A o \in S : Closing(o)
    BY <2>1, StartReadingKept
  <2> HIDE DEF S, ack
  <2> QED
    BY <1>1, <2>1, <2>2, <2>3, ReturnKept
<1>6. CASE StartWriting
  <2> DEFINE S == KCF_start_writing(kcf, io)
  <2>1. Return("start_writing", S, "none") /\ Acked(kcf, io, acked)
    BY <1>4, <1>6 DEF StartWriting, Return
  <2>2. kcf.ParserState = "READ_RECORD_HEADER" => AtEnd(io)
    BY <1>6 DEF StartWriting, MayStartWriting, GivesUp
  <2>3. \A o \in S : GoodOutcome(o) /\ Kept(o, io, acked)
    BY <1>3, <2>1, <2>2, StartWritingType, StartWritingKept
  <2> HIDE DEF S
  <2> QED
    BY <1>1, <2>1, <2>3, ReturnKept
<1>7. CASE InitArchive
  <2>1. PICK p \in Payloads : Return("init_archive", KCF_init_archive(kcf, io, p), "all")
    BY <1>7 DEF InitArchive
  <2> DEFINE S == KCF_init_archive(kcf, io, p)
  <2>2. Acked(kcf, io, acked)
    BY <1>4, <2>1 DEF Return
  <2>3. kcf.ParserState = "READ_RECORD_HEADER" => AtEnd(io)
    BY <1>7 DEF InitArchive, MayStartWriting, GivesUp
  <2>4. kcf.ParserState # "WRITE_ADDED_DATA"
    BY <1>7 DEF InitArchive, MayBeginRecord, GivesUp
  <2>5. \A o \in S : GoodOutcome(o)
    BY <1>3, InitArchiveType
  <2>6. \A o \in S : Kept(o, io, acked) /\ Closing(o)
    BY <2>2, <2>3, <2>4, InitArchiveKept
  <2>7. Return("init_archive", S, "all")
    BY <2>1
  <2> HIDE DEF S
  <2> QED
    BY <1>1, <2>5, <2>6, <2>7, ReturnKept
<1>8. CASE FindMarker
  <2> DEFINE S == KCF_find_marker(kcf, io)
  <2>1. Return("find_marker", S, "none") /\ Acked(kcf, io, acked)
    BY <1>4, <1>8 DEF FindMarker, Return
  <2>2. \A o \in S : GoodOutcome(o) /\ Kept(o, io, acked)
    BY <1>3, <2>1, FindMarkerType, FindMarkerQuiet, QuietKept
  <2> HIDE DEF S
  <2> QED
    BY <1>1, <2>1, <2>2, ReturnKept
<1>9. CASE ReadRecord
  <2> DEFINE S == KCF_read_record(kcf, io)
  <2>1. Return("read_record", S, "none") /\ Acked(kcf, io, acked)
    BY <1>4, <1>9 DEF ReadRecord, Return
  <2>2. \A o \in S : GoodOutcome(o) /\ Kept(o, io, acked)
    BY <1>3, <2>1, ReadRecordType, ReadRecordQuiet, QuietKept
  <2> HIDE DEF S
  <2> QED
    BY <1>1, <2>1, <2>2, ReturnKept
<1>10. CASE ReadAddedData
  <2>1. PICK n \in 0..MaxChunk : Return("read_added_data", KCF_read_added_data(kcf, io, n), "none")
    BY <1>10 DEF ReadAddedData
  <2> DEFINE S == KCF_read_added_data(kcf, io, n)
  <2>2. n \in Nat /\ Acked(kcf, io, acked)
    BY <1>4, <2>1, ConstantsOK DEF Return
  <2>3. \A o \in S : GoodOutcome(o) /\ Kept(o, io, acked)
    BY <1>3, <2>2, ReadAddedDataType, ReadAddedDataQuiet, QuietKept
  <2>4. Return("read_added_data", S, "none")
    BY <2>1
  <2> HIDE DEF S
  <2> QED
    BY <1>1, <2>3, <2>4, ReturnKept
<1>11. CASE KCF_skip_record
  BY <1>1, <1>11, SkipKept
<1>12. CASE SkipStep
  BY <1>1, <1>12, SkipStepKept
<1>13. CASE WriteMarker
  <2> DEFINE S == KCF_write_marker(kcf, io)
  <2>1. Return("write_marker", S, "none") /\ Acked(kcf, io, acked)
    BY <1>4, <1>13 DEF WriteMarker, Return
  <2>2. ~kcf.IsWriting
    BY <1>3, GoodFields
  <2>3. \A o \in S : o \in Refuse(kcf, io)
    BY <2>2 DEF KCF_write_marker
  <2>4. \A o \in S : GoodOutcome(o) /\ Kept(o, io, acked)
    BY <1>3, <2>1, <2>3, WriteMarkerType, RefusedKept
  <2> HIDE DEF S
  <2> QED
    BY <1>1, <2>1, <2>4, ReturnKept
<1>14. CASE WriteRecord
  <2>1. PICK r \in NewRecords :
          Return("write_record", KCF_write_record(kcf, io, r), IF r.hasSize THEN "before" ELSE "all")
    BY <1>14 DEF WriteRecord
  <2> DEFINE S == KCF_write_record(kcf, io, r)
             ack == IF r.hasSize THEN "before" ELSE "all"
  <2>2. r \in Headers /\ Acked(kcf, io, acked) /\ kcf.ParserState # "WRITE_ADDED_DATA"
    BY <1>4, <1>14, <2>1, NewRecordsType DEF WriteRecord, Return, MayBeginRecord, GivesUp
  <2>3. \A o \in S : GoodOutcome(o)
    BY <1>3, <2>2, WriteRecordType
  <2>4. \A o \in S : Kept(o, io, acked) /\ (~r.hasSize => Closing(o))
    BY <2>2, WriteRecordKept
  <2>5. ack = "all" => \A o \in S : Closing(o)
    BY <2>4
  <2>6. Return("write_record", S, ack)
    BY <2>1
  <2> HIDE DEF S, ack
  <2> QED
    BY <1>1, <2>3, <2>4, <2>5, <2>6, ReturnKept
<1>15. CASE WriteRecordWithAddedData
  <2>1. PICK r \in NewRecords, x \in Chunks :
          Return("write_record_with_added_data",
                 KCF_write_record_with_added_data(kcf, io, r, x), "all")
    BY <1>15 DEF WriteRecordWithAddedData
  <2> DEFINE S == KCF_write_record_with_added_data(kcf, io, r, x)
  <2>2. /\ r \in Headers /\ x \in Seq(Bytes) /\ Acked(kcf, io, acked)
        /\ kcf.ParserState # "WRITE_ADDED_DATA"
    BY <1>4, <1>15, <2>1, NewRecordsType, ChunksType
       DEF WriteRecordWithAddedData, Return, MayBeginRecord, GivesUp
  <2>3. \A o \in S : GoodOutcome(o)
    BY <1>3, <2>2, WriteRecordWithAddedDataType
  <2>4. \A o \in S : Kept(o, io, acked) /\ Closing(o)
    BY <2>2, WithDataKept
  <2>5. Return("write_record_with_added_data", S, "all")
    BY <2>1
  <2> HIDE DEF S
  <2> QED
    BY <1>1, <2>3, <2>4, <2>5, ReturnKept
<1>16. CASE WriteAddedData
  <2>1. PICK x \in Chunks : Return("write_added_data", KCF_write_added_data(kcf, io, x), "none")
    BY <1>16 DEF WriteAddedData
  <2> DEFINE S == KCF_write_added_data(kcf, io, x)
  <2>2. x \in Seq(Bytes) /\ Acked(kcf, io, acked)
    BY <1>4, <2>1, ChunksType DEF Return
  <2>3. \A o \in S : GoodOutcome(o) /\ Kept(o, io, acked)
    BY <1>3, <2>2, WriteAddedDataType, WriteAddedDataKept
  <2>4. Return("write_added_data", S, "none")
    BY <2>1
  <2> HIDE DEF S
  <2> QED
    BY <1>1, <2>3, <2>4, ReturnKept
<1>17. CASE FinishAddedData
  <2> DEFINE S == KCF_finish_added_data(kcf, io)
  <2>1. Return("finish_added_data", S, "all") /\ Acked(kcf, io, acked)
    BY <1>4, <1>17 DEF FinishAddedData, Return
  <2>2. \A o \in S : GoodOutcome(o) /\ Kept(o, io, acked)
    BY <1>3, <2>1, FinishType, FinishKept
  <2>3. \A o \in S : Closing(o)
    BY <2>1, FinishKept DEF Closing
  <2> HIDE DEF S
  <2> QED
    BY <1>1, <2>1, <2>2, <2>3, ReturnKept
<1>18. CASE Reopen
  <2>1. kcf'.ParserState = "NEUTRAL" /\ skipLeft' = skipLeft /\ acked' = acked /\ Idle
    BY <1>18 DEF Reopen, NewHandle
  <2>2. io'.cells = io.cells
    BY <1>2, <1>18, SeekFields DEF Reopen
  <2>3. Leaves
    BY <1>2, <2>2, SameBefore DEF Leaves
  <2> QED
    BY <1>1, <1>2, <2>1, <2>2, <2>3 DEF KInv, Placed, Idle
<1>19. CASE UNCHANGED vars
  <2>1. Leaves
    BY <1>2, <1>19, SameBefore DEF Leaves, vars
  <2> QED
    BY <1>1, <1>19, <2>1 DEF KInv, vars, Placed, AtEnd, Idle
<1>20. CASE FileCall
  <2> DEFINE S == FileCallRefused(kcf, io)
  <2>1. Return("file_call", S, "none") /\ Acked(kcf, io, acked)
    BY <1>4, <1>20 DEF FileCall, Return
  <2>2. \A o \in S : o \in Refuse(kcf, io)
    BY DEF FileCallRefused, When
  <2>3. \A o \in S : GoodOutcome(o) /\ Kept(o, io, acked)
    BY <1>3, <2>1, <2>2, FileCallType, RefusedKept
  <2> HIDE DEF S
  <2> QED
    BY <1>1, <2>1, <2>3, ReturnKept
<1>21. CASE SkipFile
  <2> DEFINE S == KCF_skip_file(kcf, io)
  <2>1. Return("skip_file", S, "none") /\ Acked(kcf, io, acked)
    BY <1>4, <1>21 DEF SkipFile, Return
  <2>2. \A o \in S : GoodOutcome(o) /\ Kept(o, io, acked)
    BY <1>3, <2>1, SkipFileType, SkipFileQuiet, QuietKept
  <2> HIDE DEF S
  <2> QED
    BY <1>1, <2>1, <2>2, ReturnKept
<1> QED
  BY <1>5, <1>6, <1>7, <1>8, <1>9, <1>10, <1>11, <1>12, <1>13, <1>14, <1>15, <1>16, <1>17,
     <1>18, <1>19, <1>20, <1>21 DEF Next

(* A caller that takes the first failed call for the end of the handle, and *)
(* ends each record before it begins the next, never loses a record it was  *)
(* told is complete, whichever reads, writes, seeks, flushes and            *)
(* allocations fail (write.c:143-192 writes on the open record's header,    *)
(* and all else at the end).                                                *)
THEOREM RecordsOutliveFailures ==
  ASSUME GivesUp
  PROVE  Spec => AckedRecordsIntact
<1>1. Init => KInv
  <2> SUFFICES ASSUME Init PROVE KInv
    OBVIOUS
  <2>1. TypeOK
    BY InitType
  <2>2. acked = 0 /\ kcf.ParserState = "NEUTRAL" /\ Idle
    BY DEF Init, NewHandle, Idle
  <2>3. Len(io.cells) \in Nat
    BY <2>1 DEF TypeOK, Streams
  <2> QED
    BY <2>1, <2>2, <2>3 DEF KInv, Placed
<1>2. KInv /\ [Next]_vars => KInv'
  BY NextKept
<1>3. KInv /\ [Next]_vars =>
        [\A i \in 1..acked : i <= Len(io'.cells) /\ io'.cells[i] = io.cells[i]]_vars
  BY NextKept DEF Leaves, Before
<1> QED
  BY <1>1, <1>2, <1>3, PTL DEF Spec, AckedRecordsIntact

(***************************************************************************)
(* What such a caller is told is complete, is complete.                     *)
(***************************************************************************)
(* One that also starts to write on whole records, and with no added data   *)
(* read since the last header, and fills the records it announces.          *)
Diligent ==
  /\ Steady /\ GivesUp
  /\ Habits \cap {"after_data", "underfill", "damaged"} = {}

(* What is known of a handle on which no call has failed, whatever the file *)
(* held when it was opened.                                                 *)
Tidy(k, s) ==
  /\ k.ParserState \in PastMarker => Len(s.cells) > 0
  /\ k.ParserState \in {"WRITE_RECORD", "WRITE_ADDED_DATA"} => Sync(k, s)

(* The handle after a call, and the records that the call acknowledges.     *)
Tidies(o, ack) ==
  /\ o.ret \notin Bad => Tidy(o.kcf, o.io)
  /\ o.ret = "OK" /\ ack = "all" => CompleteRecords(o.io.cells, Len(o.io.cells))
  /\ o.ret = "OK" /\ ack = "before" => CompleteRecords(o.io.cells, o.kcf.RecordOffset)

LEMMA SyncTidy ==
  ASSUME NEW k, NEW s, Sync(k, s)
  PROVE  Tidy(k, s)
BY DEF Sync, Tidy

LEMMA SyncTidies ==
  ASSUME NEW o, Sync(o.kcf, o.io)
  PROVE  /\ o.kcf.ParserState # "WRITE_ADDED_DATA" => Tidies(o, "all")
         /\ o.kcf.ParserState = "WRITE_ADDED_DATA" => Tidies(o, "before")
         /\ Tidies(o, "none")
<1>1. Tidy(o.kcf, o.io) /\ CompleteRecords(o.io.cells, SettledAt(o.kcf, o.io))
  BY SyncTidy DEF Sync
<1> QED
  BY <1>1 DEF Tidies, SettledAt

LEMMA FailedTidies ==
  ASSUME NEW o, o.ret \in Bad, NEW ack
  PROVE  Tidies(o, ack)
BY DEF Tidies, Bad, Failures

LEMMA RefusedTidies ==
  ASSUME NEW k, NEW s, Tidy(k, s), NEW o \in Refuse(k, s), NEW ack
  PROVE  Tidies(o, ack)
BY DEF Tidies, Refuse, Result

(* A reader meets the marker before it reads records.                       *)
LEMMA QuietTidies ==
  ASSUME NEW k, NEW s, Tidy(k, s), NEW o, Quiet(o, k, s),
         k.ParserState \in PastMarker \/ o.kcf.ParserState \notin PastMarker \/ Len(s.cells) > 0
  PROVE  Tidies(o, "none")
BY DEF Tidies, Tidy, Quiet, Writes

LEMMA ReadRecordTidies ==
  ASSUME NEW k, NEW s, Good(k, s), Tidy(k, s), NEW o \in KCF_read_record(k, s)
  PROVE  Tidies(o, "none")
<1>1. CASE k.ParserState # "READ_RECORD_HEADER"
  BY <1>1, RefusedTidies DEF KCF_read_record
<1>2. CASE k.ParserState = "READ_RECORD_HEADER"
  <2>1. k.ParserState \in PastMarker
    BY <1>2 DEF PastMarker
  <2> QED
    BY <2>1, ReadRecordQuiet, QuietTidies
<1> QED
  BY <1>1, <1>2

LEMMA ReadAddedDataTidies ==
  ASSUME NEW k, NEW s, Good(k, s), Tidy(k, s), NEW n \in Nat,
         NEW o \in KCF_read_added_data(k, s, n)
  PROVE  Tidies(o, "none")
<1>1. CASE k.ParserState # "READ_ADDED_DATA"
  BY <1>1, RefusedTidies DEF KCF_read_added_data
<1>2. CASE k.ParserState = "READ_ADDED_DATA"
  <2>1. k.ParserState \in PastMarker
    BY <1>2 DEF PastMarker
  <2> QED
    BY <2>1, ReadAddedDataQuiet, QuietTidies
<1> QED
  BY <1>1, <1>2

LEMMA FindMarkerTidies ==
  ASSUME NEW k, NEW s, Good(k, s), Tidy(k, s), NEW o \in KCF_find_marker(k, s)
  PROVE  Tidies(o, "none")
<1>1. CASE k.IsWriting \/ k.ParserState # "READ_MARKER"
  BY <1>1, RefusedTidies DEF KCF_find_marker
<1>2. CASE MarkersAhead(s) # {}
  <2>1. Len(s.cells) > 0
    BY <1>2, GoodFields DEF MarkersAhead
  <2> QED
    BY <2>1, FindMarkerQuiet, QuietTidies
<1>3. CASE /\ ~k.IsWriting /\ k.ParserState = "READ_MARKER"
           /\ MarkersAhead(s) = {}
  <2>1. o.kcf = k
    BY <1>3 DEF KCF_find_marker, When, Result
  <2>2. o.kcf.ParserState \notin PastMarker
    BY <1>3, <2>1 DEF PastMarker
  <2> QED
    BY <2>2, FindMarkerQuiet, QuietTidies
<1> QED
  BY <1>1, <1>2, <1>3

LEMMA SkipFileTidies ==
  ASSUME NEW k, NEW s, Good(k, s), Tidy(k, s), NEW o \in KCF_skip_file(k, s)
  PROVE  Tidies(o, "none")
<1>1. CASE o \in Refuse(k, s)
  BY <1>1, RefusedTidies
<1>2. ASSUME NEW f \in KCF_read_record(k, s),
             o = f \/ (f.ret = "OK" /\ o = Result(f.kcf, f.io, "INVALID_STATE"))
      PROVE  Tidies(o, "none")
  <2>1. Tidies(f, "none")
    BY ReadRecordTidies
  <2> QED
    BY <1>2, <2>1 DEF Tidies, Result, Bad, Failures
<1> QED
  BY <1>1, <1>2 DEF KCF_skip_file

(***************************************************************************)
(* Writing.                                                                 *)
(***************************************************************************)
(* The record writer between records.                                       *)
LEMMA BetweenRecords ==
  ASSUME NEW k, k.ParserState \notin {"WRITE_ADDED_DATA", "WRITING"}, MayWriteRecord(k),
         NEW s, Tidy(k, s)
  PROVE  k.ParserState = "WRITE_RECORD" /\ Sync(k, s)
BY DEF MayWriteRecord, IsWritingState, Tidy

LEMMA WriteRecordTidies ==
  ASSUME Steady, NEW k, NEW s, Good(k, s), Tidy(k, s),
         k.ParserState \notin {"WRITE_ADDED_DATA", "WRITING"}, NEW r, Fit(r),
         NEW o \in KCF_write_record(k, s, r)
  PROVE  Tidies(o, IF r.hasSize THEN "before" ELSE "all")
<1>1. CASE ~MayWriteRecord(k)
  <2>1. o \in Refuse(k, s)
    BY <1>1 DEF KCF_write_record
  <2> QED
    BY <2>1, RefusedTidies
<1>2. CASE o.ret \in Bad
  BY <1>2, FailedTidies
<1>3. CASE MayWriteRecord(k) /\ o.ret \notin Bad
  <2>1. k.ParserState = "WRITE_RECORD" /\ Sync(k, s)
    BY <1>3, BetweenRecords
  <2>2. Wrote(o, SoundSync(k, s)) /\ Opened(o.kcf, r, Len(Finished(k, s)))
    BY <1>3, <2>1, WriteRecordSync
  <2>3. Sync(o.kcf, o.io)
    BY <2>2 DEF Wrote
  <2>4. o.kcf.ParserState = IF r.hasSize THEN "WRITE_ADDED_DATA" ELSE "WRITE_RECORD"
    BY <2>2, NewRecordsFit DEF Opened
  <2> QED
    BY <2>3, <2>4, SyncTidies
<1> QED
  BY <1>1, <1>2, <1>3

LEMMA WithDataTidies ==
  ASSUME Steady, NEW k, NEW s, Good(k, s), Tidy(k, s),
         k.ParserState \notin {"WRITE_ADDED_DATA", "WRITING"},
         NEW r \in Headers, r.hasCRC => r.AddedDataCRC32 = <<>>, NEW x \in Seq(Bytes),
         NEW o \in KCF_write_record_with_added_data(k, s, r, x)
  PROVE  Tidies(o, "all")
<1>1. CASE ~MayWriteRecord(k)
  <2>1. o \in Refuse(k, s)
    BY <1>1 DEF KCF_write_record_with_added_data
  <2> QED
    BY <2>1, RefusedTidies
<1>2. CASE o.ret \in Bad
  BY <1>2, FailedTidies
<1>3. CASE MayWriteRecord(k) /\ o.ret \notin Bad
  <2>1. k.ParserState = "WRITE_RECORD" /\ Sync(k, s)
    BY <1>3, BetweenRecords
  <2>2. Wrote(o, SoundSync(k, s)) /\ o.kcf.ParserState = "WRITE_RECORD"
    <3>1. /\ Harmless \/ k.ParserState # "WRITE_ADDED_DATA"
          /\ k.ParserState = "WRITE_ADDED_DATA" => Whole(k)
      BY <2>1
    <3>2. Wrote(o, SoundSync(k, s))
      BY <1>3, <2>1, <3>1, WithDataSync
    <3>3. /\ o.kcf.ParserState = "WRITE_RECORD"
          /\ o.io.cells = (Finished(k, s) \o <<rec_to_buffer(WithAddedData(r, x))>>) \o x
      BY <1>3, <2>1, <3>1, WithDataSync
    <3> QED
      BY <3>2, <3>3
  <2>3. Sync(o.kcf, o.io)
    BY <2>2 DEF Wrote
  <2> QED
    BY <2>2, <2>3, SyncTidies
<1> QED
  BY <1>1, <1>2, <1>3

LEMMA WriteAddedDataTidies ==
  ASSUME Steady, NEW k, NEW s, Good(k, s), Tidy(k, s), NEW x \in Seq(Bytes),
         NEW o \in KCF_write_added_data(k, s, x)
  PROVE  Tidies(o, "none")
<1>1. CASE k.ParserState # "WRITE_ADDED_DATA"
  <2>1. o \in Refuse(k, s)
    BY <1>1 DEF KCF_write_added_data
  <2> QED
    BY <2>1, RefusedTidies
<1>2. CASE o.ret \in Bad
  BY <1>2, FailedTidies
<1>3. CASE k.ParserState = "WRITE_ADDED_DATA" /\ o.ret \notin Bad
  <2>1. Sync(k, s)
    BY <1>3 DEF Tidy
  <2>2. Wrote(o, SoundSync(k, s))
    BY <1>3, <2>1, WriteAddedDataSync
  <2> QED
    BY <2>2, SyncTidies DEF Wrote
<1> QED
  BY <1>1, <1>2, <1>3

LEMMA FinishTidies ==
  ASSUME Steady, NEW k, NEW s, Good(k, s), Tidy(k, s),
         k.ParserState = "WRITE_ADDED_DATA" => Whole(k),
         NEW o \in KCF_finish_added_data(k, s)
  PROVE  /\ Tidies(o, "all")
         /\ o.ret = "OK" => Ended(o)
         /\ k.ParserState = "WRITE_ADDED_DATA" => o.ret = "OK" \/ o.ret \in Bad
<1>1. CASE k.ParserState # "WRITE_ADDED_DATA"
  <2>1. o \in Refuse(k, s)
    BY <1>1 DEF KCF_finish_added_data
  <2> QED
    BY <1>1, <2>1, RefusedTidies DEF Refuse, Result
<1>2. CASE k.ParserState = "WRITE_ADDED_DATA"
  <2>1. o.ret = "OK" \/ o.ret \in Bad
    <3>1. o = Result(Cleaned(k), s, "OK") \/ o \in Backpatch(k, s)
      BY <1>2 DEF KCF_finish_added_data
    <3>2. o \in Backpatch(k, s) => \E q, t, e : o = Result(q, t, e) /\ e \in Bad \cup {"OK"}
      BY DEF Backpatch, When, Bad, Failures
    <3> QED
      BY <3>1, <3>2 DEF Result
  <2>2. Sync(k, s)
    BY <1>2 DEF Tidy
  <2>3. o.ret = "OK" => Ended(o)
    BY <1>2, <2>2, FinishSync
  <2>4. o.ret = "OK" => Tidies(o, "all")
    BY <2>3, SyncTidies DEF Ended
  <2> QED
    BY <2>1, <2>3, <2>4, FailedTidies
<1> QED
  BY <1>1, <1>2

(* The switches.                                                            *)
LEMMA StartReadingTidies ==
  ASSUME Steady, NEW k, NEW s, Good(k, s), Tidy(k, s),
         k.ParserState = "WRITE_ADDED_DATA" => Whole(k),
         NEW o \in KCF_start_reading(k, s)
  PROVE  Tidies(o, IF k.ParserState = "WRITE_ADDED_DATA" THEN "all" ELSE "none")
<1>1. k \in Handles
  BY GoodFields
<1>2. CASE k.ParserState = "WRITE_ADDED_DATA"
  <2>1. PICK f \in KCF_finish_added_data(k, s) :
          o \in IF f.ret = "OK" THEN Flushed(f.kcf, f.io) ELSE {f}
    BY <1>2 DEF KCF_start_reading
  <2>2. CASE f.ret # "OK"
    <3>1. o = f /\ o.ret \in Bad
      BY <1>2, <2>1, <2>2, FinishTidies
    <3> QED
      BY <3>1, FailedTidies
  <2>3. CASE f.ret = "OK"
    <3> DEFINE q == [f.kcf EXCEPT !.ParserState = "READ_RECORD_HEADER"]
    <3>1. Ended(f) /\ Good(f.kcf, f.io)
      BY <2>1, <2>3, FinishTidies, FinishType DEF GoodOutcome
    <3>2. o = Result(q, f.io, "OK") \/ o = Result(f.kcf, f.io, "UNKNOWN")
      BY <2>1, <2>3 DEF Flushed, When
    <3>3. q.ParserState = "READ_RECORD_HEADER"
      BY <3>1, GoodFields DEF Handles
    <3>4. CompleteRecords(f.io.cells, Len(f.io.cells)) /\ Len(f.io.cells) > 0
      BY <3>1 DEF Ended, Sync, SettledAt, PastMarker
    <3> HIDE DEF q
    <3>5. CASE o = Result(q, f.io, "OK")
      BY <1>2, <3>3, <3>4, <3>5 DEF Tidies, Tidy, Result
    <3>6. CASE o = Result(f.kcf, f.io, "UNKNOWN")
      BY <3>6, FailedTidies DEF Result, Bad, Failures
    <3> QED
      BY <3>2, <3>5, <3>6
  <2> QED
    BY <2>2, <2>3
<1>3. CASE k.ParserState # "WRITE_ADDED_DATA"
  <2> DEFINE To(p) == [k EXCEPT !.ParserState = p]
  <2>1. \/ /\ k.ParserState \in {"NEUTRAL", "READING", "WRITE_MARKER"}
           /\ \E p \in {"READ_MARKER", "READING"} : o = Result(To(p), s, "OK")
        \/ /\ k.ParserState = "WRITE_RECORD"
           /\ o = Result(To("READ_RECORD_HEADER"), s, "OK") \/ o = Result(k, s, "UNKNOWN")
        \/ o = Result(k, s, "OK")
    BY <1>3 DEF KCF_start_reading, Flushed, When
  <2>2. \A p : To(p).ParserState = p
    BY <1>1 DEF Handles
  <2> HIDE DEF To
  <2>3. k.ParserState = "WRITE_RECORD" => Len(s.cells) > 0
    BY DEF Tidy, PastMarker
  <2>4. Tidies(o, "none")
    BY <2>1, <2>2, <2>3 DEF Tidies, Tidy, Result, PastMarker, Bad, Failures
  <2> QED
    BY <1>3, <2>4
<1> QED
  BY <1>2, <1>3

(* Where a caller may go over to writing records.                           *)
Ripe(k, s) ==
  k.ParserState = "READ_RECORD_HEADER" =>
    Startable(k, s) /\ CompleteRecords(s.cells, Len(s.cells))

LEMMA StartWritingTidies ==
  ASSUME NEW k, NEW s, Good(k, s), Tidy(k, s), Ripe(k, s), NEW o \in KCF_start_writing(k, s)
  PROVE  Tidies(o, "none")
<1> DEFINE Into(p) == [k EXCEPT !.ParserState = p]
<1>1. k \in Handles /\ ~k.IsWriting
  BY GoodFields
<1>2. \A p : /\ Into(p).ParserState = p /\ ~Into(p).IsWriting
             /\ Into(p).ReadOrWritten = k.ReadOrWritten
             /\ Into(p).AddedDataCRC32 = k.AddedDataCRC32
  BY <1>1 DEF Handles
<1> HIDE DEF Into
<1>3. CASE k.ParserState \in {"NEUTRAL", "READING", "WRITING", "READ_MARKER"}
  <2>1. o \in KCF_write_marker(Into("WRITE_MARKER"), s)
    BY <1>3 DEF KCF_start_writing, Into
  <2>2. o \in Refuse(Into("WRITE_MARKER"), s)
    BY <1>2, <2>1 DEF KCF_write_marker
  <2>3. Tidy(Into("WRITE_MARKER"), s)
    BY <1>2 DEF Tidy, PastMarker
  <2> QED
    BY <2>2, <2>3, RefusedTidies
<1>4. CASE k.ParserState = "READ_RECORD_HEADER"
  <2>1. o = Result(Into("WRITE_RECORD"), s, "OK")
    BY <1>4 DEF KCF_start_writing, Into
  <2>2. Len(s.cells) > 0
    BY <1>4 DEF Tidy, PastMarker
  <2>3. Sync(Into("WRITE_RECORD"), s)
    BY <1>2, <1>4, <2>2 DEF Sync, SettledAt, Ripe, Startable, PastMarker
  <2> QED
    BY <2>1, <2>3, SyncTidies DEF Result
<1>5. CASE k.ParserState \notin {"NEUTRAL", "READING", "WRITING", "READ_MARKER", "READ_RECORD_HEADER"}
  <2>1. o = Result(k, s, "OK") \/ o = Result(k, s, "INVALID_STATE")
    BY <1>5 DEF KCF_start_writing, Refuse
  <2> QED
    BY <2>1 DEF Tidies, Result
<1> QED
  BY <1>3, <1>4, <1>5

(* No record is open after the switch to writing if none was before.        *)
LEMMA StartWritingBetween ==
  ASSUME NEW k, NEW s, Good(k, s), k.ParserState \notin {"WRITE_ADDED_DATA", "WRITING"},
         NEW f \in KCF_start_writing(k, s)
  PROVE  f.kcf.ParserState \notin {"WRITE_ADDED_DATA", "WRITING"}
<1> DEFINE Into(q) == [k EXCEPT !.ParserState = q]
<1>1. \A q : Into(q).ParserState = q /\ ~Into(q).IsWriting
  <2>1. k \in Handles /\ ~k.IsWriting
    BY GoodFields
  <2> QED
    BY <2>1 DEF Handles
<1> HIDE DEF Into
<1>2. KCF_write_marker(Into("WRITE_MARKER"), s) = Refuse(Into("WRITE_MARKER"), s)
  BY <1>1 DEF KCF_write_marker
<1>3. \/ f \in KCF_write_marker(Into("WRITE_MARKER"), s)
      \/ f = Result(Into("WRITE_RECORD"), s, "OK")
      \/ f \in Refuse(k, s) \/ f = Result(k, s, "OK")
  BY DEF KCF_start_writing, Into
<1>4. f.kcf \in {Into("WRITE_MARKER"), Into("WRITE_RECORD"), k}
  BY <1>2, <1>3 DEF Refuse, Result
<1> QED
  BY <1>1, <1>4

LEMMA InitArchiveTidies ==
  ASSUME Steady, NEW k, NEW s, Good(k, s), Tidy(k, s), Ripe(k, s),
         k.ParserState \notin {"WRITE_ADDED_DATA", "WRITING"},
         NEW p \in Payloads, NEW o \in KCF_init_archive(k, s, p)
  PROVE  Tidies(o, "all")
<1> DEFINE header == [ZeroRecord EXCEPT !.payload = p]
<1>1. Fit(header) /\ ~header.hasSize
  <2>1. header \in NewRecords /\ ~header.hasSize
    BY DEF ZeroRecord, NewRecords, RecordOf
  <2> HIDE DEF header
  <2> QED
    BY <2>1, NewRecordsFit
<1>2. PICK f \in KCF_start_writing(k, s) :
        IF f.ret = "OK" THEN \/ o \in KCF_write_record(f.kcf, f.io, header)
                             \/ o = Result(f.kcf, f.io, "CRASHED")
                        ELSE o = f
  BY DEF KCF_init_archive, KCF_write_archive_header, When
<1> HIDE DEF header
<1>3. Tidies(f, "none") /\ Good(f.kcf, f.io)
  BY StartWritingTidies, StartWritingType DEF GoodOutcome
<1>4. f.kcf.ParserState \notin {"WRITE_ADDED_DATA", "WRITING"}
  BY StartWritingBetween
<1>5. CASE f.ret # "OK"
  BY <1>2, <1>3, <1>5 DEF Tidies
<1>6. CASE f.ret = "OK"
  <2>1. Tidy(f.kcf, f.io)
    BY <1>3, <1>6 DEF Tidies, Bad, Failures
  <2>2. CASE o \in KCF_write_record(f.kcf, f.io, header)
    <3>1. Tidies(o, IF header.hasSize THEN "before" ELSE "all")
      BY <1>1, <1>3, <1>4, <2>1, <2>2, WriteRecordTidies
    <3> QED
      BY <1>1, <3>1
  <2>3. CASE o = Result(f.kcf, f.io, "CRASHED")
    BY <2>3 DEF Result, Tidies, Bad
  <2> QED
    BY <1>2, <1>6, <2>2, <2>3
<1> QED
  BY <1>5, <1>6

(***************************************************************************)
(* The invariant of a diligent caller.                                      *)
(***************************************************************************)
NInv ==
  /\ KInv
  /\ AckedRecordsComplete
  /\ call.handle = "sound" => Tidy(kcf, io)

LEMMA NextLeaves ==
  ASSUME GivesUp, KInv, AckedRecordsComplete, [Next]_vars
  PROVE  KInv' /\ CompleteRecords(io'.cells, acked)
<1>1. KInv' /\ Leaves
  BY NextKept
<1>2. /\ io.cells \in Seq(Cells) /\ io'.cells \in Seq(Cells)
      /\ acked \in Nat /\ acked <= Len(io.cells)
  BY <1>1, TypeOKGood, GoodFields DEF KInv, TypeOK, Streams, Cells
<1>3. acked <= Len(io'.cells)
  <2>1. acked > 0 => acked \in 1..acked
    BY <1>2
  <2>2. Len(io'.cells) \in Nat
    BY <1>2
  <2> QED
    BY <1>1, <1>2, <2>1, <2>2 DEF Leaves, Before
<1>4. \A i \in 1..acked : io.cells[i] = io'.cells[i]
  BY <1>1 DEF Leaves, Before
<1>5. CompleteRecords(io.cells, acked)
  BY DEF AckedRecordsComplete
<1> QED
  BY <1>1, <1>2, <1>3, <1>4, <1>5, PrefixComplete

LEMMA ReturnTidies ==
  ASSUME Diligent, NInv, [Next]_vars, NEW op, NEW outcomes, NEW ack,
         \A o \in outcomes : Tidies(o, ack),
         Return(op, outcomes, ack)
  PROVE  NInv'
<1>1. PICK o \in outcomes : /\ kcf' = o.kcf /\ io' = o.io
                            /\ call' = Returned(op, o.ret)
                            /\ acked' = AckedBy(ack, o)
  BY DEF Return
<1>2. KInv' /\ CompleteRecords(io'.cells, acked)
  BY NextLeaves DEF NInv, Diligent
<1>3. Tidies(o, ack)
  OBVIOUS
<1>4. CompleteRecords(io'.cells, acked')
  <2>1. CASE acked' = acked
    BY <1>2, <2>1
  <2>2. CASE o.ret = "OK" /\ ack = "before" /\ acked' = AtLeast(acked, o.kcf.RecordOffset)
    <3>1. acked' = acked \/ acked' = o.kcf.RecordOffset
      BY <2>2 DEF AtLeast
    <3> QED
      BY <1>1, <1>2, <1>3, <2>2, <3>1 DEF Tidies
  <2>3. CASE o.ret = "OK" /\ ack = "all" /\ acked' = Len(o.io.cells)
    BY <1>1, <1>3, <2>3 DEF Tidies
  <2> QED
    BY <1>1, <2>1, <2>2, <2>3 DEF AckedBy
<1>5. call'.handle = "sound" => Tidy(kcf', io')
  BY <1>1, <1>3 DEF Returned, Tidies, Bad
<1> QED
  BY <1>2, <1>4, <1>5 DEF NInv, AckedRecordsComplete

LEMMA SkipTidies ==
  ASSUME Diligent, NInv, KCF_skip_record \/ SkipStep
  PROVE  NInv'
<1>1. [Next]_vars
  BY DEF Next
<1>2. KInv' /\ CompleteRecords(io'.cells, acked)
  BY <1>1, NextLeaves DEF NInv, Diligent
<1>3. acked' = acked /\ Good(kcf, io)
  BY TypeOKGood DEF KCF_skip_record, SkipStep, NInv, KInv
<1>4. ASSUME call'.handle = "sound" PROVE Tidy(kcf', io')
  <2>1. CASE KCF_skip_record
    <3>1. Tidy(kcf, io)
      BY <2>1, SoundCalls DEF KCF_skip_record, NInv, Diligent
    <3>2. CASE kcf.ParserState # "READ_RECORD_HEADER"
      <4>1. kcf' = kcf /\ io' = io
        BY <2>1, <3>2 DEF KCF_skip_record, SkipBegins, SkipReturns
      <4> QED
        BY <3>1, <4>1
    <3>3. CASE kcf.ParserState = "READ_RECORD_HEADER"
      <4>1. PICK hd \in read_record_header(kcf, io) : SkipFromHeader(hd)
        BY <2>1, <3>3 DEF KCF_skip_record
      <4>2. hd.io.cells = io.cells /\ hd.kcf.ParserState \notin Writes
        <5>1. kcf.ParserState \notin Writes
          BY <3>3 DEF Writes
        <5> QED
          BY <1>3, <5>1, ReadHeaderQuiet
      <4>3. kcf' = hd.kcf /\ io' = hd.io
        BY <4>1 DEF SkipFromHeader, SkipReturns, SkipBegins
      <4>4. Len(io.cells) > 0
        BY <3>1, <3>3 DEF Tidy, PastMarker
      <4> QED
        BY <4>2, <4>3, <4>4 DEF Tidy, Writes
    <3> QED
      BY <3>2, <3>3
  <2>2. CASE SkipStep
    <3>1. call' = call /\ kcf' = kcf
      BY <1>4, <2>2 DEF SkipStep, SkipDone, IO_skip_ret, Returned, Failures
    <3>2. kcf.ParserState \in {"READ_RECORD_DATA", "READ_ADDED_DATA"}
      BY <2>2 DEF SkipStep, NInv, KInv
    <3>3. io'.cells = io.cells
      BY <1>3, <2>2, GoodFields, SkipStepMoves DEF Alike
    <3>4. Len(io.cells) > 0
      BY <1>4, <3>1, <3>2 DEF NInv, Tidy, PastMarker
    <3> QED
      BY <3>1, <3>2, <3>3, <3>4 DEF Tidy
  <2> QED
    BY <2>1, <2>2
<1> QED
  BY <1>2, <1>3, <1>4 DEF NInv, AckedRecordsComplete

(* What a diligent caller heeds before a call.                              *)
LEMMA DiligentCalls ==
  ASSUME Diligent, NInv, MayCall
  PROVE  /\ Good(kcf, io) /\ Tidy(kcf, io) /\ kcf.ParserState # "WRITING"
         /\ MayEndRecord => (kcf.ParserState = "WRITE_ADDED_DATA" => Whole(kcf))
         /\ MayBeginRecord => kcf.ParserState # "WRITE_ADDED_DATA"
         /\ MayStartWriting => Ripe(kcf, io)
<1>1. Acked(kcf, io, acked) /\ call.handle = "sound" /\ kcf \in Handles
  BY SoundCalls, TypeOKGood, GoodFields DEF NInv, KInv, Diligent
<1>2. Good(kcf, io) /\ Tidy(kcf, io) /\ kcf.ParserState # "WRITING"
  BY <1>1 DEF Acked, Placed, NInv
<1>3. MayEndRecord => (kcf.ParserState = "WRITE_ADDED_DATA" => Whole(kcf))
  BY <1>1 DEF MayEndRecord, Whole, Diligent, Handles
<1>4. MayBeginRecord => kcf.ParserState # "WRITE_ADDED_DATA"
  BY DEF MayBeginRecord, Diligent, GivesUp
<1>5. MayStartWriting => Ripe(kcf, io)
  BY DEF MayStartWriting, Diligent, GivesUp, Ripe, Startable
<1> QED
  BY <1>2, <1>3, <1>4, <1>5

LEMMA ReaderNext ==
  ASSUME Diligent, NInv, [Next]_vars,
         FindMarker \/ ReadRecord \/ ReadAddedData \/ WriteMarker \/ FileCall \/ SkipFile
  PROVE  NInv'
<1>1. CASE FindMarker
  <2>1. Return("find_marker", KCF_find_marker(kcf, io), "none")
    BY <1>1 DEF FindMarker
  <2>2. \A o \in KCF_find_marker(kcf, io) : Tidies(o, "none")
    BY <2>1, DiligentCalls, FindMarkerTidies DEF Return
  <2> QED
    BY <2>1, <2>2, ReturnTidies
<1>2. CASE ReadRecord
  <2>1. Return("read_record", KCF_read_record(kcf, io), "none")
    BY <1>2 DEF ReadRecord
  <2>2. \A o \in KCF_read_record(kcf, io) : Tidies(o, "none")
    BY <2>1, DiligentCalls, ReadRecordTidies DEF Return
  <2> QED
    BY <2>1, <2>2, ReturnTidies
<1>3. CASE ReadAddedData
  <2>1. PICK n \in 0..MaxChunk : Return("read_added_data", KCF_read_added_data(kcf, io, n), "none")
    BY <1>3 DEF ReadAddedData
  <2>2. n \in Nat
    BY ConstantsOK
  <2>3. \A o \in KCF_read_added_data(kcf, io, n) : Tidies(o, "none")
    BY <2>1, <2>2, DiligentCalls, ReadAddedDataTidies DEF Return
  <2> QED
    BY <2>1, <2>3, ReturnTidies
<1>4. CASE WriteMarker
  <2>1. Return("write_marker", KCF_write_marker(kcf, io), "none")
    BY <1>4 DEF WriteMarker
  <2>2. Good(kcf, io) /\ Tidy(kcf, io)
    BY <2>1, DiligentCalls DEF Return
  <2>3. \A o \in KCF_write_marker(kcf, io) : o \in Refuse(kcf, io)
    BY <2>2, GoodFields DEF KCF_write_marker
  <2>4. \A o \in KCF_write_marker(kcf, io) : Tidies(o, "none")
    BY <2>2, <2>3, RefusedTidies
  <2> QED
    BY <2>1, <2>4, ReturnTidies
<1>5. CASE FileCall
  <2>1. Return("file_call", FileCallRefused(kcf, io), "none")
    BY <1>5 DEF FileCall
  <2>2. \A o \in FileCallRefused(kcf, io) : o \in Refuse(kcf, io)
    BY DEF FileCallRefused, When
  <2>3. \A o \in FileCallRefused(kcf, io) : Tidies(o, "none")
    BY <2>1, <2>2, DiligentCalls, RefusedTidies DEF Return
  <2> QED
    BY <2>1, <2>3, ReturnTidies
<1>6. CASE SkipFile
  <2>1. Return("skip_file", KCF_skip_file(kcf, io), "none")
    BY <1>6 DEF SkipFile
  <2>2. \A o \in KCF_skip_file(kcf, io) : Tidies(o, "none")
    BY <2>1, DiligentCalls, SkipFileTidies DEF Return
  <2> QED
    BY <2>1, <2>2, ReturnTidies
<1> QED
  BY <1>1, <1>2, <1>3, <1>4, <1>5, <1>6

LEMMA WriterNext ==
  ASSUME Diligent, NInv, [Next]_vars,
         WriteRecord \/ WriteRecordWithAddedData \/ WriteAddedData \/ FinishAddedData
  PROVE  NInv'
<1>1. Steady
  BY DEF Diligent
<1>2. CASE WriteRecord
  <2>1. PICK r \in NewRecords :
          Return("write_record", KCF_write_record(kcf, io, r), IF r.hasSize THEN "before" ELSE "all")
    BY <1>2 DEF WriteRecord
  <2> DEFINE ack == IF r.hasSize THEN "before" ELSE "all"
  <2>2. Fit(r)
    BY <1>1, NewRecordsFit
  <2>3. /\ Good(kcf, io) /\ Tidy(kcf, io)
        /\ kcf.ParserState \notin {"WRITE_ADDED_DATA", "WRITING"}
    BY <1>2, <2>1, DiligentCalls DEF Return, WriteRecord
  <2>4. \A o \in KCF_write_record(kcf, io, r) : Tidies(o, ack)
    BY <1>1, <2>2, <2>3, WriteRecordTidies
  <2>5. Return("write_record", KCF_write_record(kcf, io, r), ack)
    BY <2>1
  <2> HIDE DEF ack
  <2> QED
    BY <2>4, <2>5, ReturnTidies
<1>3. CASE WriteRecordWithAddedData
  <2>1. PICK r \in NewRecords, x \in Chunks :
          Return("write_record_with_added_data",
                 KCF_write_record_with_added_data(kcf, io, r, x), "all")
    BY <1>3 DEF WriteRecordWithAddedData
  <2>2. r \in Headers /\ (r.hasCRC => r.AddedDataCRC32 = <<>>) /\ x \in Seq(Bytes)
    BY <1>1, NewRecordsFit, ChunksType
  <2>3. /\ Good(kcf, io) /\ Tidy(kcf, io)
        /\ kcf.ParserState \notin {"WRITE_ADDED_DATA", "WRITING"}
    BY <1>3, <2>1, DiligentCalls DEF Return, WriteRecordWithAddedData
  <2>4. \A o \in KCF_write_record_with_added_data(kcf, io, r, x) : Tidies(o, "all")
    BY <1>1, <2>2, <2>3, WithDataTidies
  <2> QED
    BY <2>1, <2>4, ReturnTidies
<1>4. CASE WriteAddedData
  <2>1. PICK x \in Chunks : Return("write_added_data", KCF_write_added_data(kcf, io, x), "none")
    BY <1>4 DEF WriteAddedData
  <2>2. x \in Seq(Bytes) /\ Good(kcf, io) /\ Tidy(kcf, io)
    BY <2>1, ChunksType, DiligentCalls DEF Return
  <2>3. \A o \in KCF_write_added_data(kcf, io, x) : Tidies(o, "none")
    BY <1>1, <2>2, WriteAddedDataTidies
  <2> QED
    BY <2>1, <2>3, ReturnTidies
<1>5. CASE FinishAddedData
  <2>1. Return("finish_added_data", KCF_finish_added_data(kcf, io), "all")
    BY <1>5 DEF FinishAddedData
  <2>2. /\ Good(kcf, io) /\ Tidy(kcf, io)
        /\ kcf.ParserState = "WRITE_ADDED_DATA" => Whole(kcf)
    BY <1>5, <2>1, DiligentCalls DEF Return, FinishAddedData
  <2>3. \A o \in KCF_finish_added_data(kcf, io) : Tidies(o, "all")
    BY <1>1, <2>2, FinishTidies
  <2> QED
    BY <2>1, <2>3, ReturnTidies
<1> QED
  BY <1>2, <1>3, <1>4, <1>5

LEMMA SwitchNext ==
  ASSUME Diligent, NInv, [Next]_vars, StartReading \/ StartWriting \/ InitArchive
  PROVE  NInv'
<1>1. Steady
  BY DEF Diligent
<1>2. CASE StartReading
  <2> DEFINE ack == IF kcf.ParserState = "WRITE_ADDED_DATA" THEN "all" ELSE "none"
  <2>1. Return("start_reading", KCF_start_reading(kcf, io), ack)
    BY <1>2 DEF StartReading
  <2>2. /\ Good(kcf, io) /\ Tidy(kcf, io)
        /\ kcf.ParserState = "WRITE_ADDED_DATA" => Whole(kcf)
    BY <1>2, <2>1, DiligentCalls DEF Return, StartReading
  <2>3. \A o \in KCF_start_reading(kcf, io) : Tidies(o, ack)
    BY <1>1, <2>2, StartReadingTidies
  <2> HIDE DEF ack
  <2> QED
    BY <2>1, <2>3, ReturnTidies
<1>3. CASE StartWriting
  <2>1. Return("start_writing", KCF_start_writing(kcf, io), "none")
    BY <1>3 DEF StartWriting
  <2>2. Good(kcf, io) /\ Tidy(kcf, io) /\ Ripe(kcf, io)
    BY <1>3, <2>1, DiligentCalls DEF Return, StartWriting
  <2>3. \A o \in KCF_start_writing(kcf, io) : Tidies(o, "none")
    BY <2>2, StartWritingTidies
  <2> QED
    BY <2>1, <2>3, ReturnTidies
<1>4. CASE InitArchive
  <2>1. PICK p \in Payloads : Return("init_archive", KCF_init_archive(kcf, io, p), "all")
    BY <1>4 DEF InitArchive
  <2>2. /\ Good(kcf, io) /\ Tidy(kcf, io) /\ Ripe(kcf, io)
        /\ kcf.ParserState \notin {"WRITE_ADDED_DATA", "WRITING"}
    BY <1>4, <2>1, DiligentCalls DEF Return, InitArchive
  <2>3. \A o \in KCF_init_archive(kcf, io, p) : Tidies(o, "all")
    BY <1>1, <2>2, InitArchiveTidies
  <2> QED
    BY <2>1, <2>3, ReturnTidies
<1> QED
  BY <1>2, <1>3, <1>4

LEMMA StepTidies ==
  ASSUME Diligent, NInv, [Next]_vars
  PROVE  NInv'
<1>1. KInv' /\ CompleteRecords(io'.cells, acked)
  BY NextLeaves DEF NInv, Diligent
<1>2. CASE Reopen
  <2>1. kcf'.ParserState = "NEUTRAL" /\ acked' = acked
    BY <1>2 DEF Reopen, NewHandle
  <2> QED
    BY <1>1, <2>1 DEF NInv, AckedRecordsComplete, Tidy, PastMarker
<1>3. CASE UNCHANGED vars
  BY <1>1, <1>3 DEF vars, NInv, AckedRecordsComplete
<1> QED
  BY <1>2, <1>3, ReaderNext, WriterNext, SwitchNext, SkipTidies DEF Next

LEMMA InitTidies ==
  ASSUME Init
  PROVE  NInv
<1>1. TypeOK
  BY InitType
<1>2. acked = 0 /\ kcf.ParserState = "NEUTRAL" /\ Idle
  BY DEF Init, NewHandle, Idle
<1>3. Len(io.cells) \in Nat
  BY <1>1 DEF TypeOK, Streams
<1>4. KInv
  BY <1>1, <1>2, <1>3 DEF KInv, Placed
<1>5. CompleteRecords(io.cells, acked)
  BY <1>2 DEF CompleteRecords
<1> QED
  BY <1>2, <1>4, <1>5 DEF NInv, AckedRecordsComplete, Tidy, PastMarker

(* Every cell that a diligent caller was ever told belongs to a complete    *)
(* record does, whichever reads, writes, seeks, flushes and allocations     *)
(* fail, whatever the file held before, and however often it was closed     *)
(* and opened again: KCF_finish_added_data, KCF_write_record,               *)
(* KCF_write_record_with_added_data and KCF_start_reading (write.c,         *)
(* archive.c:30-57) report success for whole records alone.                 *)
THEOREM SuccessMeansComplete ==
  ASSUME Diligent
  PROVE  Spec => []AckedRecordsComplete
<1>1. Init => NInv
  BY InitTidies
<1>2. NInv /\ [Next]_vars => NInv'
  BY StepTidies
<1>3. NInv => AckedRecordsComplete
  BY DEF NInv
<1> QED
  BY <1>1, <1>2, <1>3, PTL DEF Spec

(* While no call on its handle has failed, the archive that such a caller   *)
(* writes to is one of whole records, but for the one in progress: what an  *)
(* earlier handle left unfinished never gets inside.                        *)
THEOREM WholeWhileSound ==
  ASSUME Diligent
  PROVE  Spec => []WholeUntilFailure
<1>1. Init => NInv
  BY InitTidies
<1>2. NInv /\ [Next]_vars => NInv'
  BY StepTidies
<1>3. NInv => WholeUntilFailure
  BY DEF NInv, Tidy, Sync, SettledAt, WholeUntilFailure, ArchiveWellFormed, Settled
<1> QED
  BY <1>1, <1>2, <1>3, PTL DEF Spec
===============================================================================
