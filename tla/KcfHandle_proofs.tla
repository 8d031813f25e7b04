-------------------------- MODULE KcfHandle_proofs ---------------------------
(***************************************************************************)
(* Theorems about KcfHandle for all bytes, payloads, bounds and files.      *)
(***************************************************************************)
EXTENDS KcfHandle, TLAPS

Cells == Symbols \cup HeaderCells

GoodStreams == {s \in Streams : s.pos <= Len(s.cells) /\ (s.within => ~AtEnd(s))}

(* The same stream at another position.                                     *)
Alike(s, t) == s.cells = t.cells /\ s.writable = t.writable

(* A handle and the stream it is used with, and what a function of the      *)
(* library may come back with.                                              *)
Good(k, s) == k \in Handles /\ s \in GoodStreams /\ k.RecordOffset <= Len(s.cells)

GoodOutcome(o) == Good(o.kcf, o.io) /\ o.ret \in Errors

(***************************************************************************)
(* The stream.                                                              *)
(***************************************************************************)
LEMMA PutType ==
  ASSUME NEW S, NEW cells \in Seq(S), NEW pos \in Nat, pos <= Len(cells), NEW x \in Seq(S)
  PROVE  /\ Put(cells, pos, x) \in Seq(S)
         /\ Len(Put(cells, pos, x)) = AtLeast(Len(cells), pos + Len(x))
<1> DEFINE n == AtLeast(Len(cells), pos + Len(x))
           f == [i \in 1..n |-> IF i \in (pos + 1)..(pos + Len(x)) THEN x[i - pos] ELSE cells[i]]
<1>1. n \in Nat
  BY DEF AtLeast
<1>2. ASSUME NEW i \in 1..n PROVE f[i] \in S
  <2>1. CASE i \in (pos + 1)..(pos + Len(x))
    BY <2>1
  <2>2. CASE i \notin (pos + 1)..(pos + Len(x))
    BY <2>2 DEF AtLeast
  <2> QED
    BY <2>1, <2>2
<1>3. f \in [1..n -> S]
  BY <1>2
<1>4. f \in Seq(S) /\ Len(f) = n
  <2> HIDE DEF n, f
  <2> QED
    BY <1>1, <1>3
<1> QED
  BY <1>4 DEF Put

LEMMA EmptyType ==
  ASSUME NEW S
  PROVE  <<>> \in Seq(S)
OBVIOUS

LEMMA ZeroRecordType == ZeroRecord \in Headers
BY EmptyType DEF ZeroRecord, Headers, RecordOf, Data

LEMMA SeekFields ==
  ASSUME NEW s \in Streams, NEW p
  PROVE  /\ Seek(s, p).cells = s.cells /\ Seek(s, p).pos = p /\ ~Seek(s, p).within
         /\ Seek(s, p).writable = s.writable
BY DEF Seek, Streams

LEMMA AheadAlike ==
  ASSUME NEW s \in Streams, NEW n
  PROVE  Alike(Ahead(s, n), s)
BY SeekFields DEF Ahead, Alike

LEMMA StoredFields ==
  ASSUME NEW s \in Streams, NEW x
  PROVE  /\ Stored(s, x).cells = Put(s.cells, s.pos, x) /\ Stored(s, x).pos = s.pos + Len(x)
         /\ ~Stored(s, x).within /\ Stored(s, x).writable = s.writable
BY DEF Stored, Seek, Streams

LEMMA StoredType ==
  ASSUME NEW s \in GoodStreams, NEW x \in Seq(Cells)
  PROVE  Stored(s, x) \in GoodStreams /\ Len(s.cells) <= Len(Stored(s, x).cells)
<1>1. /\ Put(s.cells, s.pos, x) \in Seq(Cells)
      /\ Len(Put(s.cells, s.pos, x)) = AtLeast(Len(s.cells), s.pos + Len(x))
  BY PutType DEF GoodStreams, Streams, Cells
<1>2. /\ s.pos + Len(x) \in Nat /\ s.pos + Len(x) <= AtLeast(Len(s.cells), s.pos + Len(x))
      /\ Len(s.cells) <= AtLeast(Len(s.cells), s.pos + Len(x))
  BY DEF GoodStreams, Streams, AtLeast
<1>3. /\ Seek(s, s.pos + Len(x)) \in Streams
      /\ Seek(s, s.pos + Len(x)).pos = s.pos + Len(x) /\ ~Seek(s, s.pos + Len(x)).within
  BY <1>2 DEF Seek, GoodStreams, Streams
<1> QED
  BY <1>1, <1>2, <1>3 DEF Stored, GoodStreams, Streams, Cells

LEMMA PartsType ==
  ASSUME NEW x \in Seq(Cells), NEW y \in PartsOf(x)
  PROVE  y \in Seq(Cells)
<1>1. <<>> \in Seq(Cells) /\ <<Torn>> \in Seq(Cells)
  BY EmptyType DEF Cells, Symbols
<1>2. ASSUME NEW n \in 0..(Len(x) - 1) PROVE SubSeq(x, 1, n) \in Seq(Cells)
  OBVIOUS
<1> QED
  BY <1>1, <1>2 DEF PartsOf

LEMMA WriteType ==
  ASSUME NEW s \in GoodStreams, NEW x \in Seq(Cells), NEW w \in IO_write(s, x)
  PROVE  w.io \in GoodStreams /\ w.ok \in BOOLEAN /\ Len(s.cells) <= Len(w.io.cells)
<1>2. \/ w = [io |-> s, ok |-> FALSE]
      \/ \E y \in {x} \cup PartsOf(x), b \in BOOLEAN : w = [io |-> Stored(s, y), ok |-> b]
  BY DEF IO_write, ChunksOf, When
<1>3. CASE w = [io |-> s, ok |-> FALSE]
  BY <1>3 DEF GoodStreams, Streams
<1>4. CASE \E y \in {x} \cup PartsOf(x), b \in BOOLEAN : w = [io |-> Stored(s, y), ok |-> b]
  <2>1. PICK y \in {x} \cup PartsOf(x), b \in BOOLEAN : w = [io |-> Stored(s, y), ok |-> b]
    BY <1>4
  <2>2. y \in Seq(Cells)
    BY PartsType
  <2> QED
    BY <2>1, <2>2, StoredType
<1> QED
  BY <1>2, <1>3, <1>4

LEMMA TellType ==
  ASSUME NEW s \in GoodStreams, NEW o \in IO_tell(s)
  PROVE  o \in Nat \cup {-1} /\ o <= Len(s.cells)
BY DEF IO_tell, When, GoodStreams, Streams

LEMMA SeekType ==
  ASSUME NEW s \in GoodStreams, NEW p \in Nat, p <= Len(s.cells)
  PROVE  Seek(s, p) \in GoodStreams /\ Alike(Seek(s, p), s)
BY DEF Seek, Alike, GoodStreams, Streams

LEMMA AheadType ==
  ASSUME NEW s \in GoodStreams, NEW n \in 0..Remainder(s)
  PROVE  Ahead(s, n) \in GoodStreams /\ Alike(Ahead(s, n), s)
<1>1. CASE n = 0
  BY <1>1 DEF Ahead, Alike
<1>2. CASE n # 0
  <2>1. s.pos + n \in Nat /\ s.pos + n <= Len(s.cells)
    BY DEF Remainder, GoodStreams, Streams
  <2> QED
    BY <1>2, <2>1, SeekType DEF Ahead
<1> QED
  BY <1>1, <1>2

LEMMA YieldType ==
  ASSUME NEW s \in GoodStreams, NEW n \in Nat, NEW got \in Yield(s, n)
  PROVE  got \in 0..Remainder(s) /\ got <= n
<1>1. AtMost(n, Remainder(s)) \in 0..Remainder(s) /\ AtMost(n, Remainder(s)) <= n
  BY DEF AtMost, Remainder, GoodStreams, Streams
<1>2. got \in 0..AtMost(n, Remainder(s))
  BY <1>1 DEF Yield, When
<1>3. Remainder(s) \in Int
  BY DEF Remainder, GoodStreams, Streams
<1> QED
  BY <1>1, <1>2, <1>3

LEMMA OnwardsType ==
  ASSUME NEW s \in GoodStreams, NEW t \in Onwards(s)
  PROVE  t \in GoodStreams /\ Alike(t, s)
<1>1. s.pos \in Nat /\ Len(s.cells) \in Nat
  BY DEF GoodStreams, Streams
<1>2. ASSUME NEW p \in (s.pos + 1)..Len(s.cells)
      PROVE  Seek(s, p) \in GoodStreams /\ Alike(Seek(s, p), s)
  <2>1. p \in Nat /\ p <= Len(s.cells)
    BY <1>1
  <2> QED
    BY <2>1, SeekType
<1>3. ASSUME NEW p \in (s.pos + 1)..Len(s.cells)
      PROVE  Within(s, p - 1) \in GoodStreams /\ Alike(Within(s, p - 1), s)
  <2>1. p - 1 \in Nat /\ p - 1 < Len(s.cells)
    BY <1>1
  <2>2. Within(s, p - 1) \in Streams
    BY <2>1 DEF Within, GoodStreams, Streams
  <2>3. Alike(Within(s, p - 1), s) /\ Within(s, p - 1).pos = p - 1
    BY DEF Within, Alike, GoodStreams, Streams
  <2> QED
    BY <2>1, <2>2, <2>3, <1>1 DEF GoodStreams, AtEnd, Alike
<1>4. \/ t = s
      \/ \E p \in (s.pos + 1)..Len(s.cells) : t = Seek(s, p) \/ t = Within(s, p - 1)
  BY DEF Onwards
<1> QED
  BY <1>2, <1>3, <1>4 DEF Alike

LEMMA SeekBackType ==
  ASSUME NEW s \in GoodStreams, NEW p \in Nat, p <= Len(s.cells), NEW b \in SeekBack(s, p)
  PROVE  b \in GoodStreams /\ Alike(b, s)
BY SeekType DEF SeekBack, When, Alike

LEMMA GrownGood ==
  ASSUME NEW k, NEW s, Good(k, s),
         NEW q \in Handles, q.RecordOffset = k.RecordOffset,
         NEW t \in GoodStreams, Len(s.cells) <= Len(t.cells)
  PROVE  Good(q, t)
<1>1. k.RecordOffset \in Int /\ k.RecordOffset <= Len(s.cells)
  BY DEF Good, Handles
<1>2. Len(s.cells) \in Nat /\ Len(t.cells) \in Nat
  BY DEF Good, GoodStreams, Streams
<1> QED
  BY <1>1, <1>2 DEF Good

LEMMA GoodNumbers ==
  ASSUME NEW k, NEW s, Good(k, s)
  PROVE  k.RecordOffset \in Int /\ s.pos \in Nat /\ Len(s.cells) \in Nat
<1>1. k.RecordOffset \in Int
  BY DEF Good, Handles
<1>2. s.pos \in Nat /\ Len(s.cells) \in Nat
  BY DEF Good, GoodStreams, Streams
<1> QED
  BY <1>1, <1>2

LEMMA GoodResult ==
  ASSUME NEW k, NEW s, Good(k, s), NEW e \in Errors
  PROVE  GoodOutcome(Result(k, s, e))
BY DEF GoodOutcome, Result

LEMMA ErrorTypes ==
  {"OK", "READ", "WRITE", "OUT_OF_MEMORY", "UNKNOWN",
   "INVALID_STATE", "INVALID_FORMAT", "CRASHED"} \subseteq Errors
BY DEF Errors, Failures

(***************************************************************************)
(* Writing.                                                                 *)
(***************************************************************************)
LEMMA HeaderType ==
  ASSUME NEW r \in Headers
  PROVE  rec_to_buffer(r) \in HeaderCells /\ <<rec_to_buffer(r)>> \in Seq(Cells)
<1>1. rec_to_buffer(r) \in HeaderCells
  BY EmptyType DEF rec_to_buffer, HeaderCells, Headers, RecordOf, Data
<1> QED
  BY <1>1 DEF Cells

LEMMA CleanedType ==
  ASSUME NEW k \in Handles
  PROVE  Cleaned(k) \in Handles /\ Cleaned(k).RecordOffset = 0
BY EmptyType, ZeroRecordType DEF Cleaned, Handles, Data, ParserStates

LEMMA PatchedType ==
  ASSUME NEW k \in Handles,
         NEW q, q = [k EXCEPT !.LastRecord.AddedSize = k.ReadOrWritten,
                              !.LastRecord.AddedDataCRC32 = k.AddedDataCRC32]
  PROVE  q \in Handles /\ q.RecordOffset = k.RecordOffset
<1>1. k.LastRecord \in Headers /\ k.ReadOrWritten \in Nat /\ k.AddedDataCRC32 \in Data
  BY DEF Handles
<1> DEFINE r == [k.LastRecord EXCEPT !.AddedSize = k.ReadOrWritten,
                                     !.AddedDataCRC32 = k.AddedDataCRC32]
<1>2. r \in Headers
  BY <1>1 DEF Headers, RecordOf
<1>3. q = [k EXCEPT !.LastRecord = r]
  BY DEF Handles
<1> QED
  BY <1>2, <1>3 DEF Handles

LEMMA BackpatchType ==
  ASSUME NEW k, NEW s, Good(k, s), NEW o \in Backpatch(k, s)
  PROVE  GoodOutcome(o)
<1> DEFINE q == [k EXCEPT !.LastRecord.AddedSize = k.ReadOrWritten,
                          !.LastRecord.AddedDataCRC32 = k.AddedDataCRC32]
           there == Seek(s, k.RecordOffset)
           x == <<rec_to_buffer(q.LastRecord)>>
<1>1. q \in Handles /\ q.RecordOffset = k.RecordOffset
  BY PatchedType DEF Good
<1>2. x \in Seq(Cells)
  BY <1>1, HeaderType DEF Handles
<1>3. s.pos \in Nat /\ s.pos <= Len(s.cells) /\ Len(s.cells) \in Nat
  BY DEF Good, GoodStreams, Streams
<1>4. \/ o = Result(k, s, "WRITE")
      \/ /\ k.RecordOffset >= 0
         /\ \/ o \in {Result(q, there, "OUT_OF_MEMORY"), Result(q, there, "CRASHED")}
            \/ \E w \in IO_write(there, x) :
                 \/ w.ok /\ \E b \in SeekBack(w.io, s.pos) : o = Result(Cleaned(q), b, "OK")
                 \/ ~w.ok /\ o = Result(q, w.io, "WRITE")
  BY DEF Backpatch, When
<1>5. CASE o = Result(k, s, "WRITE")
  BY <1>5 DEF GoodOutcome, Result, Errors, Failures
<1>6. CASE k.RecordOffset >= 0
  <2>1. there \in GoodStreams /\ there.cells = s.cells
    BY <1>6, SeekType DEF Good, Handles, Alike
  <2>2. CASE o \in {Result(q, there, "OUT_OF_MEMORY"), Result(q, there, "CRASHED")}
    <3> HIDE DEF q, there
    <3>1. Good(q, there)
      BY <2>1, <1>1, <1>3, GrownGood
    <3> QED
      BY <3>1, <2>2, GoodResult, ErrorTypes
  <2>3. ASSUME NEW w \in IO_write(there, x), ~w.ok, o = Result(q, w.io, "WRITE")
        PROVE  GoodOutcome(o)
    <3>1. w.io \in GoodStreams /\ Len(s.cells) <= Len(w.io.cells)
      BY <2>1, <1>2, WriteType
    <3>2. Good(q, w.io)
      BY <3>1, <1>1, GrownGood
    <3> QED
      BY <3>2, <2>3, GoodResult, ErrorTypes
  <2>4. ASSUME NEW w \in IO_write(there, x), NEW b \in SeekBack(w.io, s.pos),
               o = Result(Cleaned(q), b, "OK")
        PROVE  GoodOutcome(o)
    <3>1. w.io \in GoodStreams /\ Len(s.cells) <= Len(w.io.cells)
      BY <2>1, <1>2, WriteType
    <3>2. s.pos <= Len(w.io.cells)
      BY <3>1, <1>3 DEF GoodStreams, Streams
    <3>3. b \in GoodStreams
      BY <3>1, <3>2, <1>3, SeekBackType
    <3>4. Cleaned(q) \in Handles /\ Cleaned(q).RecordOffset = 0
      BY <1>1, CleanedType
    <3> QED
      BY <3>3, <3>4, <2>4 DEF GoodOutcome, Good, Result, Errors, GoodStreams, Streams
  <2> QED
    BY <1>4, <1>5, <2>2, <2>3, <2>4
<1> QED
  BY <1>4, <1>5, <1>6

LEMMA FinishType ==
  ASSUME NEW k, NEW s, Good(k, s), NEW o \in KCF_finish_added_data(k, s)
  PROVE  GoodOutcome(o)
<1>1. CASE o = Result(k, s, "INVALID_STATE")
  BY <1>1, GoodResult, ErrorTypes
<1>2. CASE o = Result(Cleaned(k), s, "OK")
  <2>1. Good(Cleaned(k), s)
    BY CleanedType DEF Good, GoodStreams, Streams
  <2> QED
    BY <1>2, <2>1, GoodResult, ErrorTypes
<1>3. CASE o \in Backpatch(k, s)
  BY <1>3, BackpatchType
<1> QED
  BY <1>1, <1>2, <1>3 DEF KCF_finish_added_data, Refuse

LEMMA PreviousFinishedType ==
  ASSUME NEW k, NEW s, Good(k, s), NEW f \in PreviousFinished(k, s)
  PROVE  GoodOutcome(f)
<1> DEFINE k1 == [k EXCEPT !.ParserState = IF @ = "WRITING" THEN "WRITE_RECORD" ELSE @]
<1>1. Good(k1, s)
  BY DEF Good, Handles, ParserStates
<1>2. f \in KCF_finish_added_data(k1, s) \/ f = Result(k1, s, "OK")
  BY DEF PreviousFinished
<1> QED
  BY <1>1, <1>2, FinishType, GoodResult, ErrorTypes

LEMMA OpenRecordType ==
  ASSUME NEW k \in Handles, NEW r \in Headers
  PROVE  OpenRecord(k, r) \in Handles /\ OpenRecord(k, r).RecordOffset = k.RecordOffset
<1>1. r.hasCRC \in BOOLEAN /\ r.AddedSize \in Nat
  BY DEF Headers, RecordOf
<1> QED
  BY <1>1 DEF OpenRecord, Handles, ParserStates

LEMMA CopyType ==
  ASSUME NEW r \in Headers, NEW c \in CopiesOf(r)
  PROVE  c \in Headers
BY DEF CopiesOf, When, Headers, RecordOf

LEMMA WriteHeaderType ==
  ASSUME NEW k, NEW s, Good(k, s), NEW r \in Headers, NEW o \in WriteHeader(k, s, r)
  PROVE  GoodOutcome(o)
<1> DEFINE At(a) == [k EXCEPT !.RecordOffset = a]
           x == <<rec_to_buffer(r)>>
<1>1. x \in Seq(Cells)
  BY HeaderType
<1>2. \/ o = Result(k, s, "OUT_OF_MEMORY")
      \/ \E a \in IO_tell(s), w \in IO_write(s, x) :
           \/ o = Result(At(a), w.io, "WRITE")
           \/ \E c \in CopiesOf(r) : o = Result(OpenRecord(At(a), c), w.io, "OK")
  BY DEF WriteHeader, When
<1>3. CASE o = Result(k, s, "OUT_OF_MEMORY")
  BY <1>3, GoodResult, ErrorTypes
<1>4. ASSUME NEW a \in IO_tell(s), NEW w \in IO_write(s, x), NEW c \in CopiesOf(r),
             o \in {Result(OpenRecord(At(a), c), w.io, "OK"), Result(At(a), w.io, "WRITE")}
      PROVE  GoodOutcome(o)
  <2>1. At(a) \in Handles /\ At(a).RecordOffset = a /\ Good(At(a), s)
    BY TellType DEF Good, Handles
  <2>2. w.io \in GoodStreams /\ Len(s.cells) <= Len(w.io.cells)
    BY <1>1, WriteType DEF Good
  <2>3. OpenRecord(At(a), c) \in Handles /\ OpenRecord(At(a), c).RecordOffset = At(a).RecordOffset
    BY <2>1, CopyType, OpenRecordType
  <2>4. Good(At(a), w.io) /\ Good(OpenRecord(At(a), c), w.io)
    BY <2>1, <2>2, <2>3, GrownGood
  <2> QED
    BY <2>4, <1>4, GoodResult, ErrorTypes
<1>5. r \in CopiesOf(r)
  BY DEF CopiesOf
<1> QED
  BY <1>2, <1>3, <1>4, <1>5

LEMMA WriteRecordType ==
  ASSUME NEW k, NEW s, Good(k, s), NEW r \in Headers, NEW o \in KCF_write_record(k, s, r)
  PROVE  GoodOutcome(o)
<1>1. CASE o = Result(k, s, "INVALID_STATE")
  BY <1>1, GoodResult, ErrorTypes
<1>2. CASE \E f \in PreviousFinished(k, s) : o = f \/ o \in WriteHeader(f.kcf, f.io, r)
  BY <1>2, PreviousFinishedType, WriteHeaderType DEF GoodOutcome
<1> QED
  BY <1>1, <1>2 DEF KCF_write_record, Refuse

LEMMA WithAddedDataType ==
  ASSUME NEW r \in Headers, NEW x \in Seq(Bytes)
  PROVE  WithAddedData(r, x) \in Headers
<1>1. x \in Data /\ Len(x) \in Nat
  BY DEF Data
<1> QED
  BY <1>1, EmptyType DEF WithAddedData, Headers, RecordOf, Data

LEMMA HeaderAndDataType ==
  ASSUME NEW k, NEW s, Good(k, s), NEW r \in Headers, NEW x \in Seq(Bytes),
         NEW o \in HeaderAndData(k, s, r, x)
  PROVE  GoodOutcome(o)
<1> DEFINE h == <<rec_to_buffer(WithAddedData(r, x))>>
<1>1. h \in Seq(Cells) /\ x \in Seq(Cells)
  BY WithAddedDataType, HeaderType DEF Cells, Symbols
<1>2. \/ o = Result(k, s, "OUT_OF_MEMORY")
      \/ \E w \in IO_write(s, h) :
           \/ o = Result(k, w.io, "WRITE")
           \/ \E d \in IO_write(w.io, x) : o = Result(k, d.io, IF d.ok THEN "OK" ELSE "WRITE")
  BY DEF HeaderAndData, When
<1>3. CASE o = Result(k, s, "OUT_OF_MEMORY")
  BY <1>3, GoodResult, ErrorTypes
<1>4. ASSUME NEW w \in IO_write(s, h)
      PROVE  Good(k, w.io)
  BY <1>1, WriteType, GrownGood DEF Good
<1>5. ASSUME NEW w \in IO_write(s, h), NEW d \in IO_write(w.io, x)
      PROVE  Good(k, d.io)
  <2>1. Good(k, w.io)
    BY <1>4
  <2> QED
    BY <2>1, <1>1, WriteType, GrownGood DEF Good
<1> QED
  BY <1>2, <1>3, <1>4, <1>5, GoodResult, ErrorTypes

LEMMA WriteRecordWithAddedDataType ==
  ASSUME NEW k, NEW s, Good(k, s), NEW r \in Headers, NEW x \in Seq(Bytes),
         NEW o \in KCF_write_record_with_added_data(k, s, r, x)
  PROVE  GoodOutcome(o)
<1>1. CASE o = Result(k, s, "INVALID_STATE")
  BY <1>1, GoodResult, ErrorTypes
<1>2. CASE \E f \in PreviousFinished(k, s) : o = f \/ o \in HeaderAndData(f.kcf, f.io, r, x)
  BY <1>2, PreviousFinishedType, HeaderAndDataType DEF GoodOutcome
<1> QED
  BY <1>1, <1>2 DEF KCF_write_record_with_added_data, Refuse

LEMMA ClippedType ==
  ASSUME NEW k \in Handles, NEW x \in Seq(Bytes)
  PROVE  Clipped(k, x) \in Seq(Bytes)
<1> DEFINE left == k.AvailableOrToBeWritten - k.ReadOrWritten
<1>1. left \in Int
  BY DEF Handles
<1>2. ASSUME left >= 0 PROVE SubSeq(x, 1, AtMost(Len(x), left)) \in Seq(Bytes)
  <2>1. AtMost(Len(x), left) \in 0..Len(x)
    BY <1>1, <1>2 DEF AtMost
  <2> HIDE DEF left
  <2> QED
    BY <2>1
<1> QED
  BY <1>2 DEF Clipped

LEMMA CountedType ==
  ASSUME NEW k \in Handles, NEW n \in Nat, NEW c \in Data
  PROVE  /\ [k EXCEPT !.ReadOrWritten = n, !.AddedDataCRC32 = c] \in Handles
         /\ [k EXCEPT !.ReadOrWritten = n, !.AddedDataCRC32 = c].RecordOffset = k.RecordOffset
BY DEF Handles

LEMMA WriteAddedDataType ==
  ASSUME NEW k, NEW s, Good(k, s), NEW x \in Seq(Bytes), NEW o \in KCF_write_added_data(k, s, x)
  PROVE  GoodOutcome(o)
<1> DEFINE y == Clipped(k, x)
           q == [k EXCEPT !.ReadOrWritten = @ + Len(y),
                          !.AddedDataCRC32 = IF k.HasAddedDataCRC32 THEN @ \o y ELSE @]
<1>1. y \in Seq(Bytes)
  BY ClippedType DEF Good
<1>2. q \in Handles /\ q.RecordOffset = k.RecordOffset
  <2> HIDE DEF y
  <2>1. y \in Data /\ Len(y) \in Nat
    BY <1>1 DEF Data
  <2>2. k.AddedDataCRC32 \in Data /\ k.ReadOrWritten \in Nat /\ k \in Handles
    BY DEF Good, Handles
  <2>3. k.AddedDataCRC32 \o y \in Data
    BY <2>1, <2>2 DEF Data
  <2> DEFINE n == k.ReadOrWritten + Len(y)
             c == IF k.HasAddedDataCRC32 THEN k.AddedDataCRC32 \o y ELSE k.AddedDataCRC32
  <2>4. n \in Nat /\ c \in Data
    BY <2>1, <2>2, <2>3
  <2>5. q = [k EXCEPT !.ReadOrWritten = n, !.AddedDataCRC32 = c]
    BY <2>2 DEF Handles
  <2> HIDE DEF n, c, q
  <2> QED
    BY <2>2, <2>4, <2>5, CountedType
<1>3. \/ o = Result(k, s, "INVALID_STATE")
      \/ o = Result(k, s, "OK")
      \/ \E w \in IO_write(s, y) :
           o = IF w.ok THEN Result(q, w.io, "OK") ELSE Result(k, w.io, "WRITE")
  BY DEF KCF_write_added_data, Refuse
<1>4. ASSUME NEW w \in IO_write(s, y)
      PROVE  Good(q, w.io) /\ Good(k, w.io)
  <2>1. y \in Seq(Cells)
    BY <1>1 DEF Cells, Symbols
  <2> HIDE DEF q, y
  <2> QED
    BY <2>1, <1>2, WriteType, GrownGood DEF Good
<1> HIDE DEF q, y
<1> QED
  BY <1>3, <1>4, GoodResult, ErrorTypes

LEMMA WriteMarkerType ==
  ASSUME NEW k, NEW s, Good(k, s), NEW o \in KCF_write_marker(k, s)
  PROVE  GoodOutcome(o)
<1>1. ~k.IsWriting
  BY DEF Good, Handles
<1> QED
  BY <1>1, GoodResult, ErrorTypes DEF KCF_write_marker, Refuse

(***************************************************************************)
(* Reading.                                                                 *)
(***************************************************************************)
LEMMA GarbageType == GarbageHeaders \subseteq Headers
<1>1. <<>> \in Data /\ <<Torn>> \in Data
  BY EmptyType DEF Data
<1>2. 0..MaxLen \subseteq Nat
  BY ConstantsOK
<1> QED
  BY <1>1, <1>2 DEF GarbageHeaders, Headers, RecordOf

LEMMA HeadersAtType ==
  ASSUME NEW s \in GoodStreams, NEW h \in HeadersAt(s)
  PROVE  h \in Headers
<1>1. CASE h = ZeroRecord
  BY <1>1, ZeroRecordType
<1>2. CASE h \in GarbageHeaders
  BY <1>2, GarbageType
<1>3. CASE ~AtEnd(s) /\ IsHeader(s.cells[s.pos + 1]) /\ h = s.cells[s.pos + 1]
  <2>1. s.pos + 1 \in 1..Len(s.cells)
    BY <1>3 DEF AtEnd, GoodStreams, Streams
  <2>2. s.cells[s.pos + 1] \in Symbols \cup HeaderCells
    BY <2>1 DEF GoodStreams, Streams
  <2> QED
    BY <1>3, <2>2 DEF IsHeader, HeaderCells
<1> QED
  BY <1>1, <1>2, <1>3 DEF HeadersAt

GoodHeader(hd) ==
  /\ Good(hd.kcf, hd.io)
  /\ hd.ret \in Errors /\ hd.header \in Headers

(* Where a header ends, or reading it breaks off, is a place in the stream. *)
LEMMA HeaderEndsType ==
  ASSUME NEW s \in GoodStreams, NEW t \in HeaderEnds(s) \cup BreaksOff(s)
  PROVE  t \in GoodStreams /\ Alike(t, s)
<1>1. ~AtEnd(s) => s.pos + 1 \in Nat /\ s.pos + 1 <= Len(s.cells)
  BY DEF AtEnd, GoodStreams, Streams
<1>2. \/ t = s
      \/ ~AtEnd(s) /\ t = Seek(s, s.pos + 1)
      \/ t \in Onwards(s)
  BY DEF HeaderEnds, BreaksOff
<1> QED
  BY <1>1, <1>2, SeekType, OnwardsType DEF Alike

LEMMA FoundOne ==
  ASSUME NEW k, NEW H, NEW T, NEW U, NEW hd \in Found(k, H, T, U)
  PROVE  \E h \in H, t \in T : \E u : hd = Header(Parsed(k, h), t, "OK", h, u)
<1>1. PICK h \in H, t \in T, u \in U : hd = Header(Parsed(k, h), t, "OK", h, u)
  BY DEF Found
<1> QED
  BY <1>1

LEMMA ReadHeaderForms ==
  ASSUME NEW k, NEW s, NEW hd \in read_record_header(k, s)
  PROVE  /\ hd.io \in HeaderEnds(s) \cup BreaksOff(s)
         /\ \/ hd.ret = "READ" /\ hd.kcf = k /\ hd.header = ZeroRecord /\ "read" \in Faults
            \/ /\ hd.ret = "OK" /\ hd.kcf = Parsed(k, hd.header)
               /\ hd.header \in HeadersAt(s) \cup GarbageHeaders
<1>1. \/ hd \in Found(k, HeadersAt(s), HeaderEnds(s), BodyUnderflows(s))
      \/ hd \in Found(k, GarbageHeaders, BreaksOff(s), BOOLEAN)
      \/ \E t \in BreaksOff(s) : "read" \in Faults /\ hd = Header(k, t, "READ", ZeroRecord, FALSE)
  BY DEF read_record_header, When
<1>2. ASSUME NEW H, NEW T, NEW U, hd \in Found(k, H, T, U)
      PROVE  hd.io \in T /\ hd.ret = "OK" /\ hd.kcf = Parsed(k, hd.header) /\ hd.header \in H
  BY <1>2, FoundOne DEF Header
<1> QED
  BY <1>1, <1>2 DEF Header

LEMMA ReadHeaderType ==
  ASSUME NEW k, NEW s, Good(k, s), NEW hd \in read_record_header(k, s)
  PROVE  GoodHeader(hd) /\ Alike(hd.io, s)
<1>1. hd.io \in GoodStreams /\ Alike(hd.io, s)
  BY ReadHeaderForms, HeaderEndsType DEF Good
<1>2. Good(k, hd.io)
  BY <1>1 DEF Good, Alike
<1>3. CASE hd.ret = "READ" /\ hd.kcf = k /\ hd.header = ZeroRecord
  BY <1>1, <1>2, <1>3, ErrorTypes, ZeroRecordType DEF GoodHeader
<1>4. ASSUME hd.ret = "OK", hd.kcf = Parsed(k, hd.header),
             hd.header \in HeadersAt(s) \cup GarbageHeaders
      PROVE  GoodHeader(hd)
  <2>1. hd.header \in Headers
    BY <1>4, HeadersAtType, GarbageType DEF Good
  <2>2. hd.header.AddedDataCRC32 \in Data /\ <<>> \in Data
    BY <2>1, EmptyType DEF Headers, RecordOf, Data
  <2>3. hd.kcf \in Handles /\ hd.kcf.RecordOffset = k.RecordOffset
    BY <1>4, <2>2 DEF Parsed, Good, Handles, ParserStates
  <2>4. Good(hd.kcf, hd.io)
    BY <2>3, <1>2 DEF Good
  <2> QED
    BY <2>1, <2>4, <1>4, ErrorTypes DEF GoodHeader
<1> QED
  BY <1>1, <1>3, <1>4, ReadHeaderForms

LEMMA ReadBodyType ==
  ASSUME NEW hd, GoodHeader(hd), NEW o \in ReadBody(hd)
  PROVE  GoodOutcome(o)
<1> DEFINE p == IF hd.header.hasSize THEN "READ_ADDED_DATA" ELSE "READ_RECORD_HEADER"
           next == [hd.kcf EXCEPT !.ParserState = p, !.AvailableOrToBeWritten = hd.header.AddedSize]
<1>1. hd.header.AddedSize \in Nat /\ p \in ParserStates
  BY DEF GoodHeader, Headers, RecordOf, ParserStates
<1>2. Good(next, hd.io)
  BY <1>1 DEF GoodHeader, Good, Handles
<1>3. Good(hd.kcf, hd.io) /\ hd.ret \in Errors
  BY DEF GoodHeader
<1>4. \/ o = Result(next, hd.io, "OK")
      \/ \E e \in Errors : o = Result(hd.kcf, hd.io, e)
  BY <1>3, ErrorTypes DEF ReadBody, When
<1> QED
  BY <1>2, <1>3, <1>4, GoodResult, ErrorTypes

LEMMA ReadRecordType ==
  ASSUME NEW k, NEW s, Good(k, s), NEW o \in KCF_read_record(k, s)
  PROVE  GoodOutcome(o)
<1> DEFINE k0 == [k EXCEPT !.ReadOrWritten = 0, !.AvailableOrToBeWritten = 0,
                           !.AddedDataCRC32 = <<>>, !.ActualAddedDataCRC32 = <<>>]
<1>1. Good(k0, s)
  <2>1. <<>> \in Data
    BY EmptyType DEF Data
  <2> QED
    BY <2>1 DEF Good, Handles
<1>2. \/ o = Result(k, s, "INVALID_STATE")
      \/ \E hd \in read_record_header(k0, s) : o \in ReadBody(hd)
  BY DEF KCF_read_record, Refuse
<1> QED
  BY <1>1, <1>2, ReadHeaderType, ReadBodyType, GoodResult, ErrorTypes

LEMMA ReadAddedDataType ==
  ASSUME NEW k, NEW s, Good(k, s), NEW n \in Nat, NEW o \in KCF_read_added_data(k, s, n)
  PROVE  GoodOutcome(o)
<1> DEFINE m == AtMost(n, k.AvailableOrToBeWritten)
           p == IF k.AvailableOrToBeWritten = m THEN "READ_RECORD_HEADER" ELSE k.ParserState
           actual == k.ActualAddedDataCRC32 \o BytesAt(s, m)
           left == k.AvailableOrToBeWritten - m
           total == k.ReadOrWritten + m
           q == [k EXCEPT !.AvailableOrToBeWritten = @ - m,
                          !.ActualAddedDataCRC32 = @ \o BytesAt(s, m),
                          !.ReadOrWritten = @ + m,
                          !.ParserState = IF k.AvailableOrToBeWritten = m THEN "READ_RECORD_HEADER" ELSE @]
           done == [k EXCEPT !.ParserState = "READ_RECORD_HEADER"]
<1>1. m \in Nat /\ m <= k.AvailableOrToBeWritten /\ left \in Nat /\ total \in Nat
  BY DEF AtMost, Good, Handles
<1>2. ASSUME NEW got \in 0..Remainder(s)
      PROVE  Good(k, Ahead(s, got))
  BY AheadType DEF Good, Alike
<1>3. Yield(s, m) \subseteq 0..Remainder(s) /\ 0..AtMost(m, Remainder(s)) \subseteq 0..Remainder(s)
  <2>1. Remainder(s) \in Int /\ s \in GoodStreams
    BY DEF Remainder, Good, GoodStreams, Streams
  <2> HIDE DEF m
  <2>2. AtMost(m, Remainder(s)) \in Int /\ AtMost(m, Remainder(s)) <= Remainder(s)
    BY <1>1, <2>1 DEF AtMost
  <2>3. Yield(s, m) \subseteq 0..Remainder(s)
    BY <1>1, <2>1, YieldType
  <2> QED
    BY <2>1, <2>2, <2>3
<1>4. ASSUME NEW got \in 0..Remainder(s), got >= m
      PROVE  Good(q, Ahead(s, m))
  <2>1. BytesAt(s, m) \in Data
    <3>1. ASSUME NEW i \in 1..m PROVE ByteOf(s.cells[s.pos + i]) \in Bytes \cup {Torn}
      BY DEF ByteOf
    <3> HIDE DEF m
    <3> QED
      BY <1>1, <3>1 DEF BytesAt, Data
  <2>2. k \in Handles /\ k.ActualAddedDataCRC32 \in Data /\ k.ParserState \in ParserStates
    BY DEF Good, Handles
  <2>3. actual \in Data /\ p \in ParserStates
    BY <2>1, <2>2 DEF Data, ParserStates
  <2>4. q = [k EXCEPT !.AvailableOrToBeWritten = left, !.ActualAddedDataCRC32 = actual,
                      !.ReadOrWritten = total, !.ParserState = p]
    BY <2>2 DEF Handles
  <2>5. q \in Handles /\ q.RecordOffset = k.RecordOffset
    <3> HIDE DEF left, actual, total, p, q
    <3> QED
      BY <1>1, <2>2, <2>3, <2>4 DEF Handles
  <2> HIDE DEF q, m
  <2>6. m \in 0..Remainder(s)
    BY <1>1, <1>4 DEF Remainder, Good, GoodStreams, Streams
  <2> QED
    BY <1>2, <2>5, <2>6 DEF Good
<1>5. Good(done, s)
  BY DEF Good, Handles, ParserStates
<1>6. \/ o = Result(k, s, "INVALID_STATE")
      \/ o = Result(done, s, "OK")
      \/ \E got \in Yield(s, m) : got < m /\ o = Result(k, Ahead(s, got), "READ")
      \/ \E got \in Yield(s, m) : ~(got < m) /\ o = Result(q, Ahead(s, m), "OK")
      \/ o = Result(k, s, "CRASHED")
      \/ \E got \in 0..AtMost(m, Remainder(s)) : o = Result(k, Ahead(s, got), "READ")
  BY DEF KCF_read_added_data, Refuse, When
<1>7. \A got \in 0..Remainder(s) : got < m \/ got >= m
  BY <1>1 DEF Remainder, Good, GoodStreams, Streams
<1> HIDE DEF q, done, m
<1> QED
  BY <1>2, <1>3, <1>4, <1>5, <1>6, <1>7, GoodResult, ErrorTypes

LEMMA FindMarkerType ==
  ASSUME NEW k, NEW s, Good(k, s), NEW o \in KCF_find_marker(k, s)
  PROVE  GoodOutcome(o)
<1> DEFINE At(p) == Seek(s, p)
           q == [k EXCEPT !.ParserState = "READ_RECORD_HEADER"]
<1>1. Good(q, s)
  BY DEF Good, Handles, ParserStates
<1>2. ASSUME NEW p \in 0..Len(s.cells)
      PROVE  Good(q, At(p)) /\ Good(k, At(p))
  <2>1. p \in Nat /\ p <= Len(s.cells)
    BY DEF Good, GoodStreams, Streams
  <2> QED
    BY <2>1, <1>1, SeekType DEF Good, Alike
<1>3. s.pos \in Nat /\ Len(s.cells) \in Nat
  BY DEF Good, GoodStreams, Streams
<1>4. \/ o = Result(k, s, "INVALID_STATE")
      \/ \E p \in (s.pos + 1)..Len(s.cells) : o = Result(q, At(p), "OK")
      \/ o = Result(k, At(Len(s.cells)), "INVALID_FORMAT")
      \/ \E p \in s.pos..Len(s.cells) : o = Result(k, At(p), "READ")
  BY DEF KCF_find_marker, Refuse, When, MarkersAhead
<1>5. /\ (s.pos + 1)..Len(s.cells) \subseteq 0..Len(s.cells)
      /\ s.pos..Len(s.cells) \subseteq 0..Len(s.cells)
      /\ Len(s.cells) \in 0..Len(s.cells)
  BY <1>3
<1> HIDE DEF At, q
<1> QED
  BY <1>2, <1>4, <1>5, GoodResult, ErrorTypes

(***************************************************************************)
(* Switching between reading and writing.                                   *)
(***************************************************************************)
LEMMA IntoType ==
  ASSUME NEW k, NEW s, Good(k, s), NEW p \in ParserStates
  PROVE  Good([k EXCEPT !.ParserState = p], s)
BY DEF Good, Handles

LEMMA FlushedType ==
  ASSUME NEW k, NEW s, Good(k, s), NEW o \in Flushed(k, s)
  PROVE  GoodOutcome(o)
<1>1. "READ_RECORD_HEADER" \in ParserStates
  BY DEF ParserStates
<1> QED
  BY <1>1, IntoType, GoodResult, ErrorTypes DEF Flushed, When

LEMMA StartReadingType ==
  ASSUME NEW k, NEW s, Good(k, s), NEW o \in KCF_start_reading(k, s)
  PROVE  GoodOutcome(o)
<1>1. CASE \E p \in ParserStates : o = Result([k EXCEPT !.ParserState = p], s, "OK")
  BY <1>1, IntoType, GoodResult, ErrorTypes
<1>2. CASE \E f \in KCF_finish_added_data(k, s) : o = f \/ o \in Flushed(f.kcf, f.io)
  BY <1>2, FinishType, FlushedType DEF GoodOutcome
<1>3. CASE o \in Flushed(k, s)
  BY <1>3, FlushedType
<1>4. CASE o = Result(k, s, "OK")
  BY <1>4, GoodResult, ErrorTypes
<1>5. "READ_MARKER" \in ParserStates /\ "READING" \in ParserStates
  BY DEF ParserStates
<1> QED
  BY <1>1, <1>2, <1>3, <1>4, <1>5 DEF KCF_start_reading

LEMMA StartWritingType ==
  ASSUME NEW k, NEW s, Good(k, s), NEW o \in KCF_start_writing(k, s)
  PROVE  GoodOutcome(o)
<1> DEFINE Into(p) == [k EXCEPT !.ParserState = p]
<1>1. Good(Into("WRITE_MARKER"), s) /\ Good(Into("WRITE_RECORD"), s)
  BY IntoType DEF ParserStates
<1>2. \/ o \in KCF_write_marker(Into("WRITE_MARKER"), s)
      \/ o = Result(Into("WRITE_RECORD"), s, "OK")
      \/ o = Result(k, s, "INVALID_STATE")
      \/ o = Result(k, s, "OK")
  BY DEF KCF_start_writing, Refuse
<1> HIDE DEF Into
<1> QED
  BY <1>1, <1>2, WriteMarkerType, GoodResult, ErrorTypes

LEMMA InitArchiveType ==
  ASSUME NEW k, NEW s, Good(k, s), NEW p \in Payloads, NEW o \in KCF_init_archive(k, s, p)
  PROVE  GoodOutcome(o)
<1> DEFINE header == [ZeroRecord EXCEPT !.payload = p]
<1>1. header \in Headers
  BY EmptyType DEF ZeroRecord, Headers, RecordOf, Data
<1>2. PICK f \in KCF_start_writing(k, s) :
        \/ o = f
        \/ o \in KCF_write_record(f.kcf, f.io, header)
        \/ o = Result(f.kcf, f.io, "CRASHED")
  BY DEF KCF_init_archive, KCF_write_archive_header, When
<1>3. GoodOutcome(f)
  BY StartWritingType
<1> HIDE DEF header
<1> QED
  BY <1>1, <1>2, <1>3, WriteRecordType, GoodResult, ErrorTypes DEF GoodOutcome

(***************************************************************************)
(* The file layer.                                                          *)
(***************************************************************************)
LEMMA FileCallType ==
  ASSUME NEW k, NEW s, Good(k, s), NEW o \in FileCallRefused(k, s)
  PROVE  GoodOutcome(o)
<1>1. o = Result(k, s, "INVALID_STATE")
  BY DEF FileCallRefused, Refuse, When
<1> QED
  BY <1>1, GoodResult, ErrorTypes

LEMMA SkipFileType ==
  ASSUME NEW k, NEW s, Good(k, s), NEW o \in KCF_skip_file(k, s)
  PROVE  GoodOutcome(o)
<1>1. \/ o = Result(k, s, "INVALID_STATE")
      \/ \E f \in KCF_read_record(k, s) : o = f \/ o = Result(f.kcf, f.io, "INVALID_STATE")
  BY DEF KCF_skip_file, Refuse
<1> QED
  BY <1>1, ReadRecordType, GoodResult, ErrorTypes DEF GoodOutcome

(***************************************************************************)
(* Steps.                                                                   *)
(***************************************************************************)
LEMMA TypeOKGood == TypeOK <=> /\ Good(kcf, io)
                               /\ skipLeft \in Nat \cup {-1}
                               /\ call \in Calls
                               /\ acked \in Nat
BY DEF TypeOK, Good, GoodStreams

LEMMA ReturnedType ==
  ASSUME call \in Calls, NEW op \in Operations, NEW e \in Errors
  PROVE  Returned(op, e) \in Calls
BY DEF Returned, Calls

LEMMA CreatedType == Created \in Calls
BY ErrorTypes DEF Created, Calls, Operations

LEMMA ReturnType ==
  ASSUME TypeOK, NEW op \in Operations, NEW outcomes, NEW ack,
         \A o \in outcomes : GoodOutcome(o),
         Return(op, outcomes, ack)
  PROVE  TypeOK'
<1>1. PICK o \in outcomes : /\ kcf' = o.kcf /\ io' = o.io
                            /\ call' = Returned(op, o.ret)
                            /\ acked' = AckedBy(ack, o)
  BY DEF Return
<1>2. Good(kcf', io') /\ o.ret \in Errors
  BY <1>1 DEF GoodOutcome
<1>3. acked' \in Nat
  <2>0. Good(o.kcf, o.io) /\ acked \in Nat
    BY TypeOKGood DEF GoodOutcome
  <2>1. o.kcf.RecordOffset \in Int /\ Len(o.io.cells) \in Nat /\ acked \in Nat
    BY <2>0, GoodNumbers
  <2>2. AtLeast(acked, o.kcf.RecordOffset) \in Nat
    BY <2>1 DEF AtLeast
  <2> QED
    BY <1>1, <2>1, <2>2 DEF AckedBy
<1>4. call' \in Calls
  BY <1>1, <1>2, ReturnedType DEF TypeOK
<1> QED
  BY <1>1, <1>2, <1>3, <1>4 DEF TypeOK, Good, GoodStreams, Return

LEMMA NewRecordsType == NewRecords \subseteq Headers
<1>1. Announced \cup {0} \subseteq Nat /\ {<<>>} \subseteq Data
  BY ConstantsOK, EmptyType DEF Data
<1> QED
  BY <1>1 DEF NewRecords, RecordOf, Headers

LEMMA ChunksType == Chunks \subseteq Seq(Bytes)
<1>1. \A n \in 0..MaxChunk : [1..n -> Bytes] \subseteq Seq(Bytes)
  OBVIOUS
<1> QED
  BY <1>1 DEF Chunks

LEMMA NewHandleType == NewHandle \in Handles /\ NewHandle.RecordOffset = 0
BY EmptyType, ZeroRecordType DEF NewHandle, Handles, ParserStates, Data

LEMMA InitType == Init => TypeOK
<1> SUFFICES ASSUME Init PROVE TypeOK
  OBVIOUS
<1> DEFINE W == {TRUE} \cup When("readonly" \in Faults, {FALSE})
<1>1. io \in Streams /\ io.pos = 0 /\ ~io.within /\ Len(io.cells) \in Nat
  <2>1. io \in [cells : InitialStreams, pos : {0}, within : {FALSE}, writable : W]
    BY DEF Init
  <2>2. W \subseteq BOOLEAN
    BY DEF When
  <2>3. InitialStreams \subseteq Seq(Symbols \cup HeaderCells)
    BY StreamsOK
  <2> HIDE DEF W
  <2>4. io.cells \in Seq(Symbols \cup HeaderCells) /\ io.pos = 0 /\ ~io.within
    BY <2>1, <2>3
  <2>5. io \in Streams
    <3>1. {0} \subseteq Nat /\ {FALSE} \subseteq BOOLEAN
      OBVIOUS
    <3>2. InitialStreams \subseteq Seq(Symbols \cup HeaderCells)
      BY <2>3
    <3> QED
      BY <2>1, <2>2, <3>1, <3>2, Zenon DEF Streams
  <2> QED
    BY <2>4, <2>5
<1> QED
  BY <1>1, NewHandleType, CreatedType DEF Init, TypeOK

LEMMA SkipType ==
  ASSUME TypeOK, KCF_skip_record
  PROVE  TypeOK'
<1>1. Good(kcf, io)
  BY TypeOKGood
<1>2. ASSUME NEW k, NEW s, Good(k, s), NEW e \in Errors, SkipReturns(k, s, e)
      PROVE  TypeOK'
  <2>1. call' \in Calls
    BY <1>2, ReturnedType DEF SkipReturns, TypeOK, Operations
  <2> QED
    BY <1>2, <2>1 DEF SkipReturns, KCF_skip_record, TypeOK, Good, GoodStreams
<1>3. ASSUME NEW k, NEW s, Good(k, s), NEW n \in Nat, SkipBegins(k, s, n)
      PROVE  TypeOK'
  BY <1>3 DEF SkipBegins, KCF_skip_record, TypeOK, Good, GoodStreams
<1>4. ASSUME NEW hd \in read_record_header(kcf, io), SkipFromHeader(hd)
      PROVE  TypeOK'
  <2>1. GoodHeader(hd)
    BY <1>1, ReadHeaderType
  <2>2. Good(hd.kcf, hd.io) /\ hd.ret \in Errors /\ hd.header.AddedSize \in Nat
    BY <2>1 DEF GoodHeader, Headers, RecordOf
  <2> QED
    BY <1>2, <1>3, <1>4, <2>2, ErrorTypes DEF SkipFromHeader
<1>5. kcf.AvailableOrToBeWritten \in Nat
  BY DEF TypeOK, Handles
<1> QED
  BY <1>1, <1>2, <1>3, <1>4, <1>5, ErrorTypes DEF KCF_skip_record

LEMMA SkipStepType ==
  ASSUME TypeOK, SkipStep
  PROVE  TypeOK'
<1> DEFINE m == AtMost(SkipBuffer, skipLeft)
<1>1. skipLeft \in Nat /\ Good(kcf, io) /\ m \in Nat
  BY TypeOKGood, ConstantsOK DEF SkipStep, Idle, AtMost
<1>2. ASSUME NEW n \in Yield(io, m)
      PROVE  n \in Nat /\ Good(kcf, Ahead(io, n))
  <2>1. n \in 0..Remainder(io)
    BY <1>1, YieldType DEF Good
  <2> QED
    BY <1>1, <2>1, AheadType DEF Good, Alike
<1>4. ASSUME NEW s, Good(kcf, s), SkipDone(kcf, s)
      PROVE  TypeOK'
  <2>1. Good([kcf EXCEPT !.ParserState = "READ_RECORD_HEADER"], s)
    BY <1>4, IntoType DEF ParserStates
  <2>2. Good(kcf', io') /\ skipLeft' = -1
    BY <1>4, <2>1 DEF SkipDone
  <2>3. call' \in Calls
    BY <1>4, ReturnedType, ErrorTypes DEF SkipDone, Operations, TypeOK
  <2>4. acked' \in Nat
    BY DEF SkipStep, TypeOK
  <2> QED
    BY <2>2, <2>3, <2>4 DEF TypeOK, Good, GoodStreams
<1>5. ASSUME NEW n \in Yield(io, m), skipLeft - n > 0,
             kcf' = kcf, io' = Ahead(io, n), skipLeft' = skipLeft - n, call' = call
      PROVE  TypeOK'
  <2>1. skipLeft - n \in Nat
    BY <1>1, <1>2, <1>5
  <2>2. Good(kcf', io')
    BY <1>2, <1>5
  <2> QED
    BY <1>5, <2>1, <2>2 DEF TypeOK, Good, GoodStreams, SkipStep
<1> HIDE DEF m
<1>6. \/ \E n \in Yield(io, m) :
           \/ /\ skipLeft - n > 0
              /\ kcf' = kcf /\ io' = Ahead(io, n) /\ skipLeft' = skipLeft - n /\ call' = call
           \/ skipLeft - n <= 0 /\ SkipDone(kcf, Ahead(io, n))
      \/ SkipDone(kcf, io)
  BY DEF SkipStep, m
<1> QED
  BY <1>1, <1>2, <1>4, <1>5, <1>6

LEMMA SkipStepMoves ==
  ASSUME io \in Streams, SkipStep
  PROVE  Alike(io', io)
<1>1. io' = io \/ \E n : io' = Ahead(io, n)
  BY DEF SkipStep, SkipDone
<1> QED
  BY <1>1, AheadAlike DEF Alike

LEMMA NextType == TypeOK /\ [Next]_vars => TypeOK'
<1> SUFFICES ASSUME TypeOK, [Next]_vars PROVE TypeOK'
  OBVIOUS
<1> USE DEF Operations
<1>1. Good(kcf, io)
  BY TypeOKGood
<1>2. CASE StartReading
  BY <1>1, <1>2, ReturnType, StartReadingType DEF StartReading
<1>3. CASE StartWriting
  BY <1>1, <1>3, ReturnType, StartWritingType DEF StartWriting
<1>4. CASE InitArchive
  BY <1>1, <1>4, ReturnType, InitArchiveType DEF InitArchive
<1>5. CASE FindMarker
  BY <1>1, <1>5, ReturnType, FindMarkerType DEF FindMarker
<1>6. CASE ReadRecord
  BY <1>1, <1>6, ReturnType, ReadRecordType DEF ReadRecord
<1>7. CASE ReadAddedData
  <2>1. PICK n \in 0..MaxChunk :
          Return("read_added_data", KCF_read_added_data(kcf, io, n), "none")
    BY <1>7 DEF ReadAddedData
  <2>2. n \in Nat
    BY ConstantsOK
  <2> QED
    BY <1>1, <2>1, <2>2, ReturnType, ReadAddedDataType
<1>8. CASE KCF_skip_record
  BY <1>8, SkipType
<1>9. CASE SkipStep
  BY <1>9, SkipStepType
<1>10. CASE WriteMarker
  BY <1>1, <1>10, ReturnType, WriteMarkerType DEF WriteMarker
<1>11. CASE WriteRecord
  BY <1>1, <1>11, ReturnType, WriteRecordType, NewRecordsType DEF WriteRecord
<1>12. CASE WriteRecordWithAddedData
  BY <1>1, <1>12, ReturnType, WriteRecordWithAddedDataType, NewRecordsType, ChunksType
     DEF WriteRecordWithAddedData
<1>13. CASE WriteAddedData
  BY <1>1, <1>13, ReturnType, WriteAddedDataType, ChunksType DEF WriteAddedData
<1>14. CASE FinishAddedData
  BY <1>1, <1>14, ReturnType, FinishType DEF FinishAddedData
<1>15. CASE Reopen
  <2>1. Good(kcf', io')
    BY <1>1, <1>15, NewHandleType, SeekType DEF Reopen, Good, GoodStreams, Streams
  <2> QED
    BY <1>15, <2>1, CreatedType DEF Reopen, TypeOK, Good, GoodStreams
<1>16. CASE UNCHANGED vars
  BY <1>16 DEF vars, TypeOK
<1>17. CASE FileCall
  BY <1>1, <1>17, ReturnType, FileCallType DEF FileCall
<1>18. CASE SkipFile
  BY <1>1, <1>18, ReturnType, SkipFileType DEF SkipFile
<1> QED
  BY <1>2, <1>3, <1>4, <1>5, <1>6, <1>7, <1>8, <1>9, <1>10, <1>11, <1>12, <1>13, <1>14,
     <1>15, <1>16, <1>17, <1>18 DEF Next

(* Type correctness, for every set of faults and whatever the caller does:  *)
(* in particular no backpatch and no write falls outside the stream.        *)
THEOREM TypeCorrect == Spec => []TypeOK
BY InitType, NextType, PTL DEF Spec

=============================================================================
