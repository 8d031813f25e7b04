---------------------------- MODULE KcfSync_proofs ----------------------------
(***************************************************************************)
(* With callers that write at the end of an archive and fill the records    *)
(* they announce, and whichever reads and flushes fail, the handle and the  *)
(* stream agree, and the archive stays one of whole records: for all bytes, *)
(* payloads, sizes, bounds and archives to begin with.                      *)
(***************************************************************************)
EXTENDS KcfHandle_proofs, SequenceTheorems

(***************************************************************************)
(* The premises.                                                            *)
(***************************************************************************)
(* Transfers are whole or fail, and positions are found and put back; cells *)
(* of different kinds differ.                                               *)
Steady ==
  /\ Faults \cap {"short", "tell", "seekback"} = {}
  /\ Headers \cap Symbols = {} /\ NoPayload \notin Payloads

(* Only reads and flushes fail, and files may be open for reading alone.    *)
Harmless == Steady /\ Faults \cap {"write", "seek", "alloc"} = {}

(* And callers have the habits that the properties allow, and the files are *)
(* archives, or empty.                                                      *)
Undisturbed ==
  /\ Harmless /\ Habits \subseteq {"implicit_end", "carry_on", "damaged"}
  /\ \A cells \in InitialStreams : CompleteRecords(cells, Len(cells))

(***************************************************************************)
(* Sequences.                                                               *)
(***************************************************************************)
LEMMA SubSeqSame ==
  ASSUME NEW S, NEW c \in Seq(S), NEW d \in Seq(S), NEW a \in Nat \ {0}, NEW b \in Nat,
         b <= Len(c), b <= Len(d), \A j \in a..b : c[j] = d[j]
  PROVE  SubSeq(c, a, b) = SubSeq(d, a, b)
<1>1. SubSeq(c, a, b) = [i \in 1..(b - a + 1) |-> c[i + a - 1]]
  OBVIOUS
<1>2. SubSeq(d, a, b) = [i \in 1..(b - a + 1) |-> d[i + a - 1]]
  OBVIOUS
<1>3. \A i \in 1..(b - a + 1) : i + a - 1 \in a..b
  OBVIOUS
<1> QED
  BY <1>1, <1>2, <1>3

LEMMA SubSeqExtended ==
  ASSUME NEW S, NEW c \in Seq(S), NEW x \in Seq(S), NEW a \in Nat \ {0}, NEW b \in Nat,
         a <= b + 1, b + Len(x) <= Len(c), \A j \in 1..Len(x) : c[b + j] = x[j]
  PROVE  SubSeq(c, a, b) \o x = SubSeq(c, a, b + Len(x))
<1> DEFINE y == SubSeq(c, b + 1, b + Len(x))
<1>1. Len(x) \in Nat /\ Len(c) \in Nat
  OBVIOUS
<1>2. y = x
  <2>1. \A j \in (b + 1)..(b + Len(x)) : c[j] \in S
    BY <1>1
  <2>2. /\ y \in Seq(S) /\ Len(y) = IF b + 1 <= b + Len(x) THEN b + Len(x) - (b + 1) + 1 ELSE 0
        /\ \A i \in 1..(b + Len(x) - (b + 1) + 1) : y[i] = c[b + 1 + i - 1]
    BY <1>1, <2>1, SubSeqProperties
  <2> HIDE DEF y
  <2>3. Len(y) = Len(x)
    BY <1>1, <2>2
  <2>4. ASSUME NEW i \in 1..Len(y) PROVE y[i] = x[i]
    <3>1. i \in 1..(b + Len(x) - (b + 1) + 1) /\ i \in 1..Len(x) /\ b + 1 + i - 1 = b + i
      BY <1>1, <2>3
    <3> QED
      BY <2>2, <3>1
  <2> QED
    BY <2>2, <2>3, <2>4, SeqEqual
<1>3. a \in 1..(Len(c) + 1) /\ b \in (a - 1)..Len(c) /\ b + Len(x) \in b..Len(c)
  BY <1>1
<1> QED
  BY <1>2, <1>3, ConcatAdjacentSubSeq

(* A write at the end appends, and a write of one cell elsewhere replaces.  *)
LEMMA PutAtEnd ==
  ASSUME NEW S, NEW cells \in Seq(S), NEW x \in Seq(S)
  PROVE  Put(cells, Len(cells), x) = cells \o x
<1> DEFINE p == Put(cells, Len(cells), x)
           q == cells \o x
<1>1. Len(cells) \in Nat /\ Len(x) \in Nat
  OBVIOUS
<1>2. AtLeast(Len(cells), Len(cells) + Len(x)) = Len(cells) + Len(x)
  BY <1>1 DEF AtLeast
<1>3. p \in Seq(S) /\ Len(p) = Len(cells) + Len(x)
  <2>1. Len(cells) <= Len(cells)
    BY <1>1
  <2>2. p \in Seq(S) /\ Len(p) = AtLeast(Len(cells), Len(cells) + Len(x))
    BY ONLY <1>1, <2>1, PutType, cells \in Seq(S), x \in Seq(S)
  <2> QED
    BY <1>2, <2>2
<1>4. /\ q \in Seq(S) /\ Len(q) = Len(cells) + Len(x)
      /\ \A i \in 1..(Len(cells) + Len(x)) :
           q[i] = IF i <= Len(cells) THEN cells[i] ELSE x[i - Len(cells)]
  BY ConcatProperties
<1>5. \A i \in 1..(Len(cells) + Len(x)) :
        p[i] = IF i <= Len(cells) THEN cells[i] ELSE x[i - Len(cells)]
  <2> SUFFICES ASSUME NEW i \in 1..(Len(cells) + Len(x))
               PROVE  p[i] = IF i <= Len(cells) THEN cells[i] ELSE x[i - Len(cells)]
    OBVIOUS
  <2>1. p[i] = IF i \in (Len(cells) + 1)..(Len(cells) + Len(x)) THEN x[i - Len(cells)] ELSE cells[i]
    BY <1>2 DEF Put
  <2>2. i \in (Len(cells) + 1)..(Len(cells) + Len(x)) <=> ~(i <= Len(cells))
    BY <1>1
  <2> QED
    BY <2>1, <2>2
<1> HIDE DEF p, q
<1>6. p = q
  BY <1>3, <1>4, <1>5, SeqEqual
<1> QED
  BY <1>6 DEF p, q

LEMMA PutInside ==
  ASSUME NEW S, NEW cells \in Seq(S), NEW p \in Nat, p < Len(cells), NEW c \in S
  PROVE  Put(cells, p, <<c>>) = [cells EXCEPT ![p + 1] = c]
<1>1. AtLeast(Len(cells), p + 1) = Len(cells)
  BY DEF AtLeast
<1>2. cells = [i \in 1..Len(cells) |-> cells[i]]
  OBVIOUS
<1>3. [cells EXCEPT ![p + 1] = c] =
        [i \in 1..Len(cells) |-> IF i = p + 1 THEN c ELSE cells[i]]
  BY <1>2
<1>4. /\ Len(<<c>>) = 1 /\ <<c>>[1] = c
      /\ \A i \in 1..Len(cells) : i \in (p + 1)..(p + 1) <=> i = p + 1
  OBVIOUS
<1> QED
  BY <1>1, <1>3, <1>4 DEF Put

(***************************************************************************)
(* Whole records.                                                           *)
(***************************************************************************)
LEMMA ByteNoStart ==
  ASSUME NEW c \in Bytes
  PROVE  ~StartsRecord(c)
BY ConstantsOK DEF StartsRecord, IsHeader, Symbols

(* What follows the first n cells does not matter to them.                  *)
LEMMA PrefixComplete ==
  ASSUME NEW c \in Seq(Cells), NEW d \in Seq(Cells), NEW n \in Nat,
         n <= Len(c), n <= Len(d), \A i \in 1..n : c[i] = d[i],
         CompleteRecords(c, n)
  PROVE  CompleteRecords(d, n)
<1>1. n > 0 => d[1] = Marker
  BY DEF CompleteRecords
<1>2. ASSUME NEW i \in 1..n, StartsRecord(d[i])
      PROVE  LET last == i + DataLen(d[i])
             IN  /\ last <= n
                 /\ \A j \in (i + 1)..last : d[j] \in Bytes
                 /\ last < n => StartsRecord(d[last + 1])
                 /\ IsHeader(d[i]) /\ d[i].hasCRC =>
                      d[i].AddedDataCRC32 = SubSeq(d, i + 1, last)
  <2> DEFINE last == i + DataLen(d[i])
  <2>1. c[i] = d[i] /\ d[i] \in Cells
    BY <1>2
  <2>2. /\ last <= n
        /\ \A j \in (i + 1)..last : c[j] \in Bytes
        /\ last < n => StartsRecord(c[last + 1])
        /\ IsHeader(c[i]) /\ c[i].hasCRC => c[i].AddedDataCRC32 = SubSeq(c, i + 1, last)
    BY <2>1, <1>2 DEF CompleteRecords
  <2>3. DataLen(d[i]) \in Nat
    BY <2>1 DEF DataLen, IsHeader, Cells, HeaderCells, Headers, RecordOf
  <2>4. last \in Nat /\ i + 1 \in Nat \ {0} /\ i >= 1
    BY <2>3
  <2> HIDE DEF last
  <2>5. SubSeq(c, i + 1, last) = SubSeq(d, i + 1, last)
    <3>1. \A j \in (i + 1)..last : j \in 1..n
      BY <2>2, <2>4
    <3> QED
      BY <3>1, <2>2, <2>4, SubSeqSame
  <2>6. \A j \in (i + 1)..last : d[j] \in Bytes
    BY <2>2, <2>4
  <2>7. last < n => StartsRecord(d[last + 1])
    BY <2>2, <2>4
  <2> QED
    BY <2>1, <2>2, <2>5, <2>6, <2>7 DEF last
<1> QED
  BY <1>1, <1>2 DEF CompleteRecords

(* A header at the end, as much data as it says and the checksum of that    *)
(* data make one more whole record.                                         *)
LEMMA RecordAdded ==
  ASSUME NEW c \in Seq(Cells), NEW d \in Seq(Cells), NEW n \in Nat \ {0}, NEW m \in Nat,
         n <= Len(c), Len(d) = n + 1 + m, \A i \in 1..n : c[i] = d[i],
         CompleteRecords(c, n),
         IsHeader(d[n + 1]), DataLen(d[n + 1]) = m,
         \A j \in (n + 2)..(n + 1 + m) : d[j] \in Bytes,
         d[n + 1].hasCRC => d[n + 1].AddedDataCRC32 = SubSeq(d, n + 2, n + 1 + m)
  PROVE  CompleteRecords(d, Len(d))
<1>1. CompleteRecords(d, n)
  BY PrefixComplete
<1>2. d[1] = Marker
  BY <1>1 DEF CompleteRecords
<1>3. ASSUME NEW i \in 1..Len(d), StartsRecord(d[i])
      PROVE  LET last == i + DataLen(d[i])
             IN  /\ last <= Len(d)
                 /\ \A j \in (i + 1)..last : d[j] \in Bytes
                 /\ last < Len(d) => StartsRecord(d[last + 1])
                 /\ IsHeader(d[i]) /\ d[i].hasCRC =>
                      d[i].AddedDataCRC32 = SubSeq(d, i + 1, last)
  <2>1. CASE i \in 1..n
    <3> DEFINE last == i + DataLen(d[i])
    <3>1. /\ last <= n
          /\ \A j \in (i + 1)..last : d[j] \in Bytes
          /\ last < n => StartsRecord(d[last + 1])
          /\ IsHeader(d[i]) /\ d[i].hasCRC => d[i].AddedDataCRC32 = SubSeq(d, i + 1, last)
      BY <2>1, <1>1, <1>3 DEF CompleteRecords
    <3>2. StartsRecord(d[n + 1])
      BY DEF StartsRecord
    <3>3. DataLen(d[i]) \in Nat
      BY DEF DataLen, IsHeader, Cells, HeaderCells, Headers, RecordOf
    <3>4. last \in Nat
      BY <3>3
    <3> HIDE DEF last
    <3>5. last <= Len(d) /\ (last < n \/ last = n)
      BY <3>1, <3>4
    <3> QED
      BY <3>1, <3>2, <3>5 DEF last
  <2>2. CASE i = n + 1
    BY <2>2
  <2>3. CASE i \in (n + 2)..(n + 1 + m)
    BY <2>3, <1>3, ByteNoStart
  <2> QED
    BY <2>1, <2>2, <2>3
<1> QED
  BY <1>2, <1>3 DEF CompleteRecords

(***************************************************************************)
(* The invariant.                                                           *)
(***************************************************************************)
PastMarker ==
  {"READ_RECORD_HEADER", "READ_RECORD_DATA", "READ_ADDED_DATA", "WRITE_RECORD", "WRITE_ADDED_DATA"}

Fresh(k) ==
  k.AvailableOrToBeWritten = 0 /\ k.ReadOrWritten = 0 /\ k.AddedDataCRC32 = <<>>

SettledAt(k, s) ==
  IF k.ParserState = "WRITE_ADDED_DATA" THEN k.RecordOffset ELSE Len(s.cells)

(* The header of the record being written, and what is counted after it.    *)
(* The copy that is kept lacks the main data if they could not be copied.   *)
HeaderKept(k, s) ==
  LET at == k.RecordOffset + 1
  IN  /\ at \in 1..s.pos /\ IsHeader(s.cells[at])
      /\ rec_to_buffer(k.LastRecord) \in CopiesOf(s.cells[at])
      /\ k.LastRecord.hasSize
      /\ k.LastRecord.hasCRC = k.HasAddedDataCRC32
      /\ k.AvailableOrToBeWritten = k.LastRecord.AddedSize
      /\ "alloc" \notin Faults => k.LastRecord.payload # NoPayload

DataCounted(k, s) ==
  LET at == k.RecordOffset + 1
  IN  /\ k.ReadOrWritten = s.pos - at
      /\ \A j \in (at + 1)..s.pos : s.cells[j] \in Bytes
      /\ k.AddedDataCRC32 =
           IF k.HasAddedDataCRC32 THEN SubSeq(s.cells, at + 1, s.pos) ELSE <<>>
      /\ k.AvailableOrToBeWritten > 0 => k.ReadOrWritten <= k.AvailableOrToBeWritten

(* What relates a handle to its stream whatever has happened.               *)
Sync(k, s) ==
  /\ CompleteRecords(s.cells, SettledAt(k, s))
  /\ IF k.ParserState \in PastMarker THEN Len(s.cells) > 0
     ELSE k.ParserState # "WRITING" /\ Fresh(k)
  /\ k.ParserState = "WRITE_ADDED_DATA" =>
       /\ s.writable /\ AtEnd(s) /\ k.RecordOffset > 0
       /\ HeaderKept(k, s) /\ DataCounted(k, s)
  /\ k.ParserState = "WRITE_RECORD" =>
       AtEnd(s) /\ k.ReadOrWritten = 0 /\ k.AddedDataCRC32 = <<>>

AtBoundary(s) == AtEnd(s) \/ AtRecord(s)

(* The record being read, and what has been read of its data.               *)
DataRead(k, s) ==
  LET at == s.pos - k.ReadOrWritten
  IN  /\ ~s.within /\ at \in 1..s.pos /\ IsHeader(s.cells[at])
      /\ DataLen(s.cells[at]) = k.ReadOrWritten + k.AvailableOrToBeWritten
      /\ k.ActualAddedDataCRC32 = SubSeq(s.cells, at + 1, s.pos)
      /\ k.AddedDataCRC32 =
           IF s.cells[at].hasCRC THEN s.cells[at].AddedDataCRC32 ELSE <<>>

(* What more is known before any call has failed.                           *)
SoundSync(k, s) ==
  /\ k.ParserState = "READ_RECORD_HEADER" =>
       /\ AtBoundary(s) /\ k.AvailableOrToBeWritten = 0
       /\ k.ReadOrWritten > 0 /\ k.AddedDataCRC32 # <<>> =>
            k.ActualAddedDataCRC32 = k.AddedDataCRC32
  /\ k.ParserState = "READ_ADDED_DATA" => DataRead(k, s)
  /\ k.ParserState = "WRITE_RECORD" => k.AvailableOrToBeWritten = 0

Bad == Failures \cup {"CRASHED"}

(* A record is being written only while every call succeeds, and a skip     *)
(* goes on only while one is being read.                                    *)
IInv ==
  /\ TypeOK
  /\ Sync(kcf, io)
  /\ Idle /\ call.handle = "sound" => SoundSync(kcf, io)
  /\ call.ret \in Bad => kcf.ParserState # "WRITE_ADDED_DATA"
  /\ ~Idle => kcf.ParserState \in {"READ_RECORD_DATA", "READ_ADDED_DATA"}

(***************************************************************************)
(* Headers and the stream.                                                  *)
(***************************************************************************)
LEMMA BufferFields ==
  ASSUME NEW r \in Headers
  PROVE  /\ rec_to_buffer(r).hasSize = r.hasSize
         /\ rec_to_buffer(r).hasCRC = r.hasCRC
         /\ r.hasSize => rec_to_buffer(r).AddedSize = r.AddedSize
         /\ ~r.hasSize => rec_to_buffer(r).AddedSize = 0
         /\ r.hasCRC => rec_to_buffer(r).AddedDataCRC32 = r.AddedDataCRC32
BY DEF rec_to_buffer, Headers, RecordOf

LEMMA HeaderCell ==
  ASSUME Headers \cap Symbols = {}, NEW r \in Headers
  PROVE  rec_to_buffer(r) \in Cells /\ IsHeader(rec_to_buffer(r))
BY HeaderType DEF IsHeader, Cells, HeaderCells

LEMMA HeaderFields ==
  ASSUME NEW c \in Cells, IsHeader(c)
  PROVE  c \in Headers /\ (~c.hasSize => c.AddedSize = 0)
BY DEF IsHeader, Cells, HeaderCells

(* A copy that has main data is the header.                                 *)
LEMMA CopyFields ==
  ASSUME NEW r \in Headers, NEW c \in CopiesOf(r)
  PROVE  /\ c.hasSize = r.hasSize /\ c.hasCRC = r.hasCRC /\ c.AddedSize = r.AddedSize
         /\ c.AddedDataCRC32 = r.AddedDataCRC32
         /\ c.payload # NoPayload => c = r
         /\ "alloc" \notin Faults => c = r
BY DEF CopiesOf, When, Headers, RecordOf

LEMMA StreamFields ==
  ASSUME NEW k, NEW s, Good(k, s)
  PROVE  /\ s \in GoodStreams /\ s.cells \in Seq(Cells) /\ Len(s.cells) \in Nat
         /\ s.pos \in Nat /\ s.pos <= Len(s.cells)
         /\ k \in Handles /\ k.RecordOffset \in Int
         /\ k.ReadOrWritten \in Nat /\ k.AvailableOrToBeWritten \in Nat
         /\ k.LastRecord \in Headers /\ k.ParserState \in ParserStates
<1>1. /\ s \in GoodStreams /\ s.cells \in Seq(Cells) /\ s.pos \in Nat /\ s.pos <= Len(s.cells)
  BY DEF Good, GoodStreams, Streams, Cells
<1>2. k \in Handles
  BY DEF Good
<1>3. /\ k.RecordOffset \in Int
      /\ k.ReadOrWritten \in Nat /\ k.AvailableOrToBeWritten \in Nat
      /\ k.LastRecord \in Headers /\ k.ParserState \in ParserStates
  BY <1>2 DEF Handles
<1> QED
  BY <1>1, <1>2, <1>3

(* Where a stream is after cells have been appended to it.                  *)
Appended(t, s, x) ==
  /\ t \in GoodStreams /\ t.writable
  /\ t.cells = s.cells \o x /\ t.pos = s.pos + Len(x) /\ AtEnd(t)

LEMMA WriteAppends ==
  ASSUME Steady, NEW s \in GoodStreams, AtEnd(s),
         NEW x \in Seq(Cells), NEW w \in IO_write(s, x), w.ok
  PROVE  Appended(w.io, s, x)
<1>1. w = [io |-> Stored(s, x), ok |-> TRUE] /\ s.writable
  BY DEF IO_write, When, Steady
<1>2. s.cells \in Seq(Cells) /\ s.pos = Len(s.cells)
  BY DEF GoodStreams, Streams, AtEnd, Cells
<1>3. Put(s.cells, s.pos, x) = s.cells \o x
  BY <1>2, PutAtEnd
<1>4. Len(s.cells \o x) = Len(s.cells) + Len(x)
  BY <1>2, ConcatProperties
<1>5. Stored(s, x) \in GoodStreams
  BY StoredType
<1>6. /\ Stored(s, x).cells = s.cells \o x /\ Stored(s, x).pos = s.pos + Len(x)
      /\ Stored(s, x).writable = s.writable
  BY <1>3, StoredFields DEF GoodStreams
<1> QED
  BY <1>1, <1>2, <1>4, <1>5, <1>6 DEF Appended, AtEnd

(* A header that could not be written has left nothing.                     *)
LEMMA HeaderWriteFails ==
  ASSUME Steady, NEW s, NEW h, IsHeader(h), NEW w \in IO_write(s, <<h>>), ~w.ok
  PROVE  w.io = s /\ (Harmless => ~s.writable)
<1>1. h \notin Bytes
  BY DEF IsHeader, Symbols
<1>2. ChunksOf(<<h>>) = {}
  BY <1>1 DEF ChunksOf, When
<1> QED
  BY <1>2 DEF IO_write, When, Steady, Harmless

(* Data that could not be written has left some of it, at most.             *)
WroteSome(t, s, x) == \E n \in 0..Len(x) : t.cells = s.cells \o SubSeq(x, 1, n)

LEMMA WriteFails ==
  ASSUME Steady, NEW s \in GoodStreams, AtEnd(s), NEW x \in Seq(Bytes),
         NEW w \in IO_write(s, x), ~w.ok
  PROVE  WroteSome(w.io, s, x) /\ (Harmless => w.io = s /\ ~s.writable)
<1>1. Harmless => w.io = s /\ ~s.writable
  BY DEF IO_write, When, Harmless
<1>2. s.cells \in Seq(Cells) /\ s.pos = Len(s.cells) /\ Len(x) \in Nat /\ x \in Seq(Cells)
  BY DEF GoodStreams, Streams, AtEnd, Cells, Symbols
<1>3. CASE w.io = s
  <2>1. SubSeq(x, 1, 0) = <<>> /\ s.cells \o <<>> = s.cells /\ 0 \in 0..Len(x)
    BY <1>2
  <2> QED
    BY <1>1, <1>3, <2>1 DEF WroteSome
<1>4. ASSUME NEW y \in PartsOf(x), w.io = Stored(s, y)
      PROVE  WroteSome(w.io, s, x)
  <2>1. ~(Len(x) = 1 /\ IsHeader(x[1]))
    BY <1>2 DEF IsHeader, Symbols
  <2>2. PICK n \in 0..(Len(x) - 1) : y = SubSeq(x, 1, n)
    BY <2>1 DEF PartsOf
  <2>3. n \in 0..Len(x) /\ y \in Seq(Cells)
    BY <1>2, <2>2
  <2>4. Put(s.cells, s.pos, y) = s.cells \o y
    BY <1>2, <2>3, PutAtEnd
  <2>5. w.io.cells = s.cells \o y
    BY <1>4, <2>4, StoredFields DEF GoodStreams
  <2> QED
    BY <2>2, <2>3, <2>5 DEF WroteSome
<1>5. w.io = s \/ \E y \in PartsOf(x) : w.io = Stored(s, y)
  BY DEF IO_write, ChunksOf, When, Steady
<1> QED
  BY <1>1, <1>3, <1>4, <1>5

LEMMA WriteKeepsMode ==
  ASSUME Steady, NEW s \in GoodStreams, NEW x, NEW w \in IO_write(s, x), w.ok
  PROVE  s.writable /\ w.io.writable
<1>1. s.writable /\ w.io = Stored(s, x)
  BY DEF IO_write, When, Steady
<1>2. Stored(s, x).writable = s.writable
  BY StoredFields DEF GoodStreams
<1> QED
  BY <1>1, <1>2

(* A sequence of cells and those appended to it.                            *)
LEMMA AppendedCells ==
  ASSUME NEW c \in Seq(Cells), NEW x \in Seq(Cells)
  PROVE  /\ c \o x \in Seq(Cells) /\ Len(c \o x) = Len(c) + Len(x)
         /\ Len(c) \in Nat /\ Len(x) \in Nat
         /\ \A i \in 1..Len(c) : (c \o x)[i] = c[i]
         /\ \A i \in 1..Len(x) : (c \o x)[Len(c) + i] = x[i]
<1>1. /\ c \o x \in Seq(Cells) /\ Len(c \o x) = Len(c) + Len(x)
      /\ \A i \in 1..(Len(c) + Len(x)) : (c \o x)[i] = IF i <= Len(c) THEN c[i] ELSE x[i - Len(c)]
  BY ConcatProperties
<1>2. Len(c) \in Nat /\ Len(x) \in Nat
  OBVIOUS
<1>3. ASSUME NEW i \in 1..Len(c) PROVE (c \o x)[i] = c[i]
  BY <1>1, <1>2
<1>4. ASSUME NEW i \in 1..Len(x) PROVE (c \o x)[Len(c) + i] = x[i]
  <2>1. Len(c) + i \in 1..(Len(c) + Len(x)) /\ ~(Len(c) + i <= Len(c)) /\ (Len(c) + i) - Len(c) = i
    BY <1>2
  <2> QED
    BY <1>1, <2>1
<1> QED
  BY <1>1, <1>2, <1>3, <1>4

LEMMA AppendedOne ==
  ASSUME NEW c \in Seq(Cells), NEW h \in Cells
  PROVE  /\ c \o <<h>> \in Seq(Cells) /\ Len(c \o <<h>>) = Len(c) + 1
         /\ \A i \in 1..Len(c) : (c \o <<h>>)[i] = c[i]
         /\ (c \o <<h>>)[Len(c) + 1] = h
<1>1. <<h>> \in Seq(Cells) /\ Len(<<h>>) = 1 /\ <<h>>[1] = h /\ 1 \in 1..Len(<<h>>)
  OBVIOUS
<1>2. /\ c \o <<h>> \in Seq(Cells) /\ Len(c \o <<h>>) = Len(c) + Len(<<h>>)
      /\ \A i \in 1..Len(c) : (c \o <<h>>)[i] = c[i]
      /\ \A i \in 1..Len(<<h>>) : (c \o <<h>>)[Len(c) + i] = <<h>>[i]
  BY <1>1, AppendedCells
<1>3. (c \o <<h>>)[Len(c) + 1] = <<h>>[1]
  BY <1>1, <1>2
<1> QED
  BY <1>1, <1>2, <1>3

LEMMA BytesCells ==
  ASSUME NEW x \in Seq(Bytes)
  PROVE  x \in Seq(Cells)
BY DEF Symbols, Cells

(***************************************************************************)
(* The end of a record.                                                     *)
(***************************************************************************)
LEMMA WriterFacts ==
  ASSUME NEW k, NEW s, Good(k, s), Sync(k, s), k.ParserState = "WRITE_ADDED_DATA"
  PROVE  /\ HeaderKept(k, s) /\ DataCounted(k, s) /\ s.writable /\ AtEnd(s)
         /\ k.RecordOffset \in Nat \ {0} /\ k.ReadOrWritten \in Nat
         /\ s.pos = Len(s.cells) /\ Len(s.cells) = k.RecordOffset + 1 + k.ReadOrWritten
         /\ \A j \in (k.RecordOffset + 2)..Len(s.cells) : s.cells[j] \in Bytes
<1>1. HeaderKept(k, s) /\ DataCounted(k, s) /\ s.writable /\ AtEnd(s) /\ k.RecordOffset > 0
  BY DEF Sync
<1>2. s.pos \in Nat /\ k.RecordOffset \in Int /\ k.ReadOrWritten \in Nat
  BY StreamFields
<1>3. s.pos = Len(s.cells)
  BY <1>1 DEF AtEnd
<1>4. /\ k.ReadOrWritten = s.pos - (k.RecordOffset + 1)
      /\ \A j \in (k.RecordOffset + 1 + 1)..s.pos : s.cells[j] \in Bytes
  BY <1>1 DEF DataCounted
<1> QED
  BY <1>1, <1>2, <1>3, <1>4

(* The header in the stream, whatever copy of it is kept.                   *)
LEMMA KeptHeader ==
  ASSUME NEW k, NEW s, Good(k, s), Sync(k, s), k.ParserState = "WRITE_ADDED_DATA",
         NEW c, c = s.cells[k.RecordOffset + 1]
  PROVE  /\ c \in Cells /\ IsHeader(c) /\ c.hasSize /\ c.hasCRC = k.HasAddedDataCRC32
         /\ c.AddedSize = k.AvailableOrToBeWritten
         /\ k.LastRecord.payload # NoPayload => c = rec_to_buffer(k.LastRecord)
<1>1. HeaderKept(k, s) /\ k.LastRecord \in Headers
  BY WriterFacts, StreamFields
<1>2. /\ IsHeader(c) /\ rec_to_buffer(k.LastRecord) \in CopiesOf(c)
      /\ k.LastRecord.hasSize /\ k.LastRecord.hasCRC = k.HasAddedDataCRC32
      /\ k.AvailableOrToBeWritten = k.LastRecord.AddedSize
  BY <1>1 DEF HeaderKept
<1>3. c \in Cells
  <2>1. /\ s.cells \in Seq(Cells) /\ s.pos \in Nat /\ s.pos <= Len(s.cells)
        /\ k.RecordOffset + 1 \in 1..s.pos
    BY <1>1, StreamFields DEF HeaderKept
  <2> QED
    BY <2>1
<1>4. c \in Headers
  BY <1>2, <1>3, HeaderFields
<1>5. rec_to_buffer(k.LastRecord).payload = k.LastRecord.payload
  BY <1>1 DEF rec_to_buffer, Headers, RecordOf
<1> QED
  BY <1>1, <1>2, <1>3, <1>4, <1>5, BufferFields, CopyFields

(* A header that says what follows it ends the record being written.        *)
LEMMA RecordEnded ==
  ASSUME NEW k, NEW s, Good(k, s), Sync(k, s), k.ParserState = "WRITE_ADDED_DATA",
         NEW q, q.ParserState = "WRITE_RECORD", Fresh(q),
         NEW t, NEW h \in Cells, AtEnd(t),
         t.cells = [s.cells EXCEPT ![k.RecordOffset + 1] = h],
         IsHeader(h), h.hasSize, h.AddedSize = k.ReadOrWritten,
         h.hasCRC => h.AddedDataCRC32 = SubSeq(s.cells, k.RecordOffset + 2, s.pos)
  PROVE  Sync(q, t)
<1> DEFINE c == s.cells
           d == t.cells
           n == k.RecordOffset
           m == k.ReadOrWritten
<1>1. /\ c \in Seq(Cells) /\ Len(c) \in Nat /\ m \in Nat /\ n \in Nat \ {0}
      /\ s.pos = Len(c) /\ Len(c) = n + 1 + m /\ n + 1 \in 1..Len(c)
  BY StreamFields, WriterFacts
<1>2. \A j \in (n + 2)..(n + 1 + m) : c[j] \in Bytes
  BY <1>1, WriterFacts
<1>3. CompleteRecords(c, n)
  BY DEF Sync, SettledAt
<1> HIDE DEF n, m, c, d
<1>4. /\ d \in Seq(Cells) /\ Len(d) = Len(c) /\ d[n + 1] = h
      /\ \A i \in 1..Len(c) : i # n + 1 => d[i] = c[i]
  <2>1. d = [c EXCEPT ![n + 1] = h]
    BY DEF c, d, n
  <2> QED
    BY <1>1, <2>1
<1>5. SubSeq(c, n + 2, n + 1 + m) = SubSeq(d, n + 2, n + 1 + m)
  <2>1. /\ n + 2 \in Nat \ {0} /\ n + 1 + m \in Nat /\ n + 1 + m <= Len(c) /\ n + 1 + m <= Len(d)
        /\ \A j \in (n + 2)..(n + 1 + m) : c[j] = d[j]
    BY <1>1, <1>4
  <2> QED
    BY <1>1, <1>4, <2>1, SubSeqSame
<1>6. CompleteRecords(d, Len(d))
  <2>1. n <= Len(c) /\ Len(d) = n + 1 + m /\ \A i \in 1..n : c[i] = d[i]
    BY <1>1, <1>4
  <2>2. DataLen(d[n + 1]) = m
    BY <1>4 DEF DataLen, m
  <2>3. \A j \in (n + 2)..(n + 1 + m) : d[j] \in Bytes
    BY <1>1, <1>2, <1>4
  <2>4. d[n + 1].hasCRC => d[n + 1].AddedDataCRC32 = SubSeq(d, n + 2, n + 1 + m)
    BY <1>1, <1>4, <1>5 DEF n, c
  <2> QED
    BY <1>1, <1>3, <1>4, <2>1, <2>2, <2>3, <2>4, RecordAdded
<1>7. Len(d) > 0
  BY <1>1, <1>4
<1> QED
  BY <1>6, <1>7 DEF Sync, SettledAt, PastMarker, Fresh, d

LEMMA CleanedFields ==
  ASSUME NEW k \in Handles
  PROVE  Cleaned(k).ParserState = "WRITE_RECORD" /\ Fresh(Cleaned(k))
BY DEF Cleaned, Fresh, Handles

(* Reading m bytes of added data moves the position and both counters, and  *)
(* neither where the data begin nor how long they are.                      *)
LEMMA ShiftedData ==
  ASSUME NEW p \in Nat, NEW r \in Nat, NEW a \in Nat, NEW m \in Nat, p - r \in 1..p
  PROVE  /\ (p + m) - (r + m) = p - r /\ p - r \in 1..(p + m)
         /\ (r + m) + (a - m) = r + a
OBVIOUS

(* The record being written is not shorter than its header says for good.   *)
Whole(k) == ~k.HasAddedDataCRC32 => k.ReadOrWritten >= k.AvailableOrToBeWritten

(* A call that succeeds and leaves the handle ready for the next record.    *)
Ended(o) ==
  /\ o.ret = "OK" /\ Sync(o.kcf, o.io) /\ o.kcf.ParserState = "WRITE_RECORD" /\ Fresh(o.kcf)
  /\ o.io.writable

(* The header that ends the record being written, and the stream with it.   *)
EndedHeader(k) ==
  rec_to_buffer([k.LastRecord EXCEPT !.AddedSize = k.ReadOrWritten,
                                     !.AddedDataCRC32 = k.AddedDataCRC32])

Finished(k, s) ==
  IF k.ParserState = "WRITE_ADDED_DATA"
  THEN [s.cells EXCEPT ![k.RecordOffset + 1] = EndedHeader(k)] ELSE s.cells

(* The cells are known but for a header that the caller announced for good, *)
(* when its main data were not copied.                                      *)
LEMMA FinishSync ==
  ASSUME Steady, NEW k, NEW s, Good(k, s), Sync(k, s),
         k.ParserState = "WRITE_ADDED_DATA", Whole(k),
         NEW o \in KCF_finish_added_data(k, s), o.ret = "OK"
  PROVE  Ended(o) /\ (k.LastRecord.payload # NoPayload => o.io.cells = Finished(k, s))
<1> DEFINE n == k.RecordOffset
           q == [k EXCEPT !.LastRecord.AddedSize = k.ReadOrWritten,
                          !.LastRecord.AddedDataCRC32 = k.AddedDataCRC32]
           there == Seek(s, n)
           h == rec_to_buffer(q.LastRecord)
<1>1. HeaderKept(k, s) /\ DataCounted(k, s) /\ AtEnd(s) /\ s.writable /\ n \in Nat \ {0}
  BY WriterFacts
<1>2. Headers \cap Symbols = {} /\ Faults \cap {"short", "tell", "seekback"} = {}
  BY DEF Steady
<1>3. k \in Handles /\ k.LastRecord \in Headers /\ s.pos \in Nat
  BY StreamFields
<1>4. CASE k.AvailableOrToBeWritten > 0 /\ ~k.HasAddedDataCRC32
  <2> DEFINE c == s.cells[n + 1]
  <2>1. o = Result(Cleaned(k), s, "OK")
    BY <1>4 DEF KCF_finish_added_data
  <2>2. /\ c \in Cells /\ IsHeader(c) /\ c.hasSize /\ ~c.hasCRC
        /\ c.AddedSize = k.AvailableOrToBeWritten
        /\ k.LastRecord.payload # NoPayload => c = rec_to_buffer(k.LastRecord)
    BY <1>4, KeptHeader
  <2>3. k.AvailableOrToBeWritten = k.ReadOrWritten
    <3>1. k.ReadOrWritten <= k.AvailableOrToBeWritten
      BY <1>1, <1>4 DEF DataCounted
    <3>2. k.ReadOrWritten >= k.AvailableOrToBeWritten
      BY <1>4 DEF Whole
    <3>3. k.ReadOrWritten \in Nat /\ k.AvailableOrToBeWritten \in Nat
      BY StreamFields
    <3> QED
      BY <3>1, <3>2, <3>3
  <2>4. s.cells = [s.cells EXCEPT ![n + 1] = c]
    BY StreamFields
  <2>5. Cleaned(k).ParserState = "WRITE_RECORD" /\ Fresh(Cleaned(k))
    BY <1>3, CleanedFields
  <2>6. k.LastRecord.payload # NoPayload => c = EndedHeader(k)
    <3>1. /\ k.LastRecord.AddedSize = k.ReadOrWritten /\ k.LastRecord.hasSize
          /\ ~k.LastRecord.hasCRC
      BY <1>1, <1>4, <2>3 DEF HeaderKept
    <3> QED
      BY <1>3, <2>2, <3>1 DEF EndedHeader, rec_to_buffer, Headers, RecordOf
  <2> HIDE DEF c, n
  <2>7. Sync(Cleaned(k), s)
    BY <1>1, <2>2, <2>3, <2>4, <2>5, RecordEnded DEF n
  <2>8. k.LastRecord.payload # NoPayload => s.cells = Finished(k, s)
    BY <2>4, <2>6 DEF Finished, n
  <2> QED
    BY <1>1, <2>1, <2>5, <2>7, <2>8 DEF Ended, Result
<1>5. CASE ~(k.AvailableOrToBeWritten > 0 /\ ~k.HasAddedDataCRC32)
  <2>1. o \in Backpatch(k, s)
    BY <1>5 DEF KCF_finish_added_data
  <2>2. \A t : o # Result(q, t, "WRITE") /\ o # Result(k, t, "WRITE")
              /\ o # Result(q, t, "OUT_OF_MEMORY") /\ o # Result(q, t, "CRASHED")
    BY DEF Result
  <2>3. PICK w \in IO_write(there, <<h>>) :
          w.ok /\ \E b \in SeekBack(w.io, s.pos) : o = Result(Cleaned(q), b, "OK")
    <3>1. \/ o = Result(k, s, "WRITE") \/ o = Result(q, there, "OUT_OF_MEMORY")
          \/ o = Result(q, there, "CRASHED")
          \/ \E w \in IO_write(there, <<h>>) :
               \/ w.ok /\ \E b \in SeekBack(w.io, s.pos) : o = Result(Cleaned(q), b, "OK")
               \/ o = Result(q, w.io, "WRITE")
      BY <2>1 DEF Backpatch, When
    <3> HIDE DEF q, there, h
    <3> QED
      BY <2>2, <3>1
  <2>4. /\ q \in Handles /\ q.LastRecord \in Headers
        /\ q.LastRecord.hasSize = k.LastRecord.hasSize /\ q.LastRecord.hasCRC = k.LastRecord.hasCRC
        /\ q.LastRecord.AddedSize = k.ReadOrWritten
        /\ q.LastRecord.AddedDataCRC32 = k.AddedDataCRC32
    <3>1. q \in Handles
      BY <1>3, PatchedType
    <3> QED
      BY <1>3, <3>1 DEF Handles, Headers, RecordOf
  <2>5. k.LastRecord.hasSize /\ k.LastRecord.hasCRC = k.HasAddedDataCRC32
    BY <1>1 DEF HeaderKept
  <2>6. /\ h \in Cells /\ IsHeader(h) /\ h.hasSize /\ h.AddedSize = k.ReadOrWritten
        /\ h.hasCRC => h.AddedDataCRC32 = SubSeq(s.cells, n + 2, s.pos)
    <3> DEFINE r == q.LastRecord
    <3>1. r \in Headers /\ r.hasSize
      BY <2>4, <2>5
    <3>2. h \in Cells /\ IsHeader(h)
      BY <1>2, <3>1, HeaderCell
    <3>3. h.hasSize /\ h.AddedSize = k.ReadOrWritten
      BY <2>4, <3>1, BufferFields
    <3>4. h.hasCRC => h.AddedDataCRC32 = r.AddedDataCRC32 /\ k.HasAddedDataCRC32
      BY <2>4, <2>5, <3>1, BufferFields
    <3>5. k.HasAddedDataCRC32 => k.AddedDataCRC32 = SubSeq(s.cells, n + 1 + 1, s.pos)
      BY <1>1 DEF DataCounted
    <3>6. n + 1 + 1 = n + 2
      BY <1>1
    <3> QED
      BY <2>4, <3>2, <3>3, <3>4, <3>5, <3>6
  <2>7. there \in GoodStreams /\ there.cells = s.cells /\ there.pos = n /\ there.writable
    BY <1>1, SeekType, SeekFields DEF Good, GoodStreams
  <2>8. w = [io |-> Stored(there, <<h>>), ok |-> TRUE]
    BY <1>2, <2>3 DEF IO_write, When
  <2>9. Put(s.cells, n, <<h>>) = [s.cells EXCEPT ![n + 1] = h]
    <3>1. n \in Nat /\ n < Len(s.cells) /\ s.cells \in Seq(Cells)
      BY StreamFields, WriterFacts
    <3> QED
      BY <2>6, <3>1, PutInside
  <2>10. w.io.cells = [s.cells EXCEPT ![n + 1] = h] /\ w.io.writable
    <3> HIDE DEF there, h, n, q
    <3>1. /\ Stored(there, <<h>>).cells = Put(there.cells, there.pos, <<h>>)
          /\ Stored(there, <<h>>).writable = there.writable
      BY <2>7, StoredFields DEF GoodStreams
    <3> QED
      BY <2>7, <2>8, <2>9, <3>1
  <2>11. PICK b \in SeekBack(w.io, s.pos) : o = Result(Cleaned(q), b, "OK")
    BY <2>3
  <2>12. b = Seek(w.io, s.pos)
    BY <1>2, <2>11 DEF SeekBack, When
  <2>13. b.cells = [s.cells EXCEPT ![n + 1] = h] /\ b.pos = s.pos /\ b.writable
    <3> HIDE DEF there, h, n, q
    <3>1. <<h>> \in Seq(Cells)
      BY <2>6
    <3>2. w.io = Stored(there, <<h>>) /\ w.io \in Streams
      BY <2>7, <2>8, <3>1, StoredType DEF GoodStreams
    <3> QED
      BY <2>10, <2>12, <3>2, SeekFields
  <2>14. AtEnd(b)
    <3>1. Len([s.cells EXCEPT ![n + 1] = h]) = Len(s.cells)
      BY StreamFields
    <3> QED
      BY <1>1, <2>13, <3>1 DEF AtEnd
  <2>15. Cleaned(q).ParserState = "WRITE_RECORD" /\ Fresh(Cleaned(q))
    BY <2>4, CleanedFields
  <2>16. h = EndedHeader(k)
    <3>1. q.LastRecord = [k.LastRecord EXCEPT !.AddedSize = k.ReadOrWritten,
                                              !.AddedDataCRC32 = k.AddedDataCRC32]
      BY <1>3 DEF Handles
    <3> QED
      BY <3>1 DEF EndedHeader
  <2> HIDE DEF h, n, q, there
  <2>17. Sync(Cleaned(q), b)
    BY <2>6, <2>13, <2>14, <2>15, RecordEnded DEF n
  <2>18. b.cells = Finished(k, s)
    BY <2>13, <2>16 DEF Finished, n
  <2> QED
    BY <2>11, <2>13, <2>15, <2>17, <2>18 DEF Ended, Result
<1> QED
  BY <1>4, <1>5

(* If only reads and flushes fail, it succeeds.                             *)
LEMMA FinishSucceeds ==
  ASSUME Harmless, NEW k, NEW s, Good(k, s), Sync(k, s), k.ParserState = "WRITE_ADDED_DATA",
         NEW o \in KCF_finish_added_data(k, s)
  PROVE  o.ret = "OK" /\ k.LastRecord.payload # NoPayload
<1> DEFINE q == [k EXCEPT !.LastRecord.AddedSize = k.ReadOrWritten,
                          !.LastRecord.AddedDataCRC32 = k.AddedDataCRC32]
           there == Seek(s, k.RecordOffset)
           x == <<rec_to_buffer(q.LastRecord)>>
<1>1. HeaderKept(k, s) /\ s.writable /\ k.RecordOffset \in Nat
  BY WriterFacts
<1>2. /\ Faults \cap {"write", "seek", "alloc"} = {}
      /\ Faults \cap {"short", "tell", "seekback"} = {}
  BY DEF Harmless, Steady
<1>3. k.LastRecord.payload # NoPayload
  BY <1>1, <1>2 DEF HeaderKept
<1>4. CASE k.AvailableOrToBeWritten > 0 /\ ~k.HasAddedDataCRC32
  BY <1>3, <1>4 DEF KCF_finish_added_data, Result
<1>5. CASE ~(k.AvailableOrToBeWritten > 0 /\ ~k.HasAddedDataCRC32)
  <2>1. o \in Backpatch(k, s)
    BY <1>5 DEF KCF_finish_added_data
  <2>2. k.RecordOffset >= 0 /\ ~(k.RecordOffset < 0)
    BY <1>1
  <2>3. PICK w \in IO_write(there, x) :
          IF w.ok THEN \E b \in SeekBack(w.io, s.pos) : o = Result(Cleaned(q), b, "OK")
                  ELSE o = Result(q, w.io, "WRITE")
    BY <1>2, <1>3, <2>1, <2>2 DEF Backpatch, When
  <2>4. there.writable
    BY <1>1, SeekFields DEF Good, GoodStreams
  <2>5. w.ok
    BY <1>2, <2>4 DEF IO_write, When
  <2> QED
    BY <1>3, <2>3, <2>5 DEF Result
<1> QED
  BY <1>4, <1>5

(* Ready for a record: at the end, nothing left of the last one.            *)
Ready(k, s) ==
  Sync(k, s) /\ k.ParserState = "WRITE_RECORD" /\ Good(k, s)

LEMMA PreviousFinishedSync ==
  ASSUME Steady, NEW k, NEW s, Good(k, s), Sync(k, s), MayWriteRecord(k),
         Harmless \/ k.ParserState # "WRITE_ADDED_DATA",
         k.ParserState = "WRITE_ADDED_DATA" => Whole(k),
         NEW f \in PreviousFinished(k, s)
  PROVE  /\ f.ret = "OK" /\ Ready(f.kcf, f.io) /\ f.io.cells = Finished(k, s)
         /\ SoundSync(k, s) => f.kcf.AvailableOrToBeWritten = 0
         /\ k.ParserState = "WRITE_RECORD" => f = Result(k, s, "OK")
         /\ k.ParserState = "WRITE_ADDED_DATA" => f.io.writable
<1>1. GoodOutcome(f)
  BY PreviousFinishedType
<1>2. k.ParserState # "WRITING"
  BY DEF Sync, PastMarker
<1>3. [k EXCEPT !.ParserState = IF @ = "WRITING" THEN "WRITE_RECORD" ELSE @] = k
  <2>1. k \in Handles
    BY StreamFields
  <2> QED
    BY <1>2, <2>1 DEF Handles
<1>4. CASE k.ParserState = "WRITE_ADDED_DATA"
  <2>1. f \in KCF_finish_added_data(k, s)
    BY <1>3, <1>4 DEF PreviousFinished
  <2>2. f.ret = "OK" /\ k.LastRecord.payload # NoPayload
    BY <1>4, <2>1, FinishSucceeds
  <2>3. Ended(f) /\ f.io.cells = Finished(k, s)
    BY <1>4, <2>1, <2>2, FinishSync
  <2> QED
    BY <1>1, <1>4, <2>3 DEF Ended, Fresh, Ready, GoodOutcome
<1>5. CASE k.ParserState = "WRITE_RECORD"
  <2>1. f = Result(k, s, "OK")
    BY <1>3, <1>5 DEF PreviousFinished
  <2> QED
    BY <1>1, <1>5, <2>1 DEF Result, Ready, SoundSync, Finished
<1>6. k.ParserState \in {"WRITE_RECORD", "WRITE_ADDED_DATA"}
  BY <1>2 DEF MayWriteRecord, IsWritingState
<1> QED
  BY <1>4, <1>5, <1>6

(***************************************************************************)
(* The beginning of a record.                                               *)
(***************************************************************************)
LEMMA ReadyFacts ==
  ASSUME NEW k, NEW s, Ready(k, s)
  PROVE  /\ s \in GoodStreams /\ s.cells \in Seq(Cells) /\ Len(s.cells) \in Nat \ {0}
         /\ s.pos = Len(s.cells) /\ AtEnd(s)
         /\ k.ReadOrWritten = 0 /\ k.AddedDataCRC32 = <<>>
         /\ CompleteRecords(s.cells, Len(s.cells))
<1>1. Good(k, s) /\ Sync(k, s) /\ k.ParserState = "WRITE_RECORD"
  BY DEF Ready
<1>2. s \in GoodStreams /\ s.cells \in Seq(Cells) /\ Len(s.cells) \in Nat
  BY <1>1, StreamFields
<1>3. /\ AtEnd(s) /\ CompleteRecords(s.cells, Len(s.cells))
      /\ k.ReadOrWritten = 0 /\ k.AddedDataCRC32 = <<>> /\ Len(s.cells) > 0
  BY <1>1 DEF Sync, SettledAt, PastMarker
<1> QED
  BY <1>2, <1>3 DEF AtEnd

(* Bytes found in a sequence are the subsequence there.                     *)
LEMMA SubSeqFound ==
  ASSUME NEW d \in Seq(Cells), NEW b \in Nat, NEW x \in Seq(Cells),
         b + Len(x) <= Len(d), \A j \in 1..Len(x) : d[b + j] = x[j]
  PROVE  SubSeq(d, b + 1, b + Len(x)) = x
<1>1. SubSeq(d, b + 1, b) = <<>>
  BY SubSeqEmpty
<1>2. <<>> \o x = x
  BY ConcatEmptySeq
<1>3. b + 1 \in Nat \ {0} /\ b + 1 <= b + 1
  OBVIOUS
<1>4. SubSeq(d, b + 1, b) \o x = SubSeq(d, b + 1, b + Len(x))
  BY <1>3, SubSeqExtended
<1> QED
  BY <1>1, <1>2, <1>4

(* A header and all its data at once.                                       *)
LEMMA RecordWritten ==
  ASSUME NEW k, NEW s, Ready(k, s), NEW h \in Cells, NEW x \in Seq(Bytes),
         IsHeader(h), DataLen(h) = Len(x), h.hasCRC => h.AddedDataCRC32 = x,
         NEW q, q.ParserState = "WRITE_RECORD", q.ReadOrWritten = 0, q.AddedDataCRC32 = <<>>,
         NEW t, AtEnd(t), t.cells = (s.cells \o <<h>>) \o x
  PROVE  Sync(q, t)
<1> DEFINE c == s.cells
           e == c \o <<h>>
           d == t.cells
           n == Len(c)
           m == Len(x)
<1>1. c \in Seq(Cells) /\ n \in Nat \ {0} /\ CompleteRecords(c, n)
  BY ReadyFacts
<1>3. x \in Seq(Cells) /\ m \in Nat
  BY BytesCells
<1>4. /\ e \in Seq(Cells) /\ Len(e) = n + 1
      /\ \A i \in 1..n : e[i] = c[i]
      /\ e[n + 1] = h
  <2> HIDE DEF c
  <2> QED
    BY <1>1, AppendedOne
<1>5. d = e \o x
  OBVIOUS
<1> HIDE DEF c, d, e, n
<1>6. /\ d \in Seq(Cells) /\ Len(d) = n + 1 + m
      /\ \A i \in 1..(n + 1) : d[i] = e[i]
      /\ \A j \in 1..m : d[n + 1 + j] = x[j]
  <2>1. /\ d \in Seq(Cells) /\ Len(d) = Len(e) + Len(x)
        /\ \A i \in 1..Len(e) : d[i] = e[i]
        /\ \A i \in 1..Len(x) : d[Len(e) + i] = x[i]
    <3>1. /\ e \o x \in Seq(Cells) /\ Len(e \o x) = Len(e) + Len(x)
          /\ \A i \in 1..Len(e) : (e \o x)[i] = e[i]
          /\ \A i \in 1..Len(x) : (e \o x)[Len(e) + i] = x[i]
      BY ONLY <1>3, <1>4, AppendedCells
    <3> QED
      BY ONLY <1>5, <3>1
  <2> HIDE DEF m
  <2>2. \A j \in 1..m : d[n + 1 + j] = x[j]
    BY <1>4, <2>1 DEF m
  <2>3. Len(d) = n + 1 + m
    BY <1>4, <2>1 DEF m
  <2> QED
    BY <1>4, <2>1, <2>2, <2>3
<1>7. /\ n <= Len(c) /\ d[n + 1] = h
      /\ \A i \in 1..n : c[i] = d[i]
  BY <1>1, <1>4, <1>6 DEF n
<1>8. \A j \in (n + 2)..(n + 1 + m) : d[j] \in Bytes
  <2> SUFFICES ASSUME NEW j \in (n + 2)..(n + 1 + m) PROVE d[j] \in Bytes
    OBVIOUS
  <2>1. j - (n + 1) \in 1..m /\ n + 1 + (j - (n + 1)) = j
    BY <1>1, <1>3
  <2>2. x[j - (n + 1)] \in Bytes
    BY <2>1
  <2> QED
    BY <1>6, <2>1, <2>2
<1>9. SubSeq(d, n + 2, n + 1 + m) = x
  <2>1. n + 1 \in Nat /\ n + 1 + 1 = n + 2 /\ n + 1 + Len(x) <= Len(d)
    BY <1>1, <1>3, <1>6
  <2>2. SubSeq(d, n + 1 + 1, n + 1 + Len(x)) = x
    BY <1>3, <1>6, <2>1, SubSeqFound
  <2> QED
    BY <2>1, <2>2
<1>10. CompleteRecords(d, Len(d))
  <2>1. IsHeader(d[n + 1]) /\ DataLen(d[n + 1]) = m
    BY <1>7
  <2>2. d[n + 1].hasCRC => d[n + 1].AddedDataCRC32 = SubSeq(d, n + 2, n + 1 + m)
    BY <1>7, <1>9
  <2>3. c \in Seq(Cells) /\ d \in Seq(Cells) /\ n \in Nat \ {0} /\ m \in Nat
    BY <1>1, <1>3, <1>6
  <2>4. n <= Len(c) /\ Len(d) = n + 1 + m /\ CompleteRecords(c, n)
    BY <1>1, <1>6, <1>7
  <2> HIDE DEF m
  <2> QED
    BY <1>7, <1>8, <2>1, <2>2, <2>3, <2>4, RecordAdded
<1>11. Len(d) > 0
  BY <1>1, <1>3, <1>6
<1> QED
  BY <1>6, <1>10, <1>11 DEF Sync, SettledAt, PastMarker, d

(* What a caller passes to KCF_write_record.                                *)
Fit(r) ==
  r \in Headers /\ r.payload # NoPayload /\ (r.hasCRC => r.AddedDataCRC32 = <<>>)

(* The copy of a record that is kept, and its header.                       *)
LEMMA CopyKept ==
  ASSUME NEW r, Fit(r), NEW c \in CopiesOf(r)
  PROVE  /\ rec_to_buffer(c) \in CopiesOf(rec_to_buffer(r))
         /\ c.hasSize = r.hasSize /\ c.hasCRC = r.hasCRC /\ c.AddedSize = r.AddedSize
         /\ "alloc" \notin Faults => c.payload # NoPayload
<1>1. CASE c = r
  BY <1>1 DEF CopiesOf, Fit
<1>2. CASE c # r
  <2>1. "alloc" \in Faults /\ c = [r EXCEPT !.payload = NoPayload]
    BY <1>2 DEF CopiesOf, When
  <2> QED
    BY <2>1 DEF CopiesOf, When, Fit, rec_to_buffer, Headers, RecordOf
<1> QED
  BY <1>1, <1>2

(* A header with the data still to come.                                    *)
LEMMA RecordOpened ==
  ASSUME Headers \cap Symbols = {}, NEW k, NEW s, Ready(k, s),
         NEW r, Fit(r), r.hasSize,
         NEW q, q.ParserState = "WRITE_ADDED_DATA", q.RecordOffset = s.pos,
         q.LastRecord \in CopiesOf(r),
         q.HasAddedDataCRC32 = r.hasCRC, q.AvailableOrToBeWritten = r.AddedSize,
         q.ReadOrWritten = 0, q.AddedDataCRC32 = <<>>,
         NEW t, Appended(t, s, <<rec_to_buffer(r)>>), t.writable
  PROVE  Sync(q, t)
<1> DEFINE c == s.cells
           d == t.cells
           n == Len(c)
           h == rec_to_buffer(r)
<1>1. /\ c \in Seq(Cells) /\ n \in Nat \ {0} /\ s.pos = n
      /\ CompleteRecords(c, n)
  BY ReadyFacts
<1>2. d = c \o <<h>> /\ t.pos = n + 1 /\ AtEnd(t)
  BY <1>1 DEF Appended
<1>3. h \in Cells /\ IsHeader(h) /\ q.LastRecord \in Headers
  <2>1. r \in Headers /\ q.LastRecord \in Headers
    BY CopyType DEF Fit
  <2> QED
    BY <2>1, HeaderCell
<1> HIDE DEF c, d, n, h
<1>4. /\ d \in Seq(Cells) /\ Len(d) = n + 1 /\ d[n + 1] = h
      /\ \A i \in 1..n : c[i] = d[i]
  BY <1>1, <1>2, <1>3, AppendedOne DEF n
<1>5. CompleteRecords(d, n)
  <2>1. n \in Nat /\ n <= Len(c) /\ n <= Len(d)
    BY <1>1, <1>4 DEF n
  <2> QED
    BY <1>1, <1>4, <2>1, PrefixComplete
<1>6. SubSeq(d, n + 2, n + 1) = <<>>
  BY <1>1, SubSeqEmpty
<1>7. HeaderKept(q, t)
  <2>1. n + 1 \in 1..t.pos /\ q.RecordOffset + 1 = n + 1
    BY <1>1, <1>2
  <2>2. /\ rec_to_buffer(q.LastRecord) \in CopiesOf(h)
        /\ q.LastRecord.hasSize = r.hasSize /\ q.LastRecord.hasCRC = r.hasCRC
        /\ q.LastRecord.AddedSize = r.AddedSize
        /\ "alloc" \notin Faults => q.LastRecord.payload # NoPayload
    BY CopyKept DEF h
  <2> QED
    BY <1>3, <1>4, <2>1, <2>2 DEF HeaderKept, d
<1>8. DataCounted(q, t)
  <2>1. t.pos - (n + 1) = 0 /\ (n + 1 + 1)..t.pos = {} /\ n + 1 + 1 = n + 2 /\ t.pos = n + 1
    BY <1>1, <1>2
  <2>2. q.AvailableOrToBeWritten > 0 => 0 <= q.AvailableOrToBeWritten
    BY DEF Fit, Headers, RecordOf
  <2>3. q.RecordOffset = n
    BY <1>1
  <2> QED
    BY <1>6, <2>1, <2>2, <2>3 DEF DataCounted, d
<1>9. Len(d) > 0 /\ q.RecordOffset > 0 /\ q.RecordOffset = n
  BY <1>1, <1>4
<1> QED
  BY <1>2, <1>5, <1>7, <1>8, <1>9 DEF Sync, SettledAt, PastMarker, d

(* What a call that writes comes back with; the sound handle stays sound.   *)
Wrote(o, sound) ==
  /\ o.ret \notin Bad /\ Sync(o.kcf, o.io)
  /\ sound => SoundSync(o.kcf, o.io)

LEMMA OpenFields ==
  ASSUME NEW k \in Handles, NEW r, NEW a \in Nat,
         NEW q, q = OpenRecord([k EXCEPT !.RecordOffset = a], r)
  PROVE  /\ q.ReadOrWritten = k.ReadOrWritten /\ q.AddedDataCRC32 = k.AddedDataCRC32
         /\ r.hasSize => /\ q.ParserState = "WRITE_ADDED_DATA" /\ q.RecordOffset = a
                         /\ q.LastRecord = r /\ q.HasAddedDataCRC32 = r.hasCRC
                         /\ q.AvailableOrToBeWritten = r.AddedSize
         /\ ~r.hasSize => /\ q.ParserState = k.ParserState
                          /\ q.AvailableOrToBeWritten = k.AvailableOrToBeWritten
BY DEF OpenRecord, Handles

(* Where a call that has written a header leaves the handle.                *)
Opened(q, r, n) ==
  /\ r.hasSize => /\ q.ParserState = "WRITE_ADDED_DATA" /\ q.RecordOffset = n
                  /\ q.LastRecord \in CopiesOf(r)
  /\ ~r.hasSize => q.ParserState = "WRITE_RECORD"

(* A call that could not write leaves what there was.                       *)
Failed(o, k, s) ==
  /\ o.ret \in Bad /\ o.io = s
  /\ o.kcf.ParserState = k.ParserState /\ Sync(o.kcf, s)

LEMMA WriteHeaderSync ==
  ASSUME Steady, NEW k, NEW s, Ready(k, s), NEW r, Fit(r),
         NEW o \in WriteHeader(k, s, r)
  PROVE  /\ o.ret = "OK" =>
              /\ Wrote(o, k.AvailableOrToBeWritten = 0)
              /\ o.io.cells = s.cells \o <<rec_to_buffer(r)>> /\ Opened(o.kcf, r, Len(s.cells))
         /\ o.ret # "OK" => Failed(o, k, s) /\ (Harmless => ~s.writable)
<1> DEFINE h == rec_to_buffer(r)
           k1 == [k EXCEPT !.RecordOffset = s.pos]
<1>1. Headers \cap Symbols = {} /\ "tell" \notin Faults
  BY DEF Steady
<1>2. /\ s \in GoodStreams /\ AtEnd(s) /\ s.pos \in Nat /\ k \in Handles
      /\ s.cells \in Seq(Cells) /\ Sync(k, s)
      /\ k.ReadOrWritten = 0 /\ k.AddedDataCRC32 = <<>> /\ k.ParserState = "WRITE_RECORD"
  BY ReadyFacts, StreamFields DEF Ready
<1>3. r \in Headers /\ h \in Cells /\ IsHeader(h) /\ <<h>> \in Seq(Cells)
  BY <1>1, HeaderCell DEF Fit
<1>4. k1.ParserState = "WRITE_RECORD" /\ Sync(k1, s)
  <2>1. /\ k1.ParserState = "WRITE_RECORD" /\ k1.ReadOrWritten = k.ReadOrWritten
        /\ k1.AddedDataCRC32 = k.AddedDataCRC32
    BY <1>2 DEF Handles
  <2> HIDE DEF k1
  <2> QED
    BY <1>2, <2>1 DEF Sync, SettledAt, PastMarker
<1> HIDE DEF h
<1>5. CASE o = Result(k, s, "OUT_OF_MEMORY") /\ "alloc" \in Faults
  BY <1>2, <1>5 DEF Result, Failed, Bad, Failures, Harmless
<1>6. ASSUME NEW w \in IO_write(s, <<h>>), ~w.ok, o = Result(k1, w.io, "WRITE")
      PROVE  o.ret # "OK" /\ Failed(o, k, s) /\ (Harmless => ~s.writable)
  <2>1. w.io = s /\ (Harmless => ~s.writable)
    BY <1>3, <1>6, HeaderWriteFails
  <2> HIDE DEF k1
  <2> QED
    BY <1>2, <1>4, <1>6, <2>1 DEF Result, Failed, Bad, Failures
<1>7. ASSUME NEW w \in IO_write(s, <<h>>), w.ok, NEW c \in CopiesOf(r),
             o = Result(OpenRecord(k1, c), w.io, "OK")
      PROVE  /\ o.ret = "OK" /\ Wrote(o, k.AvailableOrToBeWritten = 0)
             /\ o.io.cells = s.cells \o <<rec_to_buffer(r)>> /\ Opened(o.kcf, r, Len(s.cells))
  <2> DEFINE q == OpenRecord(k1, c)
  <2>1. Appended(w.io, s, <<h>>)
    BY <1>2, <1>3, <1>7, WriteAppends
  <2>2. w.io.writable
    BY <1>2, <1>7, WriteKeepsMode DEF Steady
  <2>3. c.hasSize = r.hasSize /\ c.hasCRC = r.hasCRC /\ c.AddedSize = r.AddedSize
    BY CopyKept
  <2>4. /\ q.ReadOrWritten = k.ReadOrWritten /\ q.AddedDataCRC32 = k.AddedDataCRC32
        /\ r.hasSize => /\ q.ParserState = "WRITE_ADDED_DATA" /\ q.RecordOffset = s.pos
                        /\ q.LastRecord = c /\ q.HasAddedDataCRC32 = r.hasCRC
                        /\ q.AvailableOrToBeWritten = r.AddedSize
        /\ ~r.hasSize => /\ q.ParserState = k.ParserState
                         /\ q.AvailableOrToBeWritten = k.AvailableOrToBeWritten
    BY <1>2, <2>3, OpenFields
  <2> HIDE DEF q, k1
  <2>5. o.ret = "OK" /\ o.ret \notin Bad /\ o.kcf = q /\ o.io = w.io
    BY <1>7 DEF Result, Bad, Failures, q
  <2>6. o.io.cells = s.cells \o <<rec_to_buffer(r)>>
    BY <2>1, <2>5 DEF Appended, h
  <2>7. Opened(o.kcf, r, Len(s.cells))
    <3>1. s.pos = Len(s.cells)
      BY ReadyFacts
    <3> QED
      BY <1>2, <2>4, <2>5, <3>1 DEF Opened
  <2>8. CASE r.hasSize
    <3>1. Sync(q, w.io)
      BY <1>1, <1>2, <2>1, <2>2, <2>4, <2>8, RecordOpened DEF h
    <3> QED
      BY <2>4, <2>5, <2>6, <2>7, <2>8, <3>1 DEF Wrote, SoundSync
  <2>9. CASE ~r.hasSize
    <3>1. <<>> \in Seq(Bytes) /\ Len(<<>>) = 0
      BY EmptyType
    <3>2. DataLen(h) = Len(<<>>) /\ (h.hasCRC => h.AddedDataCRC32 = <<>>)
      BY <1>3, <2>9, BufferFields DEF h, DataLen, Fit
    <3>3. w.io.cells = (s.cells \o <<h>>) \o <<>> /\ AtEnd(w.io)
      <4>1. s.cells \o <<h>> \in Seq(Cells)
        BY <1>2, <1>3, ConcatProperties
      <4>2. (s.cells \o <<h>>) \o <<>> = s.cells \o <<h>>
        BY <4>1, ConcatEmptySeq
      <4> QED
        BY <2>1, <4>2 DEF Appended
    <3>4. q.ParserState = "WRITE_RECORD" /\ q.ReadOrWritten = 0 /\ q.AddedDataCRC32 = <<>>
      BY <1>2, <2>4, <2>9
    <3>5. Sync(q, w.io)
      BY <1>3, <3>1, <3>2, <3>3, <3>4, RecordWritten
    <3> QED
      BY <2>4, <2>5, <2>6, <2>7, <2>9, <3>4, <3>5 DEF Wrote, SoundSync
  <2> QED
    BY <2>8, <2>9
<1>8. \/ o = Result(k, s, "OUT_OF_MEMORY") /\ "alloc" \in Faults
      \/ \E w \in IO_write(s, <<h>>) :
           IF w.ok THEN \E c \in CopiesOf(r) : o = Result(OpenRecord(k1, c), w.io, "OK")
                   ELSE o = Result(k1, w.io, "WRITE")
  <2>1. IO_tell(s) = {s.pos}
    BY <1>1 DEF IO_tell, When
  <2> QED
    BY <2>1 DEF WriteHeader, When, h
<1> HIDE DEF k1
<1>9. CASE o = Result(k, s, "OUT_OF_MEMORY") /\ "alloc" \in Faults
  BY <1>5, <1>9 DEF Result
<1>10. ASSUME NEW w \in IO_write(s, <<h>>),
              IF w.ok THEN \E c \in CopiesOf(r) : o = Result(OpenRecord(k1, c), w.io, "OK")
                      ELSE o = Result(k1, w.io, "WRITE")
       PROVE  /\ o.ret = "OK" =>
                   /\ Wrote(o, k.AvailableOrToBeWritten = 0)
                   /\ o.io.cells = s.cells \o <<rec_to_buffer(r)>>
                   /\ Opened(o.kcf, r, Len(s.cells))
              /\ o.ret # "OK" => Failed(o, k, s) /\ (Harmless => ~s.writable)
  BY <1>6, <1>7, <1>10
<1> QED
  BY <1>8, <1>9, <1>10

(* A call that is refused.                                                  *)
LEMMA RefusedSync ==
  ASSUME NEW k, NEW s, Sync(k, s), NEW o \in Refuse(k, s)
  PROVE  Wrote(o, SoundSync(k, s)) /\ o = Result(k, s, "INVALID_STATE")
BY DEF Refuse, Result, Wrote, Bad, Failures

LEMMA WriteRecordSync ==
  ASSUME Steady, NEW k, NEW s, Good(k, s), Sync(k, s),
         Harmless \/ k.ParserState # "WRITE_ADDED_DATA",
         k.ParserState = "WRITE_ADDED_DATA" => Whole(k), NEW r, Fit(r),
         NEW o \in KCF_write_record(k, s, r)
  PROVE  /\ o.ret \notin Bad =>
              /\ Wrote(o, SoundSync(k, s))
              /\ MayWriteRecord(k) => /\ o.io.cells = Finished(k, s) \o <<rec_to_buffer(r)>>
                                      /\ Opened(o.kcf, r, Len(Finished(k, s)))
         /\ o.ret \in Bad => k.ParserState = "WRITE_RECORD" /\ Failed(o, k, s)
<1>1. CASE ~MayWriteRecord(k)
  BY <1>1, RefusedSync DEF KCF_write_record, Wrote
<1>2. CASE MayWriteRecord(k)
  <2>1. PICK f \in PreviousFinished(k, s) :
          o \in IF Survives(f) THEN WriteHeader(f.kcf, f.io, r) ELSE {f}
    BY <1>2 DEF KCF_write_record
  <2>2. /\ f.ret = "OK" /\ Ready(f.kcf, f.io) /\ f.io.cells = Finished(k, s)
        /\ SoundSync(k, s) => f.kcf.AvailableOrToBeWritten = 0
        /\ k.ParserState = "WRITE_RECORD" => f = Result(k, s, "OK")
        /\ k.ParserState = "WRITE_ADDED_DATA" => f.io.writable
    BY <1>2, PreviousFinishedSync
  <2>3. o \in WriteHeader(f.kcf, f.io, r)
    BY <2>1, <2>2 DEF Survives
  <2>4. /\ o.ret = "OK" =>
             /\ Wrote(o, f.kcf.AvailableOrToBeWritten = 0)
             /\ o.io.cells = f.io.cells \o <<rec_to_buffer(r)>>
             /\ Opened(o.kcf, r, Len(f.io.cells))
        /\ o.ret # "OK" => Failed(o, f.kcf, f.io) /\ (Harmless => ~f.io.writable)
    BY <2>2, <2>3, WriteHeaderSync
  <2>5. CASE o.ret = "OK"
    BY <2>2, <2>4, <2>5 DEF Wrote, Bad, Failures
  <2>6. CASE o.ret # "OK"
    <3>1. k.ParserState = "WRITE_RECORD"
      BY <1>2, <2>2, <2>4, <2>6 DEF MayWriteRecord, IsWritingState, Sync, PastMarker
    <3> QED
      BY <2>2, <2>4, <2>6, <3>1 DEF Failed, Result
  <2> QED
    BY <2>5, <2>6
<1> QED
  BY <1>1, <1>2

(* The header of record r with data x.                                      *)
LEMMA DataHeader ==
  ASSUME Headers \cap Symbols = {}, NEW r \in Headers, r.hasCRC => r.AddedDataCRC32 = <<>>,
         NEW x \in Seq(Bytes), NEW h, h = rec_to_buffer(WithAddedData(r, x))
  PROVE  /\ h \in Cells /\ IsHeader(h) /\ DataLen(h) = Len(x)
         /\ h.hasCRC => h.AddedDataCRC32 = x
<1> DEFINE v == WithAddedData(r, x)
<1>1. v \in Headers
  BY WithAddedDataType
<1>2. h \in Cells /\ IsHeader(h)
  BY <1>1, HeaderCell
<1>3. CASE x # <<>>
  <2>1. v.hasSize /\ v.AddedSize = Len(x) /\ v.hasCRC = r.hasCRC /\ (r.hasCRC => v.AddedDataCRC32 = x)
    BY <1>3 DEF WithAddedData, Headers, RecordOf
  <2> HIDE DEF v
  <2> QED
    BY <1>1, <1>2, <2>1, BufferFields DEF DataLen, v
<1>4. CASE x = <<>>
  <2>1. ~v.hasSize /\ ~v.hasCRC
    BY <1>4 DEF WithAddedData, Headers, RecordOf
  <2>2. Len(x) = 0
    BY <1>4
  <2> HIDE DEF v
  <2> QED
    BY <1>1, <1>2, <2>1, <2>2, BufferFields DEF DataLen, v
<1> QED
  BY <1>3, <1>4

(* Header r and data x are written, and the handle is as it was.            *)
WroteAll(o, k, s, r, x) ==
  o.kcf = k /\ o.io.cells = (s.cells \o <<rec_to_buffer(WithAddedData(r, x))>>) \o x

LEMMA HeaderAndDataSync ==
  ASSUME Steady, NEW k, NEW s, Ready(k, s), NEW r \in Headers,
         r.hasCRC => r.AddedDataCRC32 = <<>>, NEW x \in Seq(Bytes),
         NEW o \in HeaderAndData(k, s, r, x)
  PROVE  /\ o.ret = "OK" => Wrote(o, k.AvailableOrToBeWritten = 0) /\ WroteAll(o, k, s, r, x)
         /\ o.ret # "OK" => /\ o.ret \in Bad /\ o.kcf = k
                            /\ Harmless => ~s.writable /\ Failed(o, k, s)
<1> DEFINE h == rec_to_buffer(WithAddedData(r, x))
<1>1. Headers \cap Symbols = {}
  BY DEF Steady
<1>2. /\ s \in GoodStreams /\ AtEnd(s) /\ k.ParserState = "WRITE_RECORD" /\ Sync(k, s)
      /\ k.ReadOrWritten = 0 /\ k.AddedDataCRC32 = <<>>
  BY ReadyFacts DEF Ready
<1>3. /\ h \in Cells /\ IsHeader(h) /\ DataLen(h) = Len(x)
      /\ (h.hasCRC => h.AddedDataCRC32 = x)
  BY <1>1, DataHeader
<1>4. <<h>> \in Seq(Cells) /\ x \in Seq(Cells)
  BY <1>3, BytesCells
<1>5. \/ o = Result(k, s, "OUT_OF_MEMORY") /\ "alloc" \in Faults
      \/ \E w \in IO_write(s, <<h>>) :
           IF w.ok THEN \E d \in IO_write(w.io, x) : o = Result(k, d.io, IF d.ok THEN "OK" ELSE "WRITE")
                   ELSE o = Result(k, w.io, "WRITE")
  BY DEF HeaderAndData, When
<1> HIDE DEF h
<1>6. CASE o = Result(k, s, "OUT_OF_MEMORY") /\ "alloc" \in Faults
  BY <1>6 DEF Result, Harmless, Bad, Failures
<1>7. ASSUME NEW w \in IO_write(s, <<h>>), ~w.ok, o = Result(k, w.io, "WRITE")
      PROVE  o.ret # "OK" /\ o.ret \in Bad /\ o.kcf = k /\ (Harmless => ~s.writable /\ Failed(o, k, s))
  <2>1. w.io = s /\ (Harmless => ~s.writable)
    BY <1>3, <1>7, HeaderWriteFails
  <2> QED
    BY <1>2, <1>7, <2>1 DEF Result, Failed, Bad, Failures
<1>8. ASSUME NEW w \in IO_write(s, <<h>>), w.ok, NEW d \in IO_write(w.io, x),
             o = Result(k, d.io, IF d.ok THEN "OK" ELSE "WRITE")
      PROVE  /\ o.ret = "OK" => Wrote(o, k.AvailableOrToBeWritten = 0) /\ WroteAll(o, k, s, r, x)
             /\ o.ret # "OK" => o.ret \in Bad /\ o.kcf = k /\ ~Harmless
  <2>1. Appended(w.io, s, <<h>>) /\ w.io.writable
    BY <1>2, <1>4, <1>8, WriteAppends, WriteKeepsMode
  <2>2. CASE d.ok
    <3>1. Appended(d.io, w.io, x)
      BY <1>4, <2>1, <2>2, WriteAppends DEF Appended
    <3>2. AtEnd(d.io) /\ d.io.cells = (s.cells \o <<h>>) \o x
      BY <2>1, <3>1 DEF Appended
    <3>3. Sync(k, d.io)
      BY <1>2, <1>3, <3>2, RecordWritten
    <3> QED
      BY <1>2, <1>8, <2>2, <3>2, <3>3 DEF Wrote, WroteAll, Result, Bad, Failures, SoundSync, h
  <2>3. CASE ~d.ok
    <3>1. ~Harmless
      BY <2>1, <2>3, WriteFails DEF Appended
    <3> QED
      BY <1>8, <2>3, <3>1 DEF Result, Bad, Failures
  <2> QED
    BY <2>2, <2>3
<1> QED
  BY <1>5, <1>6, <1>7, <1>8

LEMMA WithDataSync ==
  ASSUME Steady, NEW k, NEW s, Good(k, s), Sync(k, s),
         Harmless \/ k.ParserState # "WRITE_ADDED_DATA",
         k.ParserState = "WRITE_ADDED_DATA" => Whole(k), NEW r \in Headers,
         r.hasCRC => r.AddedDataCRC32 = <<>>, NEW x \in Seq(Bytes),
         NEW o \in KCF_write_record_with_added_data(k, s, r, x)
  PROVE  /\ o.ret \notin Bad =>
              /\ Wrote(o, SoundSync(k, s))
              /\ MayWriteRecord(k) =>
                   /\ o.kcf.ParserState = "WRITE_RECORD"
                   /\ o.io.cells = (Finished(k, s) \o <<rec_to_buffer(WithAddedData(r, x))>>) \o x
         /\ o.ret \in Bad => /\ k.ParserState = "WRITE_RECORD" /\ o.kcf = k
                             /\ Harmless => Failed(o, k, s)
<1>1. CASE ~MayWriteRecord(k)
  BY <1>1, RefusedSync DEF KCF_write_record_with_added_data, Wrote
<1>2. CASE MayWriteRecord(k)
  <2>1. PICK f \in PreviousFinished(k, s) :
          o \in IF Survives(f) THEN HeaderAndData(f.kcf, f.io, r, x) ELSE {f}
    BY <1>2 DEF KCF_write_record_with_added_data
  <2>2. /\ f.ret = "OK" /\ Ready(f.kcf, f.io) /\ f.io.cells = Finished(k, s)
        /\ SoundSync(k, s) => f.kcf.AvailableOrToBeWritten = 0
        /\ k.ParserState = "WRITE_RECORD" => f = Result(k, s, "OK")
        /\ k.ParserState = "WRITE_ADDED_DATA" => f.io.writable
    BY <1>2, PreviousFinishedSync
  <2>3. o \in HeaderAndData(f.kcf, f.io, r, x)
    BY <2>1, <2>2 DEF Survives
  <2>4. /\ o.ret = "OK" => /\ Wrote(o, f.kcf.AvailableOrToBeWritten = 0)
                           /\ WroteAll(o, f.kcf, f.io, r, x)
        /\ o.ret # "OK" => /\ o.ret \in Bad /\ o.kcf = f.kcf
                           /\ Harmless => ~f.io.writable /\ Failed(o, f.kcf, f.io)
    BY <2>2, <2>3, HeaderAndDataSync
  <2>5. CASE o.ret = "OK"
    <3>1. o.kcf.ParserState = "WRITE_RECORD"
      BY <2>2, <2>4, <2>5 DEF Ready, WroteAll
    <3>2. o.io.cells = (Finished(k, s) \o <<rec_to_buffer(WithAddedData(r, x))>>) \o x
      BY <2>2, <2>4, <2>5 DEF WroteAll
    <3> QED
      BY <2>2, <2>4, <2>5, <3>1, <3>2 DEF Wrote, Bad, Failures
  <2>6. CASE o.ret # "OK"
    <3>1. k.ParserState = "WRITE_RECORD"
      BY <1>2, <2>2, <2>4, <2>6 DEF MayWriteRecord, IsWritingState, Sync, PastMarker
    <3> QED
      BY <2>2, <2>4, <2>6, <3>1 DEF Result
  <2> QED
    BY <2>5, <2>6
<1> QED
  BY <1>1, <1>2

(***************************************************************************)
(* Data.                                                                    *)
(***************************************************************************)
LEMMA ClippedFits ==
  ASSUME NEW k \in Handles, NEW x \in Seq(Bytes),
         k.AvailableOrToBeWritten > 0 => k.ReadOrWritten <= k.AvailableOrToBeWritten
  PROVE  /\ Clipped(k, x) \in Seq(Bytes) /\ Len(Clipped(k, x)) \in Nat
         /\ k.AvailableOrToBeWritten > 0 =>
              k.ReadOrWritten + Len(Clipped(k, x)) <= k.AvailableOrToBeWritten
<1>1. Clipped(k, x) \in Seq(Bytes) /\ Len(Clipped(k, x)) \in Nat
  BY ClippedType
<1>2. ASSUME k.AvailableOrToBeWritten > 0
      PROVE  k.ReadOrWritten + Len(Clipped(k, x)) <= k.AvailableOrToBeWritten
  <2> DEFINE left == k.AvailableOrToBeWritten - k.ReadOrWritten
  <2>1. left \in Nat /\ k.ReadOrWritten \in Nat /\ k.AvailableOrToBeWritten = k.ReadOrWritten + left
    BY <1>2 DEF Handles
  <2>2. Clipped(k, x) = SubSeq(x, 1, AtMost(Len(x), left))
    <3>1. left >= 0
      BY <2>1
    <3> QED
      BY <1>2, <3>1, Zenon DEF Clipped
  <2> HIDE DEF left
  <2>3. AtMost(Len(x), left) \in 0..Len(x) /\ AtMost(Len(x), left) <= left
    BY <2>1 DEF AtMost
  <2>4. Len(Clipped(k, x)) = AtMost(Len(x), left)
    BY <2>2, <2>3
  <2> QED
    BY <2>1, <2>3, <2>4
<1> QED
  BY <1>1, <1>2

(* More data of the record being written, counted and in the checksum.      *)
LEMMA DataAdded ==
  ASSUME NEW k, NEW s, Good(k, s), Sync(k, s), k.ParserState = "WRITE_ADDED_DATA",
         NEW y \in Seq(Bytes),
         k.AvailableOrToBeWritten > 0 => k.ReadOrWritten + Len(y) <= k.AvailableOrToBeWritten,
         NEW q, q.ParserState = "WRITE_ADDED_DATA", q.RecordOffset = k.RecordOffset,
         q.LastRecord = k.LastRecord, q.HasAddedDataCRC32 = k.HasAddedDataCRC32,
         q.AvailableOrToBeWritten = k.AvailableOrToBeWritten,
         q.ReadOrWritten = k.ReadOrWritten + Len(y),
         q.AddedDataCRC32 = IF k.HasAddedDataCRC32 THEN k.AddedDataCRC32 \o y ELSE k.AddedDataCRC32,
         NEW t, Appended(t, s, y), t.writable
  PROVE  Sync(q, t)
<1> DEFINE c == s.cells
           d == t.cells
           n == k.RecordOffset
           m == k.ReadOrWritten
<1>1. /\ c \in Seq(Cells) /\ Len(c) \in Nat /\ m \in Nat /\ n \in Nat \ {0}
      /\ s.pos = Len(c) /\ Len(c) = n + 1 + m
      /\ HeaderKept(k, s) /\ DataCounted(k, s)
  BY StreamFields, WriterFacts
<1>2. \A j \in (n + 2)..(n + 1 + m) : c[j] \in Bytes
  BY <1>1, WriterFacts
<1>3. CompleteRecords(c, n)
  BY DEF Sync, SettledAt
<1>4. y \in Seq(Cells) /\ Len(y) \in Nat
  BY BytesCells
<1>5. d = c \o y /\ t.pos = s.pos + Len(y) /\ AtEnd(t)
  BY DEF Appended
<1> HIDE DEF c, d, n, m
<1>6. /\ c \o y \in Seq(Cells) /\ Len(c \o y) = Len(c) + Len(y)
      /\ \A i \in 1..Len(c) : (c \o y)[i] = c[i]
      /\ \A i \in 1..Len(y) : (c \o y)[Len(c) + i] = y[i]
  BY <1>1, <1>4, AppendedCells
<1>7. /\ d \in Seq(Cells) /\ Len(d) = n + 1 + m + Len(y)
      /\ \A i \in 1..(n + 1 + m) : d[i] = c[i]
      /\ \A i \in 1..Len(y) : d[n + 1 + m + i] = y[i]
  BY <1>1, <1>5, <1>6
<1>8. CompleteRecords(d, n)
  <2>1. n \in Nat /\ n <= Len(c) /\ n <= Len(d) /\ \A i \in 1..n : c[i] = d[i]
    BY <1>1, <1>4, <1>7
  <2> QED
    BY <1>1, <1>3, <1>7, <2>1, PrefixComplete
<1>9. \A j \in (n + 2)..(n + 1 + m + Len(y)) : d[j] \in Bytes
  <2> SUFFICES ASSUME NEW j \in (n + 2)..(n + 1 + m + Len(y)) PROVE d[j] \in Bytes
    OBVIOUS
  <2>1. CASE j <= n + 1 + m
    BY <1>1, <1>2, <1>7, <2>1
  <2>2. CASE j > n + 1 + m
    <3>1. j - (n + 1 + m) \in 1..Len(y) /\ n + 1 + m + (j - (n + 1 + m)) = j
      <4>1. n \in Nat /\ m \in Nat /\ Len(y) \in Nat
        BY <1>1, <1>4
      <4>2. j \in (n + 2)..(n + 1 + m + Len(y))
        OBVIOUS
      <4> QED
        BY ONLY <2>2, <4>1, <4>2
    <3>2. y[j - (n + 1 + m)] \in Bytes
      BY <3>1
    <3> QED
      BY <1>7, <3>1, <3>2
  <2> QED
    BY <1>1, <2>1, <2>2
<1>10. SubSeq(c, n + 2, n + 1 + m) \o y = SubSeq(d, n + 2, n + 1 + m + Len(y))
  <2>1. /\ n + 2 \in Nat \ {0} /\ n + 1 + m \in Nat /\ n + 1 + m <= Len(c) /\ n + 1 + m <= Len(d)
        /\ n + 2 <= (n + 1 + m) + 1 /\ (n + 1 + m) + Len(y) <= Len(d)
        /\ \A j \in (n + 2)..(n + 1 + m) : c[j] = d[j]
    BY <1>1, <1>4, <1>7
  <2>2. SubSeq(c, n + 2, n + 1 + m) = SubSeq(d, n + 2, n + 1 + m)
    <3>1. c \in Seq(Cells) /\ d \in Seq(Cells)
      BY <1>1, <1>7
    <3> QED
      BY ONLY <2>1, <3>1, SubSeqSame
  <2>3. SubSeq(d, n + 2, n + 1 + m) \o y = SubSeq(d, n + 2, n + 1 + m + Len(y))
    <3>1. d \in Seq(Cells) /\ y \in Seq(Cells) /\ \A j \in 1..Len(y) : d[n + 1 + m + j] = y[j]
      BY <1>4, <1>7
    <3> QED
      BY ONLY <2>1, <3>1, SubSeqExtended
  <2> QED
    BY <2>2, <2>3
<1>11. t.pos = n + 1 + m + Len(y) /\ n + 1 + 1 = n + 2 /\ t.pos - (n + 1) = m + Len(y)
  <2>1. n \in Nat /\ m \in Nat /\ Len(y) \in Nat /\ s.pos = n + 1 + m
    BY <1>1, <1>4
  <2>2. t.pos = s.pos + Len(y)
    BY <1>5
  <2> QED
    BY ONLY <2>1, <2>2
<1>12. HeaderKept(q, t)
  <2>1. n + 1 \in 1..t.pos /\ d[n + 1] = c[n + 1]
    BY <1>1, <1>4, <1>7, <1>11
  <2>2. q.RecordOffset + 1 = n + 1
    BY DEF n
  <2> QED
    BY <1>1, <2>1, <2>2 DEF HeaderKept, c, d, n
<1>13. DataCounted(q, t)
  <2>1. q.RecordOffset = n /\ q.ReadOrWritten = m + Len(y)
    BY DEF n, m
  <2>2. k.AddedDataCRC32 = IF k.HasAddedDataCRC32 THEN SubSeq(c, n + 2, n + 1 + m) ELSE <<>>
    BY <1>1, <1>11 DEF DataCounted, c, n, m
  <2>3. q.AddedDataCRC32 =
          IF q.HasAddedDataCRC32 THEN SubSeq(d, n + 2, n + 1 + m + Len(y)) ELSE <<>>
    BY <1>10, <2>2
  <2>4. q.AvailableOrToBeWritten > 0 => q.ReadOrWritten <= q.AvailableOrToBeWritten
    OBVIOUS
  <2> QED
    BY <1>9, <1>11, <2>1, <2>3, <2>4 DEF DataCounted, d
<1>14. Len(d) > 0 /\ q.RecordOffset > 0 /\ q.RecordOffset = n
  BY <1>1, <1>4, <1>7 DEF n
<1> QED
  BY <1>5, <1>7, <1>8, <1>12, <1>13, <1>14 DEF Sync, SettledAt, PastMarker, d

LEMMA WriteAddedDataSync ==
  ASSUME Steady, NEW k, NEW s, Good(k, s), Sync(k, s), NEW x \in Seq(Bytes),
         NEW o \in KCF_write_added_data(k, s, x)
  PROVE  /\ o.ret \notin Bad => Wrote(o, SoundSync(k, s))
         /\ o.ret \in Bad => ~Harmless /\ o.kcf = k /\ WroteSome(o.io, s, Clipped(k, x))
         /\ \/ o.ret \in Bad
            \/ o.kcf = k /\ o.io = s
            \/ /\ k.ParserState = "WRITE_ADDED_DATA" /\ o.kcf.ParserState = "WRITE_ADDED_DATA"
               /\ o.kcf.RecordOffset = k.RecordOffset /\ o.kcf.LastRecord = k.LastRecord
               /\ o.io.cells = s.cells \o Clipped(k, x)
<1> DEFINE y == Clipped(k, x)
           q == [k EXCEPT !.ReadOrWritten = @ + Len(y),
                          !.AddedDataCRC32 = IF k.HasAddedDataCRC32 THEN @ \o y ELSE @]
<1>1. CASE k.ParserState # "WRITE_ADDED_DATA"
  BY <1>1, RefusedSync DEF KCF_write_added_data, Result, Wrote
<1>2. CASE o = Result(k, s, "OK")
  BY <1>2 DEF Wrote, Result, Bad, Failures
<1>3. ASSUME k.ParserState = "WRITE_ADDED_DATA", NEW w \in IO_write(s, y), w.ok,
             o = Result(q, w.io, "OK")
      PROVE  /\ Wrote(o, SoundSync(k, s)) /\ o.kcf.ParserState = "WRITE_ADDED_DATA"
             /\ o.kcf.RecordOffset = k.RecordOffset /\ o.kcf.LastRecord = k.LastRecord
             /\ o.io.cells = s.cells \o y
  <2>1. k \in Handles /\ s \in GoodStreams
    BY StreamFields
  <2>2. DataCounted(k, s) /\ AtEnd(s)
    BY <1>3, WriterFacts
  <2>3. /\ y \in Seq(Bytes) /\ Len(y) \in Nat /\ y \in Seq(Cells)
        /\ k.AvailableOrToBeWritten > 0 => k.ReadOrWritten + Len(y) <= k.AvailableOrToBeWritten
    BY <2>1, <2>2, ClippedFits, BytesCells DEF DataCounted
  <2>4. Appended(w.io, s, y) /\ w.io.writable
    BY <1>3, <2>1, <2>2, <2>3, WriteAppends, WriteKeepsMode
  <2> HIDE DEF y
  <2>5. /\ q.ParserState = "WRITE_ADDED_DATA" /\ q.RecordOffset = k.RecordOffset
        /\ q.LastRecord = k.LastRecord /\ q.HasAddedDataCRC32 = k.HasAddedDataCRC32
        /\ q.AvailableOrToBeWritten = k.AvailableOrToBeWritten
        /\ q.ReadOrWritten = k.ReadOrWritten + Len(y)
        /\ q.AddedDataCRC32 =
             IF k.HasAddedDataCRC32 THEN k.AddedDataCRC32 \o y ELSE k.AddedDataCRC32
    BY <1>3, <2>1 DEF Handles
  <2> HIDE DEF q
  <2>6. Sync(q, w.io)
    BY <1>3, <2>3, <2>4, <2>5, DataAdded
  <2>7. w.io.cells = s.cells \o y
    BY <2>4 DEF Appended
  <2> QED
    BY <1>3, <2>5, <2>6, <2>7 DEF Wrote, Result, Bad, Failures, SoundSync
<1>4. ASSUME k.ParserState = "WRITE_ADDED_DATA", NEW w \in IO_write(s, y), ~w.ok,
             o = Result(k, w.io, "WRITE")
      PROVE  o.ret \in Bad /\ ~Harmless /\ o.kcf = k /\ WroteSome(o.io, s, y)
  <2>1. s.writable /\ s \in GoodStreams /\ AtEnd(s)
    BY <1>4, WriterFacts, StreamFields
  <2>2. y \in Seq(Bytes)
    BY <1>4, ClippedType, StreamFields
  <2> HIDE DEF y
  <2>3. WroteSome(w.io, s, y) /\ ~Harmless
    BY <1>4, <2>1, <2>2, WriteFails
  <2> QED
    BY <1>4, <2>3 DEF Result, Bad, Failures
<1>5. \/ k.ParserState # "WRITE_ADDED_DATA"
      \/ o = Result(k, s, "OK")
      \/ \E w \in IO_write(s, y) :
           o = IF w.ok THEN Result(q, w.io, "OK") ELSE Result(k, w.io, "WRITE")
  BY DEF KCF_write_added_data
<1> HIDE DEF q
<1>6. ASSUME k.ParserState = "WRITE_ADDED_DATA", NEW w \in IO_write(s, y),
             o = IF w.ok THEN Result(q, w.io, "OK") ELSE Result(k, w.io, "WRITE")
      PROVE  /\ o.ret \notin Bad => Wrote(o, SoundSync(k, s))
             /\ o.ret \in Bad => ~Harmless /\ o.kcf = k /\ WroteSome(o.io, s, y)
             /\ \/ o.ret \in Bad
                \/ /\ o.kcf.ParserState = "WRITE_ADDED_DATA"
                   /\ o.kcf.RecordOffset = k.RecordOffset /\ o.kcf.LastRecord = k.LastRecord
                   /\ o.io.cells = s.cells \o y
  <2>1. CASE w.ok
    BY <1>3, <1>6, <2>1 DEF Wrote
  <2>2. CASE ~w.ok
    BY <1>4, <1>6, <2>2
  <2> QED
    BY <2>1, <2>2
<1> QED
  BY <1>1, <1>2, <1>5, <1>6

(***************************************************************************)
(* Reading.                                                                 *)
(***************************************************************************)
(* What any call comes back with, from a sound handle or another.           *)
Fine(o, sound) ==
  /\ Sync(o.kcf, o.io)
  /\ o.ret \in Bad => o.kcf.ParserState # "WRITE_ADDED_DATA"
  /\ sound /\ o.ret \notin Bad => SoundSync(o.kcf, o.io)

LEMMA WroteFine ==
  ASSUME NEW o, NEW sound, Wrote(o, sound)
  PROVE  Fine(o, sound)
BY DEF Wrote, Fine

LEMMA FailedFine ==
  ASSUME NEW o, NEW sound, NEW k, NEW s, Failed(o, k, s), k.ParserState # "WRITE_ADDED_DATA"
  PROVE  Fine(o, sound)
BY DEF Failed, Fine

LEMMA RefusedFine ==
  ASSUME NEW k, NEW s, Sync(k, s), NEW o \in Refuse(k, s)
  PROVE  Fine(o, SoundSync(k, s))
BY RefusedSync, WroteFine

LEMMA WriteRecordFine ==
  ASSUME Undisturbed, NEW k, NEW s, Good(k, s), Sync(k, s),
         k.ParserState = "WRITE_ADDED_DATA" => Whole(k), NEW r, Fit(r),
         NEW o \in KCF_write_record(k, s, r)
  PROVE  Fine(o, SoundSync(k, s))
BY WriteRecordSync, WroteFine, FailedFine DEF Undisturbed, Harmless

LEMMA WithDataFine ==
  ASSUME Undisturbed, NEW k, NEW s, Good(k, s), Sync(k, s),
         k.ParserState = "WRITE_ADDED_DATA" => Whole(k), NEW r \in Headers,
         r.hasCRC => r.AddedDataCRC32 = <<>>, NEW x \in Seq(Bytes),
         NEW o \in KCF_write_record_with_added_data(k, s, r, x)
  PROVE  Fine(o, SoundSync(k, s))
<1>1. Steady /\ Harmless
  BY DEF Undisturbed, Harmless
<1>2. CASE o.ret \notin Bad
  BY <1>1, <1>2, WithDataSync, WroteFine
<1>3. CASE o.ret \in Bad
  <2>1. k.ParserState = "WRITE_RECORD" /\ Failed(o, k, s)
    BY <1>1, <1>3, WithDataSync
  <2> QED
    BY <2>1, FailedFine
<1> QED
  BY <1>2, <1>3

LEMMA FinishFine ==
  ASSUME Undisturbed, NEW k, NEW s, Good(k, s), Sync(k, s),
         k.ParserState = "WRITE_ADDED_DATA" => Whole(k),
         NEW o \in KCF_finish_added_data(k, s)
  PROVE  Fine(o, SoundSync(k, s))
<1>1. CASE k.ParserState # "WRITE_ADDED_DATA"
  BY <1>1, RefusedFine DEF KCF_finish_added_data
<1>2. CASE k.ParserState = "WRITE_ADDED_DATA"
  <2>1. Ended(o)
    BY <1>2, FinishSucceeds, FinishSync DEF Harmless, Undisturbed
  <2> QED
    BY <2>1 DEF Ended, Fresh, Fine, SoundSync, Bad, Failures
<1> QED
  BY <1>1, <1>2

ReaderStates == {"READ_RECORD_HEADER", "READ_RECORD_DATA", "READ_ADDED_DATA"}

(* The position of a reader does not matter to the archive.                 *)
LEMMA ReaderMoved ==
  ASSUME NEW k, NEW s, Sync(k, s), k.ParserState # "WRITE_ADDED_DATA", Len(s.cells) > 0,
         NEW q, q.ParserState \in ReaderStates,
         NEW t, t.cells = s.cells, t.writable = s.writable
  PROVE  Sync(q, t)
BY DEF Sync, SettledAt, ReaderStates, PastMarker

(* What a whole record is followed by.                                      *)
LEMMA AfterRecord ==
  ASSUME NEW c \in Seq(Cells), CompleteRecords(c, Len(c)),
         NEW i \in 1..Len(c), StartsRecord(c[i])
  PROVE  /\ DataLen(c[i]) \in Nat /\ i + DataLen(c[i]) <= Len(c)
         /\ i + DataLen(c[i]) = Len(c) \/ StartsRecord(c[i + DataLen(c[i]) + 1])
         /\ \A j \in (i + 1)..(i + DataLen(c[i])) : c[j] \in Bytes
         /\ IsHeader(c[i]) /\ c[i].hasCRC =>
              c[i].AddedDataCRC32 = SubSeq(c, i + 1, i + DataLen(c[i]))
<1>1. DataLen(c[i]) \in Nat
  BY DEF DataLen, IsHeader, Cells, HeaderCells, Headers, RecordOf
<1>2. /\ i + DataLen(c[i]) <= Len(c)
      /\ \A j \in (i + 1)..(i + DataLen(c[i])) : c[j] \in Bytes
      /\ i + DataLen(c[i]) < Len(c) => StartsRecord(c[i + DataLen(c[i]) + 1])
      /\ IsHeader(c[i]) /\ c[i].hasCRC =>
           c[i].AddedDataCRC32 = SubSeq(c, i + 1, i + DataLen(c[i]))
  BY DEF CompleteRecords
<1>3. i + DataLen(c[i]) \in Int /\ Len(c) \in Int
  BY <1>1
<1> QED
  BY <1>1, <1>2, <1>3

LEMMA MarkerFacts ==
  StartsRecord(Marker) /\ ~IsHeader(Marker) /\ DataLen(Marker) = 0
BY DEF StartsRecord, IsHeader, Symbols, DataLen

(* A header that could be read, as some header, leaves the handle before    *)
(* the main data, and the archive as it was.                                *)
LEMMA HeaderReadFields ==
  ASSUME NEW k, NEW s, Good(k, s), NEW hd \in read_record_header(k, s), hd.ret = "OK"
  PROVE  /\ hd.kcf.ParserState = "READ_RECORD_DATA"
         /\ hd.io.cells = s.cells /\ hd.io.writable = s.writable
         /\ hd.kcf.ReadOrWritten = k.ReadOrWritten
         /\ hd.kcf.ActualAddedDataCRC32 = k.ActualAddedDataCRC32
         /\ hd.kcf.AddedDataCRC32 = IF hd.header.hasCRC THEN hd.header.AddedDataCRC32 ELSE <<>>
<1>1. hd.kcf = Parsed(k, hd.header)
  BY ReadHeaderForms
<1>2. hd.io.cells = s.cells /\ hd.io.writable = s.writable
  BY ReadHeaderType DEF Alike
<1>3. k \in Handles
  BY DEF Good
<1> QED
  BY <1>1, <1>2, <1>3 DEF Parsed, Handles

(* The header at a boundary is read as what it is.                          *)
LEMMA HeaderFound ==
  ASSUME Steady, NEW k, NEW s, NEW hd \in read_record_header(k, s), hd.ret = "OK"
  PROVE  /\ hd.header \in HeadersAt(s) /\ hd.underflows \in BodyUnderflows(s)
         /\ hd.io \in HeaderEnds(s)
<1>1. \A t : hd # Header(k, t, "READ", ZeroRecord, FALSE)
  BY DEF Header
<1>2. \/ hd \in Found(k, HeadersAt(s), HeaderEnds(s), BodyUnderflows(s))
      \/ \E t \in BreaksOff(s) : hd = Header(k, t, "READ", ZeroRecord, FALSE)
  BY DEF read_record_header, When, Steady
<1>3. ASSUME NEW H, NEW T, NEW U, hd \in Found(k, H, T, U)
      PROVE  hd.header \in H /\ hd.underflows \in U /\ hd.io \in T
  <2>1. PICK h \in H, t \in T, u \in U : hd = Header(Parsed(k, h), t, "OK", h, u)
    BY <1>3 DEF Found
  <2> QED
    BY <2>1 DEF Header
<1> QED
  BY <1>1, <1>2, <1>3

(* A header that could not be read leaves the handle as it was.             *)
LEMMA HeaderNotRead ==
  ASSUME NEW k, NEW s, Good(k, s), NEW hd \in read_record_header(k, s), hd.ret # "OK"
  PROVE  hd.ret = "READ" /\ hd.kcf = k /\ hd.io.cells = s.cells /\ hd.io.writable = s.writable
<1>1. hd.ret = "READ" /\ hd.kcf = k
  BY ReadHeaderForms
<1>2. hd.io.cells = s.cells /\ hd.io.writable = s.writable
  BY ReadHeaderType DEF Alike
<1> QED
  BY <1>1, <1>2

(* The main data of a record, after its header.                             *)
LEMMA BodyFine ==
  ASSUME Steady, NEW k, NEW s, Good(k, s), Sync(k, s), k.ParserState = "READ_RECORD_HEADER",
         NEW k0, Good(k0, s), k0.ReadOrWritten = 0, k0.ActualAddedDataCRC32 = <<>>,
         NEW hd \in read_record_header(k0, s), hd.ret = "OK", NEW o \in ReadBody(hd)
  PROVE  Fine(o, SoundSync(k, s))
<1> DEFINE c == s.cells
<1>1. Good(k0, s) /\ k.ParserState = "READ_RECORD_HEADER" /\ hd.ret = "OK"
  OBVIOUS
<1>4. /\ hd.kcf.ParserState = "READ_RECORD_DATA"
      /\ hd.io.cells = s.cells /\ hd.io.writable = s.writable
      /\ hd.kcf.ReadOrWritten = 0 /\ hd.kcf.ActualAddedDataCRC32 = <<>>
      /\ hd.header \in HeadersAt(s) /\ hd.underflows \in BodyUnderflows(s)
      /\ hd.io \in HeaderEnds(s)
      /\ hd.kcf.AddedDataCRC32 = IF hd.header.hasCRC THEN hd.header.AddedDataCRC32 ELSE <<>>
  BY HeaderReadFields, HeaderFound
<1>5. hd.kcf \in Handles
  BY ReadHeaderType DEF GoodHeader, Good
<1> DEFINE next == [hd.kcf EXCEPT !.ParserState = IF hd.header.hasSize THEN "READ_ADDED_DATA"
                                                                    ELSE "READ_RECORD_HEADER",
                                  !.AvailableOrToBeWritten = hd.header.AddedSize]
<1>6. \/ o \in {Result(hd.kcf, hd.io, "OUT_OF_MEMORY"), Result(hd.kcf, hd.io, "READ")}
      \/ ~hd.underflows /\ o = Result(next, hd.io, "OK")
  BY DEF ReadBody, When
<1>7. Len(s.cells) > 0
  BY DEF Sync, PastMarker
<1>8. next.ParserState \in ReaderStates /\ hd.kcf.ParserState \in ReaderStates
  BY <1>4, <1>5 DEF ReaderStates, Handles
<1>9. Sync(next, hd.io) /\ Sync(hd.kcf, hd.io)
  BY <1>4, <1>7, <1>8, ReaderMoved
<1>10. CASE o \in {Result(hd.kcf, hd.io, "OUT_OF_MEMORY"), Result(hd.kcf, hd.io, "READ")}
  BY <1>4, <1>9, <1>10 DEF Fine, Result, Bad, Failures
<1>11. CASE ~hd.underflows /\ o = Result(next, hd.io, "OK")
  <2>1. ASSUME SoundSync(k, s) PROVE SoundSync(next, hd.io)
    <3> DEFINE at == s.pos + 1
    <3>1. ~AtEnd(s) /\ AtRecord(s) /\ StartsRecord(s.cells[at])
      BY <1>4, <1>11, <2>1 DEF SoundSync, AtBoundary, AtRecord, BodyUnderflows
    <3>2. /\ c \in Seq(Cells) /\ s.pos \in Nat /\ at \in 1..Len(c)
          /\ hd.io.pos = at /\ ~hd.io.within
          /\ CompleteRecords(c, Len(c))
      <4>1. c \in Seq(Cells) /\ s.pos \in Nat /\ s.pos <= Len(c) /\ Len(c) \in Nat
        BY StreamFields
      <4>2. at \in 1..Len(c)
        BY <3>1, <4>1 DEF AtEnd
      <4>4. hd.io.pos = at /\ ~hd.io.within
        BY <1>4, <3>1, SeekFields DEF HeaderEnds, Good, GoodStreams
      <4>3. CompleteRecords(c, Len(c))
        BY DEF Sync, SettledAt
      <4> QED
        BY <4>1, <4>2, <4>3, <4>4
    <3>3. hd.header = IF IsHeader(c[at]) THEN c[at] ELSE ZeroRecord
      BY <1>4, <3>1 DEF HeadersAt, StartsRecord
    <3>4. /\ next.AvailableOrToBeWritten = hd.header.AddedSize
          /\ next.ReadOrWritten = 0 /\ next.ActualAddedDataCRC32 = <<>>
          /\ next.AddedDataCRC32 = hd.kcf.AddedDataCRC32
          /\ next.ParserState = IF hd.header.hasSize THEN "READ_ADDED_DATA" ELSE "READ_RECORD_HEADER"
      BY <1>4, <1>5 DEF Handles
    <3> HIDE DEF next, c
    <3>5. CASE ~hd.header.hasSize
      <4>1. DataLen(c[at]) = 0 /\ hd.header.AddedSize = 0
        <5>1. c[at] \in Cells
          BY <3>2
        <5> QED
          BY <3>3, <3>5, <5>1, HeaderFields DEF DataLen, ZeroRecord
      <4>2. at = Len(c) \/ StartsRecord(c[at + 1])
        <5>1. \/ at + DataLen(c[at]) = Len(c)
              \/ StartsRecord(c[at + DataLen(c[at]) + 1])
          BY <3>1, <3>2, AfterRecord DEF c
        <5>2. at + DataLen(c[at]) = at
          BY <3>2, <4>1
        <5> QED
          BY <5>1, <5>2
      <4>3. AtBoundary(hd.io)
        BY <1>4, <3>2, <4>2 DEF AtBoundary, AtRecord, AtEnd, c
      <4> QED
        BY <3>4, <3>5, <4>1, <4>3 DEF SoundSync
    <3>6. CASE hd.header.hasSize
      <4>1. IsHeader(c[at]) /\ hd.header = c[at]
        BY <3>3, <3>6 DEF ZeroRecord
      <4>2. hd.header.AddedSize \in Nat
        BY ReadHeaderType DEF GoodHeader, Headers, RecordOf
      <4>3. DataLen(c[at]) = 0 + hd.header.AddedSize
        BY <3>6, <4>1, <4>2 DEF DataLen
      <4>4. SubSeq(c, at + 1, at) = <<>>
        BY <3>2, SubSeqEmpty
      <4>5. hd.io.pos - next.ReadOrWritten = at /\ at \in 1..hd.io.pos
        BY <3>2, <3>4
      <4>6. DataRead(next, hd.io)
        BY <1>4, <3>2, <3>4, <4>1, <4>3, <4>4, <4>5 DEF DataRead, c
      <4> QED
        BY <3>4, <3>6, <4>6 DEF SoundSync
    <3> QED
      BY <3>5, <3>6
  <2> QED
    BY <1>6, <1>8, <1>9, <1>11, <2>1 DEF Fine, Result, ReaderStates, Bad, Failures
<1> QED
  BY <1>6, <1>10, <1>11

LEMMA ReadRecordFine ==
  ASSUME Steady, NEW k, NEW s, Good(k, s), Sync(k, s), NEW o \in KCF_read_record(k, s)
  PROVE  Fine(o, SoundSync(k, s))
<1> DEFINE k0 == [k EXCEPT !.ReadOrWritten = 0, !.AvailableOrToBeWritten = 0,
                           !.AddedDataCRC32 = <<>>, !.ActualAddedDataCRC32 = <<>>]
<1>1. CASE k.ParserState # "READ_RECORD_HEADER"
  BY <1>1, RefusedFine DEF KCF_read_record
<1>2. CASE k.ParserState = "READ_RECORD_HEADER"
  <2>1. PICK hd \in read_record_header(k0, s) : o \in ReadBody(hd)
    BY <1>2 DEF KCF_read_record
  <2>2. Good(k0, s)
    <3>1. <<>> \in Data
      BY EmptyType DEF Data
    <3> QED
      BY <3>1 DEF Good, Handles
  <2>3. /\ k0.ReadOrWritten = 0 /\ k0.ActualAddedDataCRC32 = <<>>
        /\ k0.ParserState = "READ_RECORD_HEADER"
    BY <1>2 DEF Good, Handles
  <2> HIDE DEF k0
  <2>4. CASE hd.ret = "OK"
    BY <1>2, <2>1, <2>2, <2>3, <2>4, BodyFine
  <2>5. CASE hd.ret # "OK"
    <3>1. hd.ret = "READ" /\ hd.kcf = k0 /\ hd.io.cells = s.cells /\ hd.io.writable = s.writable
      BY <2>1, <2>2, <2>5, HeaderNotRead
    <3>2. o = Result(hd.kcf, hd.io, "READ")
      BY <2>1, <3>1 DEF ReadBody
    <3>3. Len(s.cells) > 0
      BY <1>2 DEF Sync, PastMarker
    <3>4. Sync(hd.kcf, hd.io)
      BY <1>2, <2>3, <3>1, <3>3, ReaderMoved DEF ReaderStates
    <3> QED
      BY <2>3, <3>1, <3>2, <3>4 DEF Fine, Result, Bad, Failures
  <2> QED
    BY <2>4, <2>5
<1> QED
  BY <1>1, <1>2

(* Where the data that is left of a record ends.                            *)
LEMMA DataEnds ==
  ASSUME NEW k, NEW s, Good(k, s), CompleteRecords(s.cells, Len(s.cells)), DataRead(k, s)
  PROVE  LET at  == s.pos - k.ReadOrWritten
             end == s.pos + k.AvailableOrToBeWritten
         IN  /\ at \in 1..s.pos /\ end <= Len(s.cells)
             /\ end = Len(s.cells) \/ StartsRecord(s.cells[end + 1])
             /\ \A j \in (s.pos + 1)..end : s.cells[j] \in Bytes
             /\ s.cells[at].hasCRC =>
                  s.cells[at].AddedDataCRC32 = SubSeq(s.cells, at + 1, end)
<1> DEFINE c == s.cells
           at == s.pos - k.ReadOrWritten
           end == s.pos + k.AvailableOrToBeWritten
<1>1. /\ c \in Seq(Cells) /\ Len(c) \in Nat /\ s.pos \in Nat /\ s.pos <= Len(c)
      /\ k.ReadOrWritten \in Nat /\ k.AvailableOrToBeWritten \in Nat
  BY StreamFields
<1>2. /\ at \in 1..s.pos /\ IsHeader(c[at])
      /\ DataLen(c[at]) = k.ReadOrWritten + k.AvailableOrToBeWritten
  BY DEF DataRead
<1>3. at \in 1..Len(c) /\ StartsRecord(c[at])
  BY <1>1, <1>2 DEF StartsRecord
<1> HIDE DEF c, at, end
<1>4. /\ at + DataLen(c[at]) <= Len(c)
      /\ at + DataLen(c[at]) = Len(c) \/ StartsRecord(c[at + DataLen(c[at]) + 1])
      /\ \A j \in (at + 1)..(at + DataLen(c[at])) : c[j] \in Bytes
      /\ c[at].hasCRC => c[at].AddedDataCRC32 = SubSeq(c, at + 1, at + DataLen(c[at]))
  BY <1>1, <1>2, <1>3, AfterRecord DEF c
<1>5. at + DataLen(c[at]) = end
  BY <1>1, <1>2 DEF at, end
<1>6. \A j \in (s.pos + 1)..end : j \in (at + 1)..end
  BY <1>1, <1>2 DEF end
<1> QED
  BY <1>2, <1>4, <1>5, <1>6 DEF c, at, end

(* Reads that do not fail yield all that is there.                          *)
LEMMA SteadyYield ==
  ASSUME Steady, NEW s, NEW n
  PROVE  Yield(s, n) = {AtMost(n, Remainder(s))}
BY DEF Steady, Yield, When

LEMMA AheadFields ==
  ASSUME NEW s \in Streams, NEW n \in Nat
  PROVE  /\ Ahead(s, n).cells = s.cells /\ Ahead(s, n).writable = s.writable
         /\ Ahead(s, n).pos = s.pos + n
         /\ ~s.within => ~Ahead(s, n).within
<1>1. s.pos + 0 = s.pos
  BY DEF Streams
<1> QED
  BY <1>1, SeekFields DEF Ahead

LEMMA ReadAddedDataFine ==
  ASSUME Steady, NEW k, NEW s, Good(k, s), Sync(k, s), NEW n \in Nat,
         NEW o \in KCF_read_added_data(k, s, n)
  PROVE  Fine(o, SoundSync(k, s))
<1> DEFINE c == s.cells
           m == AtMost(n, k.AvailableOrToBeWritten)
           got == AtMost(m, Remainder(s))
           past == Ahead(s, m)
           q == [k EXCEPT !.AvailableOrToBeWritten = @ - m,
                          !.ActualAddedDataCRC32 = @ \o BytesAt(s, m),
                          !.ReadOrWritten = @ + m,
                          !.ParserState = IF k.AvailableOrToBeWritten = m THEN "READ_RECORD_HEADER" ELSE @]
           done == [k EXCEPT !.ParserState = "READ_RECORD_HEADER"]
<1>1. CASE k.ParserState # "READ_ADDED_DATA"
  BY <1>1, RefusedFine DEF KCF_read_added_data
<1>2. CASE k.ParserState = "READ_ADDED_DATA"
  <2>1. \/ k.AvailableOrToBeWritten = 0 /\ o = Result(done, s, "OK")
        \/ k.AvailableOrToBeWritten # 0 /\ got < m /\ o = Result(k, Ahead(s, got), "READ")
        \/ k.AvailableOrToBeWritten # 0 /\ ~(got < m) /\ o = Result(q, past, "OK")
        \/ o = Result(k, s, "CRASHED")
        \/ \E i \in 0..got : o = Result(k, Ahead(s, i), "READ")
    BY <1>2, SteadyYield DEF KCF_read_added_data, When
  <2>2. /\ k \in Handles /\ c \in Seq(Cells) /\ Len(c) \in Nat /\ s.pos \in Nat /\ s.pos <= Len(c)
        /\ k.ReadOrWritten \in Nat /\ k.AvailableOrToBeWritten \in Nat
        /\ s \in Streams
    BY StreamFields DEF Good, GoodStreams
  <2>3. Len(s.cells) > 0 /\ CompleteRecords(c, Len(c))
    BY <1>2 DEF Sync, PastMarker, SettledAt
  <2>4. m \in Nat /\ m <= k.AvailableOrToBeWritten
    BY <2>2 DEF AtMost
  <2>5. /\ past.cells = s.cells /\ past.writable = s.writable /\ past.pos = s.pos + m
        /\ ~s.within => ~past.within
    BY <2>2, <2>4, AheadFields
  <2>6. /\ done.ParserState = "READ_RECORD_HEADER"
        /\ done.AvailableOrToBeWritten = k.AvailableOrToBeWritten
        /\ done.ReadOrWritten = k.ReadOrWritten /\ done.AddedDataCRC32 = k.AddedDataCRC32
        /\ done.ActualAddedDataCRC32 = k.ActualAddedDataCRC32
    BY <2>2 DEF Handles
  <2>7. /\ q.ParserState = IF k.AvailableOrToBeWritten = m THEN "READ_RECORD_HEADER" ELSE "READ_ADDED_DATA"
        /\ q.AvailableOrToBeWritten = k.AvailableOrToBeWritten - m
        /\ q.ReadOrWritten = k.ReadOrWritten + m /\ q.AddedDataCRC32 = k.AddedDataCRC32
        /\ q.ActualAddedDataCRC32 = k.ActualAddedDataCRC32 \o BytesAt(s, m)
    <3> HIDE DEF m
    <3> QED
      BY <1>2, <2>2 DEF Handles
  <2> HIDE DEF past, done, q
  <2>8. Sync(done, s) /\ Sync(k, past) /\ Sync(q, past)
    BY <1>2, <2>3, <2>5, <2>6, <2>7, ReaderMoved DEF ReaderStates
  <2>12. ASSUME NEW i PROVE Sync(k, Ahead(s, i))
    BY <1>2, <2>2, <2>3, AheadAlike, ReaderMoved DEF ReaderStates, Alike
  <2>11. CASE o = Result(k, s, "CRASHED") \/ \E i : o = Result(k, Ahead(s, i), "READ")
    BY <1>2, <2>11, <2>12 DEF Fine, Result, Bad, Failures
  <2>9. CASE SoundSync(k, s) /\ ~(o = Result(k, s, "CRASHED") \/ \E i : o = Result(k, Ahead(s, i), "READ"))
    <3> DEFINE at == s.pos - k.ReadOrWritten
               end == s.pos + k.AvailableOrToBeWritten
    <3>1. DataRead(k, s)
      BY <1>2, <2>9 DEF SoundSync
    <3>2. /\ at \in 1..s.pos /\ end <= Len(c)
          /\ end = Len(c) \/ StartsRecord(c[end + 1])
          /\ \A j \in (s.pos + 1)..end : c[j] \in Bytes
          /\ c[at].hasCRC => c[at].AddedDataCRC32 = SubSeq(c, at + 1, end)
      BY <2>3, <3>1, DataEnds
    <3>3. /\ k.AddedDataCRC32 = IF c[at].hasCRC THEN c[at].AddedDataCRC32 ELSE <<>>
          /\ k.ActualAddedDataCRC32 = SubSeq(c, at + 1, s.pos)
          /\ IsHeader(c[at]) /\ DataLen(c[at]) = k.ReadOrWritten + k.AvailableOrToBeWritten
      BY <3>1 DEF DataRead
    <3>4. end \in Nat /\ end = s.pos + k.AvailableOrToBeWritten /\ at \in Nat
      BY <2>2, <3>2
    <3>5. CASE k.AvailableOrToBeWritten = 0
      <4>1. end = s.pos
        BY <2>2, <3>5
      <4>2. AtBoundary(s)
        BY <3>1, <3>2, <4>1 DEF AtBoundary, AtRecord, AtEnd, DataRead
      <4>3. k.AddedDataCRC32 # <<>> => k.ActualAddedDataCRC32 = k.AddedDataCRC32
        BY <3>2, <3>3, <4>1
      <4>4. SoundSync(done, s)
        BY <2>6, <3>5, <4>2, <4>3 DEF SoundSync
      <4> QED
        BY <2>1, <2>6, <2>8, <2>9, <3>5, <4>4 DEF Fine, Result, Bad, Failures
    <3>6. CASE k.AvailableOrToBeWritten # 0
      <4>1. got = m /\ s.pos + m <= end
        BY <2>2, <2>4, <3>2, <3>4 DEF AtMost, Remainder
      <4>2. o = Result(q, past, "OK") /\ past.pos = s.pos + m
        BY <2>1, <2>4, <2>5, <2>9, <3>6, <4>1
      <4> HIDE DEF m, got
      <4>3. BytesAt(s, m) \in Seq(Cells) /\ Len(BytesAt(s, m)) = m
            /\ \A j \in 1..m : c[s.pos + j] = BytesAt(s, m)[j]
        <5>1. ASSUME NEW i \in 1..m
              PROVE  ByteOf(c[s.pos + i]) = c[s.pos + i] /\ ByteOf(c[s.pos + i]) \in Cells
          <6>1. s.pos + i \in (s.pos + 1)..end
            BY <2>2, <2>4, <3>4, <4>1
          <6> QED
            BY <3>2, <6>1 DEF ByteOf, Cells, Symbols
        <5> QED
          BY <2>4, <5>1 DEF BytesAt
      <4>4. q.ActualAddedDataCRC32 = SubSeq(c, at + 1, s.pos + m)
        <5>1. /\ at + 1 \in Nat \ {0} /\ at + 1 <= s.pos + 1 /\ s.pos + m <= Len(c)
          BY <2>2, <2>4, <3>2, <3>4, <4>1
        <5>2. SubSeq(c, at + 1, s.pos) \o BytesAt(s, m) = SubSeq(c, at + 1, s.pos + Len(BytesAt(s, m)))
          <6> DEFINE x == BytesAt(s, m)
                     a == at + 1
          <6>1. /\ c \in Seq(Cells) /\ x \in Seq(Cells) /\ a \in Nat \ {0} /\ s.pos \in Nat
                /\ a <= s.pos + 1 /\ s.pos + Len(x) <= Len(c)
                /\ \A j \in 1..Len(x) : c[s.pos + j] = x[j]
            BY <2>2, <4>3, <5>1
          <6> HIDE DEF x, a, c
          <6>2. SubSeq(c, a, s.pos) \o x = SubSeq(c, a, s.pos + Len(x))
            BY ONLY <6>1, SubSeqExtended
          <6> QED
            BY <6>2 DEF x, a
        <5> QED
          BY <2>7, <3>3, <4>3, <5>2
      <4>5. CASE k.AvailableOrToBeWritten = m
        <5>1. s.pos + m = end /\ q.AvailableOrToBeWritten = 0 /\ q.ParserState = "READ_RECORD_HEADER"
          BY <2>2, <2>7, <4>5
        <5>2. AtBoundary(past)
          BY <2>5, <3>1, <3>2, <4>2, <5>1 DEF AtBoundary, AtRecord, AtEnd, DataRead
        <5>3. q.AddedDataCRC32 # <<>> => q.ActualAddedDataCRC32 = q.AddedDataCRC32
          BY <2>7, <3>2, <3>3, <4>4, <5>1
        <5>4. SoundSync(q, past)
          BY <5>1, <5>2, <5>3 DEF SoundSync
        <5> QED
          BY <2>8, <4>2, <5>1, <5>4 DEF Fine, Result, Bad, Failures
      <4>6. CASE k.AvailableOrToBeWritten # m
        <5>1. q.ParserState = "READ_ADDED_DATA"
          BY <2>7, <4>6
        <5>2. /\ past.pos - q.ReadOrWritten = at /\ at \in 1..past.pos
              /\ q.ReadOrWritten + q.AvailableOrToBeWritten = k.ReadOrWritten + k.AvailableOrToBeWritten
          <6>1. /\ s.pos \in Nat /\ k.ReadOrWritten \in Nat /\ k.AvailableOrToBeWritten \in Nat
                /\ m \in Nat
            BY <2>2, <2>4
          <6>2. /\ past.pos = s.pos + m /\ q.ReadOrWritten = k.ReadOrWritten + m
                /\ q.AvailableOrToBeWritten = k.AvailableOrToBeWritten - m
            BY <2>7, <4>2
          <6>3. s.pos - k.ReadOrWritten \in 1..s.pos
            BY <3>2
          <6> QED
            BY <6>1, <6>2, <6>3, ShiftedData
        <5>3. DataRead(q, past)
          BY <2>5, <2>7, <3>1, <3>3, <4>2, <4>4, <5>2 DEF DataRead
        <5> QED
          BY <2>8, <4>2, <5>1, <5>3 DEF Fine, Result, Bad, Failures, SoundSync
      <4> QED
        BY <4>5, <4>6
    <3> QED
      BY <3>5, <3>6
  <2>10. CASE ~SoundSync(k, s)
    BY <1>2, <2>1, <2>6, <2>7, <2>8, <2>10, <2>11 DEF Fine, Result
  <2> QED
    BY <2>9, <2>10, <2>11
<1> QED
  BY <1>1, <1>2

LEMMA FindMarkerFine ==
  ASSUME NEW k, NEW s, Good(k, s), Sync(k, s), NEW o \in KCF_find_marker(k, s)
  PROVE  Fine(o, SoundSync(k, s))
<1> DEFINE At(p) == Seek(s, p)
           q == [k EXCEPT !.ParserState = "READ_RECORD_HEADER"]
           c == s.cells
<1>1. CASE k.IsWriting \/ k.ParserState # "READ_MARKER"
  BY <1>1, RefusedFine DEF KCF_find_marker
<1>2. CASE ~k.IsWriting /\ k.ParserState = "READ_MARKER"
  <2>1. \/ \E i \in MarkersAhead(s) : o = Result(q, At(i), "OK")
        \/ \E p, e : o = Result(k, At(p), e)
    BY <1>2 DEF KCF_find_marker, When
  <2>2. /\ k \in Handles /\ c \in Seq(Cells) /\ Len(c) \in Nat /\ s.pos \in Nat /\ s \in Streams
        /\ CompleteRecords(c, Len(c)) /\ Fresh(k)
    <3>1. CompleteRecords(c, Len(c)) /\ Fresh(k)
      BY <1>2 DEF Sync, PastMarker, SettledAt
    <3>2. s \in Streams
      BY DEF Good, GoodStreams
    <3> QED
      BY <3>1, <3>2, StreamFields
  <2>3. ASSUME NEW p
        PROVE  At(p).cells = c /\ At(p).writable = s.writable /\ At(p).pos = p /\ ~At(p).within
    BY <2>2, SeekFields
  <2>4. q.ParserState = "READ_RECORD_HEADER" /\ q.AvailableOrToBeWritten = 0 /\ q.ReadOrWritten = 0
    BY <2>2 DEF Handles, Fresh
  <2> HIDE DEF q, At, c
  <2>5. ASSUME NEW i \in MarkersAhead(s), o = Result(q, At(i), "OK")
        PROVE  Fine(o, SoundSync(k, s))
    <3>1. i \in 1..Len(c) /\ c[i] = Marker
      BY <2>2 DEF MarkersAhead, c
    <3>2. Len(s.cells) > 0
      BY <2>2, <3>1 DEF c
    <3>3. Sync(q, At(i))
      BY <1>2, <2>3, <2>4, <3>2, ReaderMoved DEF ReaderStates, c
    <3>4. i = Len(c) \/ StartsRecord(c[i + 1])
      <4>1. i + DataLen(c[i]) = i
        BY <3>1, MarkerFacts
      <4>2. i + DataLen(c[i]) = Len(c) \/ StartsRecord(c[i + DataLen(c[i]) + 1])
        BY <2>2, <3>1, MarkerFacts, AfterRecord
      <4> QED
        BY <4>1, <4>2
    <3>5. AtBoundary(At(i))
        BY <2>3, <3>4 DEF AtBoundary, AtRecord, AtEnd
    <3> QED
      BY <2>4, <2>5, <3>3, <3>5 DEF Fine, SoundSync, Result, Bad, Failures
  <2>6. ASSUME NEW p, NEW e, o = Result(k, At(p), e)
        PROVE  Fine(o, SoundSync(k, s))
    <3>1. Sync(k, At(p))
      BY <1>2, <2>3 DEF Sync, SettledAt, PastMarker, c
    <3> QED
      BY <1>2, <2>6, <3>1 DEF Fine, SoundSync, Result
  <2> QED
    BY <2>1, <2>5, <2>6
<1> QED
  BY <1>1, <1>2

(***************************************************************************)
(* Switching between reading and writing, and the file layer.               *)
(***************************************************************************)
LEMMA FlushedFine ==
  ASSUME NEW k, NEW s, Ready(k, s), NEW sound,
         sound => k.AvailableOrToBeWritten = 0, NEW o \in Flushed(k, s)
  PROVE  Fine(o, sound)
<1> DEFINE q == [k EXCEPT !.ParserState = "READ_RECORD_HEADER"]
<1>1. o \in {Result(q, s, "OK"), Result(k, s, "UNKNOWN")}
  BY DEF Flushed, When
<1>2. k \in Handles /\ Len(s.cells) > 0 /\ k.ReadOrWritten = 0 /\ AtEnd(s)
  BY ReadyFacts DEF Ready, Good
<1>3. /\ q.ParserState = "READ_RECORD_HEADER" /\ q.ReadOrWritten = 0
      /\ q.AvailableOrToBeWritten = k.AvailableOrToBeWritten
  BY <1>2 DEF Handles
<1> HIDE DEF q
<1>4. Sync(q, s)
  BY <1>2, <1>3, ReaderMoved DEF Ready, ReaderStates
<1> QED
  BY <1>1, <1>2, <1>3, <1>4 DEF Ready, Fine, SoundSync, AtBoundary, Result, Bad, Failures

(* Before the marker nothing but the state differs.                         *)
LEMMA BeforeMarker ==
  ASSUME NEW k, NEW s, Good(k, s), Sync(k, s), k.ParserState \notin PastMarker,
         NEW p \in {"READ_MARKER", "READING", "WRITE_MARKER"}, NEW e \in Errors \ Bad,
         NEW sound
  PROVE  Fine(Result([k EXCEPT !.ParserState = p], s, e), sound)
<1> DEFINE q == [k EXCEPT !.ParserState = p]
<1>1. /\ q.ParserState = p /\ q.ReadOrWritten = k.ReadOrWritten
      /\ q.AvailableOrToBeWritten = k.AvailableOrToBeWritten
      /\ q.AddedDataCRC32 = k.AddedDataCRC32
  BY DEF Good, Handles
<1> HIDE DEF q
<1>2. k.ParserState # "WRITE_ADDED_DATA" /\ p \notin PastMarker /\ p # "WRITING"
  BY DEF PastMarker
<1>3. Sync(q, s)
  BY <1>1, <1>2 DEF Sync, SettledAt, Fresh, PastMarker
<1>4. SoundSync(q, s)
  BY <1>1 DEF SoundSync
<1>5. Fine(Result(q, s, e), sound)
  BY <1>3, <1>4 DEF Fine, Result
<1> QED
  BY <1>5 DEF q

LEMMA SameFine ==
  ASSUME NEW k, NEW s, Sync(k, s)
  PROVE  Fine(Result(k, s, "OK"), SoundSync(k, s))
BY DEF Fine, Result, Bad, Failures

LEMMA StartReadingFine ==
  ASSUME Undisturbed, NEW k, NEW s, Good(k, s), Sync(k, s),
         k.ParserState = "WRITE_ADDED_DATA" => Whole(k),
         NEW o \in KCF_start_reading(k, s)
  PROVE  Fine(o, SoundSync(k, s))
<1>1. "OK" \in Errors \ Bad
  BY DEF Errors, Bad, Failures
<1>2. CASE k.ParserState \in {"NEUTRAL", "READING"}
  <2>1. o = Result([k EXCEPT !.ParserState = "READ_MARKER"], s, "OK")
    BY <1>2 DEF KCF_start_reading
  <2>2. k.ParserState \notin PastMarker
    BY <1>2 DEF PastMarker
  <2> QED
    BY <1>1, <2>1, <2>2, BeforeMarker
<1>3. CASE k.ParserState = "WRITE_MARKER"
  <2>1. o = Result([k EXCEPT !.ParserState = "READING"], s, "OK")
    BY <1>3 DEF KCF_start_reading
  <2>2. k.ParserState \notin PastMarker
    BY <1>3 DEF PastMarker
  <2> QED
    BY <1>1, <2>1, <2>2, BeforeMarker
<1>4. CASE k.ParserState = "WRITE_ADDED_DATA"
  <2>1. PICK f \in KCF_finish_added_data(k, s) : o \in IF f.ret = "OK" THEN Flushed(f.kcf, f.io) ELSE {f}
    BY <1>4 DEF KCF_start_reading
  <2>2. Ended(f) /\ GoodOutcome(f)
    BY <1>4, <2>1, FinishSucceeds, FinishSync, FinishType DEF Harmless, Undisturbed
  <2>3. /\ Ready(f.kcf, f.io) /\ f.kcf.AvailableOrToBeWritten = 0
        /\ o \in Flushed(f.kcf, f.io)
    BY <2>1, <2>2 DEF Ended, Ready, GoodOutcome, Fresh
  <2> QED
    BY <2>3, FlushedFine
<1>5. CASE k.ParserState = "WRITE_RECORD"
  <2>1. o \in Flushed(k, s) /\ Ready(k, s)
    BY <1>5 DEF KCF_start_reading, Ready
  <2>2. SoundSync(k, s) => k.AvailableOrToBeWritten = 0
    BY <1>5 DEF SoundSync
  <2> QED
    BY <2>1, <2>2, FlushedFine
<1>6. CASE k.ParserState \notin {"NEUTRAL", "READING", "WRITE_MARKER", "WRITE_ADDED_DATA", "WRITE_RECORD"}
  <2>1. o = Result(k, s, "OK")
    BY <1>6 DEF KCF_start_reading
  <2> QED
    BY <2>1, SameFine
<1> QED
  BY <1>2, <1>3, <1>4, <1>5, <1>6

(* Writing starts where nothing is overwritten, and with nothing counted.   *)
Startable(k, s) ==
  k.ParserState = "READ_RECORD_HEADER" => AtEnd(s) /\ k.ReadOrWritten = 0 /\ k.AddedDataCRC32 = <<>>

LEMMA StartWritingFine ==
  ASSUME NEW k, NEW s, Good(k, s), Sync(k, s), Startable(k, s),
         NEW o \in KCF_start_writing(k, s)
  PROVE  Fine(o, SoundSync(k, s))
<1> DEFINE Into(p) == [k EXCEPT !.ParserState = p]
<1>1. CASE k.ParserState \in {"NEUTRAL", "READING", "WRITING", "READ_MARKER"}
  <2>1. ~Into("WRITE_MARKER").IsWriting
    BY DEF Good, Handles
  <2>2. o = Result(Into("WRITE_MARKER"), s, "INVALID_STATE")
    BY <1>1, <2>1 DEF KCF_start_writing, KCF_write_marker, Refuse
  <2>3. "INVALID_STATE" \in Errors \ Bad /\ k.ParserState \notin PastMarker
    BY <1>1 DEF Errors, Bad, Failures, PastMarker
  <2> QED
    BY <2>2, <2>3, BeforeMarker
<1>2. CASE k.ParserState = "READ_RECORD_HEADER"
  <2> DEFINE q == Into("WRITE_RECORD")
  <2>1. o = Result(q, s, "OK")
    BY <1>2 DEF KCF_start_writing
  <2>2. AtEnd(s) /\ k.ReadOrWritten = 0 /\ k.AddedDataCRC32 = <<>>
    BY <1>2 DEF Startable
  <2>3. /\ q.ParserState = "WRITE_RECORD" /\ q.ReadOrWritten = k.ReadOrWritten
        /\ q.AvailableOrToBeWritten = k.AvailableOrToBeWritten
        /\ q.AddedDataCRC32 = k.AddedDataCRC32
    BY DEF Good, Handles
  <2> HIDE DEF q
  <2>4. Sync(q, s)
    BY <1>2, <2>2, <2>3 DEF Sync, SettledAt, PastMarker
  <2>5. SoundSync(k, s) => SoundSync(q, s)
    BY <1>2, <2>3 DEF SoundSync
  <2> QED
    BY <2>1, <2>3, <2>4, <2>5 DEF Fine, Result
<1>3. CASE k.ParserState \in {"READ_ADDED_DATA", "READ_RECORD_DATA"}
  BY <1>3, RefusedFine DEF KCF_start_writing
<1>4. CASE k.ParserState \notin {"NEUTRAL", "READING", "WRITING", "READ_MARKER", "READ_RECORD_HEADER",
                                "READ_ADDED_DATA", "READ_RECORD_DATA"}
  <2>1. o = Result(k, s, "OK")
    BY <1>4 DEF KCF_start_writing
  <2> QED
    BY <2>1, SameFine
<1> QED
  BY <1>1, <1>2, <1>3, <1>4

LEMMA InitArchiveFine ==
  ASSUME Undisturbed, NEW k, NEW s, Good(k, s), Sync(k, s), Startable(k, s),
         k.ParserState = "WRITE_ADDED_DATA" => Whole(k), NEW p \in Payloads,
         NEW o \in KCF_init_archive(k, s, p)
  PROVE  Fine(o, SoundSync(k, s))
<1> DEFINE header == [ZeroRecord EXCEPT !.payload = p]
<1>1. Fit(header)
  <2>1. header.payload = p /\ header.hasCRC = FALSE
    BY DEF ZeroRecord
  <2>2. header \in Headers
    BY EmptyType DEF ZeroRecord, Headers, RecordOf, Data
  <2> QED
    BY <2>1, <2>2 DEF Fit, Undisturbed, Harmless, Steady
<1>2. PICK f \in KCF_start_writing(k, s) :
        o \in IF f.ret = "OK" THEN KCF_write_record(f.kcf, f.io, header) ELSE {f}
  BY DEF KCF_init_archive, KCF_write_archive_header, When, Undisturbed, Harmless
<1> HIDE DEF header
<1>3. Fine(f, SoundSync(k, s)) /\ GoodOutcome(f)
  BY StartWritingFine, StartWritingType
<1>4. CASE f.ret # "OK"
  BY <1>2, <1>3, <1>4
<1>5. CASE f.ret = "OK"
  <2>1. Good(f.kcf, f.io) /\ Sync(f.kcf, f.io)
    BY <1>3 DEF Fine, GoodOutcome
  <2>2. SoundSync(k, s) => SoundSync(f.kcf, f.io)
    BY <1>3, <1>5 DEF Fine, Bad, Failures
  <2>3. f.kcf.ParserState = "WRITE_ADDED_DATA" => Whole(f.kcf)
    <3>1. CASE k.ParserState = "WRITE_ADDED_DATA"
      <4>1. f = Result(k, s, "OK")
        BY <1>2, <3>1 DEF KCF_start_writing
      <4> QED
        BY <3>1, <4>1 DEF Result
    <3>2. CASE k.ParserState # "WRITE_ADDED_DATA"
      <4>1. k \in Handles
        BY DEF Good
      <4>2. \/ f = Result([k EXCEPT !.ParserState = "WRITE_RECORD"], s, "OK")
            \/ f = Result(k, s, "OK")
        <5>1. ~[k EXCEPT !.ParserState = "WRITE_MARKER"].IsWriting
          BY <4>1 DEF Handles
        <5>2. f # Result([k EXCEPT !.ParserState = "WRITE_MARKER"], s, "INVALID_STATE")
          BY <1>5 DEF Result
        <5>3. f # Result(k, s, "INVALID_STATE")
          BY <1>5 DEF Result
        <5> QED
          BY <1>2, <5>1, <5>2, <5>3 DEF KCF_start_writing, KCF_write_marker, Refuse
      <4>3. f.kcf.ParserState # "WRITE_ADDED_DATA"
        BY <3>2, <4>1, <4>2 DEF Result, Handles
      <4> QED
        BY <4>3
    <3> QED
      BY <3>1, <3>2
  <2>4. Fine(o, SoundSync(f.kcf, f.io))
    BY <1>1, <1>2, <1>5, <2>1, <2>3, WriteRecordFine
  <2> QED
    BY <2>2, <2>4 DEF Fine
<1> QED
  BY <1>4, <1>5

LEMMA FileCallFine ==
  ASSUME NEW k, NEW s, Sync(k, s), NEW o \in FileCallRefused(k, s)
  PROVE  Fine(o, SoundSync(k, s))
<1>1. o \in Refuse(k, s)
  BY DEF FileCallRefused, When
<1> QED
  BY <1>1, RefusedFine

LEMMA SkipFileFine ==
  ASSUME Steady, NEW k, NEW s, Good(k, s), Sync(k, s), NEW o \in KCF_skip_file(k, s)
  PROVE  Fine(o, SoundSync(k, s))
<1>1. CASE k.IsWriting
  BY <1>1, RefusedFine DEF KCF_skip_file
<1>2. CASE ~k.IsWriting
  <2>1. PICK f \in KCF_read_record(k, s) :
          \/ o = f
          \/ f.ret = "OK" /\ o = Result(f.kcf, f.io, "INVALID_STATE")
    BY <1>2 DEF KCF_skip_file
  <2>2. Fine(f, SoundSync(k, s))
    BY ReadRecordFine
  <2> QED
    BY <2>1, <2>2 DEF Fine, Result, Bad, Failures
<1> QED
  BY <1>1, <1>2

(***************************************************************************)
(* Steps.                                                                   *)
(***************************************************************************)
LEMMA ReturnFine ==
  ASSUME IInv, TypeOK', NEW op, NEW outcomes, NEW ack,
         \A o \in outcomes : Fine(o, SoundSync(kcf, io)), Return(op, outcomes, ack)
  PROVE  IInv'
<1>1. PICK o \in outcomes : kcf' = o.kcf /\ io' = o.io /\ call' = Returned(op, o.ret)
  BY DEF Return
<1>2. Fine(o, SoundSync(kcf, io)) /\ Idle /\ skipLeft' = skipLeft
  BY <1>1 DEF Return, MayCall
<1>3. call'.ret = o.ret /\ (call'.handle = "sound" => call.handle = "sound" /\ o.ret \notin Bad)
  BY <1>1 DEF Returned, Bad
<1>4. Sync(kcf', io')
  BY <1>1, <1>2 DEF Fine
<1>5. call'.handle = "sound" => SoundSync(kcf', io')
  BY <1>1, <1>2, <1>3 DEF Fine, IInv
<1>6. call'.ret \in Bad => kcf'.ParserState # "WRITE_ADDED_DATA"
  BY <1>1, <1>2, <1>3 DEF Fine
<1>7. Idle'
  BY <1>2 DEF Idle
<1> QED
  BY <1>4, <1>5, <1>6, <1>7 DEF IInv

LEMMA MarkerRefusedFine ==
  ASSUME NEW k, NEW s, Good(k, s), Sync(k, s), NEW o \in KCF_write_marker(k, s)
  PROVE  Fine(o, SoundSync(k, s))
<1>1. ~k.IsWriting
  BY DEF Good, Handles
<1> QED
  BY <1>1, RefusedFine DEF KCF_write_marker

LEMMA SkipFine ==
  ASSUME IInv, TypeOK', KCF_skip_record
  PROVE  IInv'
<1>1. Good(kcf, io) /\ Sync(kcf, io) /\ Idle
  BY TypeOKGood DEF IInv, KCF_skip_record, MayCall
<1>2. CASE kcf.ParserState \notin {"READ_RECORD_HEADER", "READ_ADDED_DATA"}
  <2>1. kcf' = kcf /\ io' = io /\ call' = Returned("skip_record", "INVALID_STATE") /\ Idle'
    BY <1>1, <1>2 DEF KCF_skip_record, SkipReturns, Idle
  <2>2. "INVALID_STATE" \notin Bad /\ call'.ret = "INVALID_STATE" /\ call'.handle = call.handle
    BY <2>1 DEF Returned, Bad, Failures
  <2>3. Sync(kcf', io') /\ (call'.handle = "sound" => SoundSync(kcf', io'))
    BY <1>1, <2>1, <2>2 DEF IInv
  <2> QED
    BY <2>1, <2>2, <2>3 DEF IInv
<1>3. CASE kcf.ParserState = "READ_ADDED_DATA"
  <2>1. /\ kcf' = kcf /\ io' = io /\ call' = call
        /\ skipLeft' = kcf.AvailableOrToBeWritten
    BY <1>3 DEF KCF_skip_record, SkipBegins
  <2>2. ~Idle'
    BY <1>1, <2>1, StreamFields DEF Idle
  <2>3. Sync(kcf', io')
    BY <1>1, <2>1
  <2>4. kcf'.ParserState = "READ_ADDED_DATA"
    BY <1>3, <2>1
  <2> QED
    BY <2>2, <2>3, <2>4 DEF IInv
<1>4. CASE kcf.ParserState = "READ_RECORD_HEADER"
  <2>1. PICK hd \in read_record_header(kcf, io) : SkipFromHeader(hd)
    BY <1>4 DEF KCF_skip_record
  <2>3. Len(io.cells) > 0
    BY <1>1, <1>4 DEF Sync, PastMarker
  <2>10. CASE hd.ret # "OK"
    <3>1. hd.ret = "READ" /\ hd.kcf = kcf /\ hd.io.cells = io.cells /\ hd.io.writable = io.writable
      BY <1>1, <2>10, HeaderNotRead
    <3>2. kcf' = hd.kcf /\ io' = hd.io /\ call' = Returned("skip_record", "READ") /\ Idle'
      BY <1>1, <2>1, <3>1 DEF SkipFromHeader, SkipReturns, Idle
    <3>3. call'.ret = "READ" /\ call'.handle = "failed"
      BY <3>2 DEF Returned, Failures
    <3>4. Sync(kcf', io')
      BY <1>1, <1>4, <2>3, <3>1, <3>2, ReaderMoved DEF ReaderStates
    <3> QED
      BY <1>4, <3>1, <3>2, <3>3, <3>4 DEF IInv
  <2>11. CASE hd.ret = "OK"
    <3>2. /\ hd.kcf.ParserState = "READ_RECORD_DATA"
          /\ hd.io.cells = io.cells /\ hd.io.writable = io.writable
      BY <1>1, <2>11, HeaderReadFields
    <3>4. Sync(hd.kcf, hd.io)
      BY <1>1, <1>4, <2>3, <3>2, ReaderMoved DEF ReaderStates
    <3>5. kcf' = hd.kcf /\ io' = hd.io
      BY <2>1 DEF SkipFromHeader, SkipReturns, SkipBegins
    <3>6. \/ skipLeft' = hd.header.AddedSize
          \/ skipLeft' = skipLeft /\ call' = Returned("skip_record", "CRASHED")
      BY <2>1, <2>11, <3>2 DEF SkipFromHeader, SkipReturns, SkipBegins
    <3>7. hd.header.AddedSize \in Nat
      <4>1. hd.header \in Headers
        BY <1>1, ReadHeaderType DEF GoodHeader
      <4> QED
        BY <4>1 DEF Headers, RecordOf
    <3>8. ~Idle' \/ call'.handle = "failed"
      BY <3>6, <3>7 DEF Idle, Returned
    <3>9. Sync(kcf', io') /\ kcf'.ParserState = "READ_RECORD_DATA"
      BY <3>2, <3>4, <3>5
    <3> QED
      BY <3>8, <3>9 DEF IInv
  <2> QED
    BY <2>10, <2>11
<1> QED
  BY <1>2, <1>3, <1>4

LEMMA SkipStepFine ==
  ASSUME IInv, TypeOK', SkipStep
  PROVE  IInv'
<1>1. /\ Good(kcf, io) /\ Sync(kcf, io)
      /\ kcf.ParserState \in {"READ_RECORD_DATA", "READ_ADDED_DATA"}
  BY TypeOKGood DEF IInv, SkipStep
<1>2. Len(io.cells) > 0
  BY <1>1 DEF Sync, PastMarker
<1>3. io'.cells = io.cells /\ io'.writable = io.writable
  BY <1>1, SkipStepMoves DEF Good, GoodStreams, Alike
<1>4. \/ kcf' = kcf /\ \E n : skipLeft' = skipLeft - n /\ skipLeft - n > 0
      \/ \E s : SkipDone(kcf, s)
  BY DEF SkipStep
<1>5. kcf' = kcf
  BY <1>4 DEF SkipDone, IO_skip_ret
<1>6. ~Idle' \/ call'.handle = "failed"
  <2>1. CASE \E s : SkipDone(kcf, s)
    BY <2>1 DEF SkipDone, IO_skip_ret, Returned, Failures
  <2>2. CASE \E n : skipLeft' = skipLeft - n /\ skipLeft - n > 0
    BY <2>2 DEF Idle
  <2> QED
    BY <1>4, <2>1, <2>2
<1>7. Sync(kcf', io')
  <2>1. kcf.ParserState \in ReaderStates /\ kcf.ParserState # "WRITE_ADDED_DATA"
    BY <1>1 DEF ReaderStates
  <2> QED
    BY <1>1, <1>2, <1>3, <1>5, <2>1, ReaderMoved
<1>8. kcf'.ParserState \in {"READ_RECORD_DATA", "READ_ADDED_DATA"}
  BY <1>1, <1>5
<1> QED
  BY <1>6, <1>7, <1>8 DEF IInv

(* A handle on an archive that was just opened.                             *)
LEMMA OpenedSync ==
  ASSUME NEW s, CompleteRecords(s.cells, Len(s.cells))
  PROVE  Sync(NewHandle, s) /\ SoundSync(NewHandle, s)
BY DEF NewHandle, Sync, SoundSync, SettledAt, PastMarker, Fresh

LEMMA ReopenFine ==
  ASSUME Undisturbed, IInv, TypeOK', Reopen
  PROVE  IInv'
<1>1. Good(kcf, io) /\ Sync(kcf, io)
  BY TypeOKGood DEF IInv
<1>2. kcf.ParserState # "WRITE_ADDED_DATA"
  BY DEF Reopen, IInv, Bad, Undisturbed
<1>3. kcf' = NewHandle /\ io' = Seek(io, 0) /\ call' = Created /\ Idle'
  BY DEF Reopen, Idle
<1>4. io'.cells = io.cells /\ io'.writable = io.writable
  BY <1>1, <1>3, SeekFields DEF Good, GoodStreams
<1>5. CompleteRecords(io.cells, Len(io.cells))
  BY <1>1, <1>2 DEF Sync, SettledAt
<1>6. Sync(kcf', io') /\ SoundSync(kcf', io')
  BY <1>3, <1>4, <1>5, OpenedSync
<1>7. call'.ret \notin Bad
  BY <1>3 DEF Created, Bad, Failures
<1> QED
  BY <1>3, <1>6, <1>7 DEF IInv

LEMMA InitIInv ==
  ASSUME Undisturbed, Init
  PROVE  IInv
<1>1. kcf = NewHandle /\ io.cells \in InitialStreams
  BY DEF Init
<1>2. CompleteRecords(io.cells, Len(io.cells))
  BY <1>1 DEF Undisturbed
<1>3. Sync(kcf, io) /\ SoundSync(kcf, io)
  BY <1>1, <1>2, OpenedSync
<1>4. TypeOK
  BY InitType
<1>5. Idle /\ call.ret \notin Bad
  BY DEF Init, Idle, Created, Bad, Failures
<1> QED
  BY <1>3, <1>4, <1>5 DEF IInv

(* What the habits leave to the caller.                                     *)
LEMMA Careful ==
  ASSUME Undisturbed, TypeOK
  PROVE  /\ MayEndRecord => (kcf.ParserState = "WRITE_ADDED_DATA" => Whole(kcf))
         /\ MayStartWriting => Startable(kcf, io)
<1>1. "underfill" \notin Habits /\ "overwrite" \notin Habits /\ "after_data" \notin Habits
  BY DEF Undisturbed
<1>2. MayStartWriting => Startable(kcf, io)
  BY <1>1 DEF MayStartWriting, Startable
<1>3. kcf.ReadOrWritten \in Nat /\ kcf.AvailableOrToBeWritten \in Nat
  BY DEF TypeOK, Handles
<1>4. MayEndRecord => (kcf.ParserState = "WRITE_ADDED_DATA" => Whole(kcf))
  BY <1>1, <1>3 DEF MayEndRecord, Whole
<1> QED
  BY <1>2, <1>4

LEMMA NewRecordsFit ==
  ASSUME Steady, NEW r \in NewRecords
  PROVE  Fit(r) /\ r \in Headers /\ r.AddedDataCRC32 = <<>>
<1>1. r \in Headers
  BY NewRecordsType
<1>2. /\ r.payload \in Payloads /\ r.AddedDataCRC32 = <<>>
      /\ ~r.hasSize => r.AddedSize = 0
  BY DEF NewRecords, RecordOf
<1>3. r.payload # NoPayload
  BY <1>2 DEF Steady
<1> QED
  BY <1>1, <1>2, <1>3 DEF Fit

LEMMA StepIInv ==
  ASSUME Undisturbed, IInv, [Next]_vars
  PROVE  IInv'
<1>1. TypeOK /\ TypeOK' /\ Good(kcf, io) /\ Sync(kcf, io)
  BY NextType, TypeOKGood DEF IInv
<1>2. CASE StartReading
  BY <1>1, <1>2, Careful, ReturnFine, StartReadingFine DEF StartReading
<1>3. CASE StartWriting
  BY <1>1, <1>3, Careful, ReturnFine, StartWritingFine DEF StartWriting
<1>4. CASE InitArchive
  BY <1>1, <1>4, Careful, ReturnFine, InitArchiveFine DEF InitArchive, MayBeginRecord
<1>5. CASE FindMarker
  BY <1>1, <1>5, ReturnFine, FindMarkerFine DEF FindMarker
<1>6. CASE ReadRecord
  BY <1>1, <1>6, ReturnFine, ReadRecordFine DEF ReadRecord, Undisturbed, Harmless
<1>7. CASE ReadAddedData
  <2>1. PICK n \in 0..MaxChunk :
          Return("read_added_data", KCF_read_added_data(kcf, io, n), "none")
    BY <1>7 DEF ReadAddedData
  <2>2. n \in Nat
    BY ConstantsOK
  <2> QED
    BY <1>1, <2>1, <2>2, ReturnFine, ReadAddedDataFine DEF Undisturbed, Harmless
<1>8. CASE KCF_skip_record
  BY <1>1, <1>8, SkipFine
<1>9. CASE SkipStep
  BY <1>1, <1>9, SkipStepFine
<1>10. CASE WriteMarker
  BY <1>1, <1>10, ReturnFine, MarkerRefusedFine DEF WriteMarker
<1>11. CASE WriteRecord
  <2>1. PICK r \in NewRecords :
          Return("write_record", KCF_write_record(kcf, io, r), IF r.hasSize THEN "before" ELSE "all")
    BY <1>11 DEF WriteRecord
  <2>2. kcf.ParserState = "WRITE_ADDED_DATA" => Whole(kcf)
    BY <1>1, <1>11, Careful DEF WriteRecord, MayBeginRecord
  <2>3. \A o \in KCF_write_record(kcf, io, r) : Fine(o, SoundSync(kcf, io))
    BY <1>1, <2>2, NewRecordsFit, WriteRecordFine DEF Undisturbed, Harmless
  <2> QED
    BY <1>1, <2>1, <2>3, ReturnFine
<1>12. CASE WriteRecordWithAddedData
  <2>1. PICK r \in NewRecords, x \in Chunks :
          Return("write_record_with_added_data",
                 KCF_write_record_with_added_data(kcf, io, r, x), "all")
    BY <1>12 DEF WriteRecordWithAddedData
  <2>2. kcf.ParserState = "WRITE_ADDED_DATA" => Whole(kcf)
    BY <1>1, <1>12, Careful DEF WriteRecordWithAddedData, MayBeginRecord
  <2>3. x \in Seq(Bytes)
    BY ChunksType
  <2>4. \A o \in KCF_write_record_with_added_data(kcf, io, r, x) : Fine(o, SoundSync(kcf, io))
    BY <1>1, <2>2, <2>3, NewRecordsFit, WithDataFine DEF Undisturbed, Harmless
  <2> QED
    BY <1>1, <2>1, <2>4, ReturnFine
<1>13. CASE WriteAddedData
  <2>1. PICK x \in Chunks : Return("write_added_data", KCF_write_added_data(kcf, io, x), "none")
    BY <1>13 DEF WriteAddedData
  <2>2. x \in Seq(Bytes)
    BY ChunksType
  <2>3. \A o \in KCF_write_added_data(kcf, io, x) : Fine(o, SoundSync(kcf, io))
    BY <1>1, <2>2, WriteAddedDataSync, WroteFine DEF Undisturbed, Harmless
  <2> QED
    BY <1>1, <2>1, <2>3, ReturnFine
<1>14. CASE FinishAddedData
  BY <1>1, <1>14, Careful, ReturnFine, FinishFine DEF FinishAddedData
<1>15. CASE FileCall
  BY <1>1, <1>15, ReturnFine, FileCallFine DEF FileCall
<1>16. CASE SkipFile
  BY <1>1, <1>16, ReturnFine, SkipFileFine DEF SkipFile, Undisturbed, Harmless
<1>17. CASE Reopen
  BY <1>1, <1>17, ReopenFine
<1>18. CASE UNCHANGED vars
  BY <1>1, <1>18 DEF vars, IInv, Idle
<1> QED
  BY <1>2, <1>3, <1>4, <1>5, <1>6, <1>7, <1>8, <1>9, <1>10, <1>11, <1>12, <1>13, <1>14,
     <1>15, <1>16, <1>17, <1>18 DEF Next

(* Handle and stream agree, whichever reads and flushes fail.               *)
THEOREM SyncKept ==
  ASSUME Undisturbed
  PROVE  Spec => []IInv
<1>1. Init => IInv
  BY InitIInv
<1>2. IInv /\ [Next]_vars => IInv'
  BY StepIInv
<1> QED
  BY <1>1, <1>2, PTL DEF Spec

(***************************************************************************)
(* What the invariant says of the properties.                               *)
(***************************************************************************)
(* However a record is ended (by finish, by the next record, by the switch  *)
(* to reading), the header left behind says what follows it: the archive is *)
(* one of whole records, whatever archive it was to begin with.             *)
THEOREM ArchiveStaysWhole ==
  ASSUME Undisturbed
  PROVE  Spec => []ArchiveWellFormed
<1>1. IInv => ArchiveWellFormed
  BY DEF IInv, Sync, SettledAt, ArchiveWellFormed, Settled
<1> QED
  BY <1>1, SyncKept, PTL

(* The counters, the offset and the checksum that a backpatch writes are    *)
(* those of the record in the stream, at every step of writing it.          *)
THEOREM WriterKeepsCount ==
  ASSUME Undisturbed
  PROVE  Spec => []WriterInSync
<1>1. ASSUME IInv, kcf.ParserState = "WRITE_ADDED_DATA"
      PROVE  io.cells[kcf.RecordOffset + 1] = rec_to_buffer(kcf.LastRecord)
  <2>1. Good(kcf, io) /\ Sync(kcf, io)
    BY <1>1, TypeOKGood DEF IInv
  <2>2. kcf.LastRecord.payload # NoPayload
    BY <1>1, <2>1, WriterFacts DEF HeaderKept, Undisturbed, Harmless
  <2> QED
    BY <1>1, <2>1, <2>2, KeptHeader
<1>2. IInv => WriterInSync
  BY <1>1 DEF IInv, Sync, HeaderKept, DataCounted, WriterInSync
<1> QED
  BY <1>2, SyncKept, PTL

(* A handle on which no call has failed stands where its state says it      *)
(* does, with the data of the record that it has still to read.             *)
THEOREM ReaderKeepsPlace ==
  ASSUME Undisturbed
  PROVE  Spec => []ReaderInSync
<1>1. ASSUME IInv, Idle, call.handle = "sound" PROVE SoundSync(kcf, io)
  BY <1>1 DEF IInv
<1>2. SoundSync(kcf, io) /\ kcf.ParserState = "READ_RECORD_HEADER" =>
        /\ AtEnd(io) \/ AtRecord(io)
        /\ ~KCF_is_added_data_available(kcf)
  BY DEF SoundSync, AtBoundary, KCF_is_added_data_available
<1>3. SoundSync(kcf, io) /\ kcf.ParserState = "READ_ADDED_DATA" =>
        LET at == io.pos - kcf.ReadOrWritten
        IN  /\ ~io.within /\ at \in 1..io.pos /\ StartsRecord(io.cells[at])
            /\ DataLen(io.cells[at]) = kcf.ReadOrWritten + kcf.AvailableOrToBeWritten
            /\ kcf.ActualAddedDataCRC32 = SubSeq(io.cells, at + 1, io.pos)
  BY DEF SoundSync, DataRead, StartsRecord
<1>4. IInv => ReaderInSync
  BY <1>1, <1>2, <1>3 DEF ReaderInSync
<1> QED
  BY <1>4, SyncKept, PTL

(***************************************************************************)
(* The loop of a skip.                                                      *)
(***************************************************************************)
(* Every call but a skip returns in the step in which it is made.           *)
LEMMA OnlySkipsTurn ==
  ASSUME Next, ~KCF_skip_record, ~SkipStep
  PROVE  Idle /\ Idle'
<1>1. ASSUME NEW op, NEW outcomes, NEW ack, Return(op, outcomes, ack)
      PROVE  Idle /\ Idle'
  BY <1>1 DEF Return, MayCall, Idle
<1>2. Reopen => Idle /\ Idle'
  BY DEF Reopen, Idle
<1>3. StartReading \/ StartWriting \/ InitArchive \/ FindMarker \/ ReadRecord \/ ReadAddedData
        \/ WriteMarker => Idle /\ Idle'
  BY <1>1 DEF StartReading, StartWriting, InitArchive, FindMarker, ReadRecord, ReadAddedData,
              WriteMarker
<1>4. WriteRecord \/ WriteRecordWithAddedData \/ WriteAddedData \/ FinishAddedData
        \/ FileCall \/ SkipFile => Idle /\ Idle'
  BY <1>1 DEF WriteRecord, WriteRecordWithAddedData, WriteAddedData, FinishAddedData, FileCall,
              SkipFile
<1> QED
  BY <1>2, <1>3, <1>4 DEF Next

(* The end of the record that a skip from its header goes to.               *)
LEMMA SkipFromHeaderOnTrack ==
  ASSUME Steady, IInv, Idle, call.handle = "sound", kcf.ParserState = "READ_RECORD_HEADER",
         NEW hd \in read_record_header(kcf, io), hd.ret = "OK", ~AtEnd(io)
  PROVE  LET end == hd.io.pos + hd.header.AddedSize
         IN  /\ ~hd.io.within /\ end <= Len(io.cells)
             /\ end = Len(io.cells) \/ StartsRecord(io.cells[end + 1])
<1> DEFINE c == io.cells
           at == io.pos + 1
<1>1. Good(kcf, io) /\ Sync(kcf, io) /\ SoundSync(kcf, io)
  BY TypeOKGood DEF IInv
<1>2. c \in Seq(Cells) /\ io.pos \in Nat /\ io.pos <= Len(c) /\ Len(c) \in Nat
  BY <1>1, StreamFields
<1>3. StartsRecord(c[at]) /\ AtRecord(io)
  BY <1>1 DEF SoundSync, AtBoundary, AtRecord
<1>4. at \in 1..Len(c)
  BY <1>2 DEF AtEnd
<1>5. CompleteRecords(c, Len(c))
  BY <1>1 DEF Sync, SettledAt
<1>6. /\ hd.io.pos = at /\ ~hd.io.within
      /\ hd.header = IF IsHeader(c[at]) THEN c[at] ELSE ZeroRecord
  <2>1. hd.header \in HeadersAt(io) /\ hd.io \in HeaderEnds(io)
    BY HeaderFound
  <2>2. hd.io = Seek(io, at)
    BY <1>3, <2>1 DEF HeaderEnds
  <2>3. hd.header = IF IsHeader(c[at]) THEN c[at] ELSE ZeroRecord
    BY <1>3, <2>1 DEF HeadersAt
  <2> QED
    BY <1>1, <2>2, <2>3, SeekFields DEF Good, GoodStreams
<1> HIDE DEF c, at
<1>7. hd.header.AddedSize = DataLen(c[at])
  <2>1. c[at] \in Cells
    BY <1>2, <1>4
  <2>2. CASE IsHeader(c[at])
    BY <1>6, <2>1, <2>2, HeaderFields DEF DataLen
  <2>3. CASE ~IsHeader(c[at])
    BY <1>6, <2>3 DEF DataLen, ZeroRecord
  <2> QED
    BY <2>2, <2>3
<1>8. /\ at + DataLen(c[at]) <= Len(c)
      /\ at + DataLen(c[at]) = Len(c) \/ StartsRecord(c[at + DataLen(c[at]) + 1])
  BY <1>2, <1>3, <1>4, <1>5, AfterRecord
<1> QED
  BY <1>6, <1>7, <1>8 DEF c

LEMMA SkipBeginsOnTrack ==
  ASSUME Steady, IInv, KCF_skip_record
  PROVE  SkipOnTrack'
<1> SUFFICES ASSUME ~Idle', call'.handle = "sound" PROVE SkipOnTrack'
  BY DEF SkipOnTrack
<1>1. Good(kcf, io) /\ Sync(kcf, io) /\ Idle
  BY TypeOKGood DEF IInv, KCF_skip_record, MayCall
<1>2. ASSUME NEW k, NEW s, NEW e PROVE ~SkipReturns(k, s, e)
  BY <1>1 DEF SkipReturns, Idle
<1>3. CASE kcf.ParserState = "READ_ADDED_DATA"
  <2>1. io' = io /\ call' = call /\ skipLeft' = kcf.AvailableOrToBeWritten
    BY <1>3 DEF KCF_skip_record, SkipBegins
  <2>2. SoundSync(kcf, io)
    BY <1>1, <2>1 DEF IInv
  <2>3. DataRead(kcf, io) /\ CompleteRecords(io.cells, Len(io.cells))
    BY <1>1, <1>3, <2>2 DEF SoundSync, Sync, SettledAt
  <2>4. LET end == io.pos + kcf.AvailableOrToBeWritten
        IN  ~io.within /\ end <= Len(io.cells) /\ (end = Len(io.cells) \/ StartsRecord(io.cells[end + 1]))
    BY <1>1, <2>3, DataEnds DEF DataRead
  <2> QED
    BY <2>1, <2>4 DEF SkipOnTrack
<1>4. CASE kcf.ParserState = "READ_RECORD_HEADER"
  <2>1. PICK hd \in read_record_header(kcf, io) : SkipFromHeader(hd)
    BY <1>4 DEF KCF_skip_record
  <2>2. hd.ret = "OK" /\ SkipBegins(hd.kcf, hd.io, hd.header.AddedSize)
    BY <1>2, <2>1 DEF SkipFromHeader
  <2>3. io' = hd.io /\ skipLeft' = hd.header.AddedSize /\ call' = call
    BY <2>2 DEF SkipBegins
  <2>4. io'.cells = io.cells
    BY <1>1, <2>2, <2>3, HeaderReadFields
  <2>5. LET end == hd.io.pos + hd.header.AddedSize
        IN  /\ ~hd.io.within
            /\ end <= Len(io.cells) /\ (end = Len(io.cells) \/ StartsRecord(io.cells[end + 1]))
    <3>1. CASE ~AtEnd(io)
      BY <1>1, <1>4, <2>2, <2>3, <3>1, SkipFromHeaderOnTrack
    <3>2. CASE AtEnd(io)
      <4>1. hd.header = ZeroRecord /\ hd.io = io
        BY <2>2, <3>2, HeaderFound DEF HeadersAt, HeaderEnds
      <4>2. /\ hd.header.AddedSize = 0 /\ hd.io.pos = Len(io.cells) /\ Len(io.cells) \in Nat
            /\ ~hd.io.within
        BY <1>1, <3>2, <4>1, StreamFields DEF ZeroRecord, AtEnd, GoodStreams
      <4> QED
        BY <4>2
    <3> QED
      BY <3>1, <3>2
  <2> QED
    BY <2>3, <2>4, <2>5 DEF SkipOnTrack
<1> QED
  BY <1>2, <1>3, <1>4 DEF KCF_skip_record

(* A turn of the loop that is not its last takes off what it has skipped.   *)
LEMMA SkipTurn ==
  ASSUME Steady, IInv, SkipOnTrack, SkipStep, ~Idle', call.handle = "sound"
  PROVE  /\ io'.cells = io.cells /\ io'.pos + skipLeft' = io.pos + skipLeft
         /\ skipLeft' \in Nat /\ skipLeft' < skipLeft /\ ~io'.within
<1> DEFINE n == AtMost(AtMost(SkipBuffer, skipLeft), Remainder(io))
           past == Ahead(io, n)
<1>1. Good(kcf, io) /\ ~Idle /\ skipLeft \in Nat
  BY TypeOKGood DEF IInv, SkipStep, Idle
<1>2. io.pos \in Nat /\ Len(io.cells) \in Nat /\ io \in Streams
  BY <1>1, StreamFields DEF Good, GoodStreams
<1>3. io.pos + skipLeft <= Len(io.cells) /\ ~io.within
  BY <1>1 DEF SkipOnTrack
<1>7. n \in Nat /\ n <= skipLeft /\ (skipLeft > 0 => n > 0)
  BY <1>1, <1>2, <1>3, ConstantsOK DEF AtMost, Remainder
<1>4. past.cells = io.cells /\ past.pos = io.pos + n /\ ~past.within
  <2> HIDE DEF n
  <2> QED
    BY <1>2, <1>3, <1>7, AheadFields
<1>5. \A k, s : ~SkipDone(k, s)
  BY DEF SkipDone, Idle
<1>6. io' = past /\ skipLeft' = skipLeft - n /\ skipLeft - n > 0
  BY <1>5, SteadyYield DEF SkipStep
<1> HIDE DEF n, past
<1> QED
  BY <1>1, <1>2, <1>4, <1>6, <1>7

LEMMA SkipStaysOnTrack ==
  ASSUME Steady, IInv, SkipOnTrack, [Next]_vars
  PROVE  SkipOnTrack'
<1> SUFFICES ASSUME ~Idle', call'.handle = "sound" PROVE SkipOnTrack'
  BY DEF SkipOnTrack
<1>1. CASE KCF_skip_record
  BY <1>1, SkipBeginsOnTrack
<1>2. CASE SkipStep
  <2>1. \A k, s : ~SkipDone(k, s)
    BY DEF SkipDone, Idle
  <2>2. call' = call /\ ~Idle
    BY <1>2, <2>1 DEF SkipStep
  <2>3. io'.cells = io.cells /\ io'.pos + skipLeft' = io.pos + skipLeft /\ ~io'.within
    BY <1>2, <2>2, SkipTurn
  <2> QED
    BY <2>2, <2>3 DEF SkipOnTrack
<1>3. CASE UNCHANGED vars
  BY <1>3 DEF vars, SkipOnTrack, Idle
<1> QED
  BY <1>1, <1>2, <1>3, OnlySkipsTurn

(* A skip on a handle on which no call has failed has the rest of the       *)
(* record before it, to its end, at every turn of its loop.                 *)
THEOREM SkipKeepsTrack ==
  ASSUME Undisturbed
  PROVE  Spec => []SkipOnTrack
<1>1. Init => SkipOnTrack
  BY DEF Init, SkipOnTrack, Idle
<1>2. IInv /\ SkipOnTrack /\ [Next]_vars => SkipOnTrack'
  BY SkipStaysOnTrack DEF Undisturbed, Harmless
<1> QED
  BY <1>1, <1>2, SyncKept, PTL DEF Spec

(* ... so that every turn but the last leaves less to skip than it found:   *)
(* the measure by which SkipTerminates holds for sizes without bound.       *)
THEOREM SkipAdvances ==
  ASSUME Undisturbed
  PROVE  Spec => [][~Idle /\ call.handle = "sound"
                    => Idle' \/ (skipLeft' \in Nat /\ skipLeft' < skipLeft)]_vars
<1>1. ASSUME IInv, SkipOnTrack, Next, ~Idle, call.handle = "sound", ~Idle', ~UNCHANGED vars
      PROVE  skipLeft' \in Nat /\ skipLeft' < skipLeft
  <2>1. ~KCF_skip_record
    BY <1>1 DEF KCF_skip_record, MayCall
  <2>2. SkipStep
    BY <1>1, <2>1, OnlySkipsTurn
  <2> QED
    BY <1>1, <2>2, SkipTurn DEF Undisturbed, Harmless
<1>2. IInv /\ SkipOnTrack /\ [Next]_vars
      => [~Idle /\ call.handle = "sound"
          => Idle' \/ (skipLeft' \in Nat /\ skipLeft' < skipLeft)]_vars
  BY <1>1
<1> QED
  BY <1>2, SkipKeepsTrack, SyncKept, PTL DEF Spec

(* When no read fails a skip arrives, whatever it reports (read.c:182): its *)
(* last turn leaves the stream before the next header, or at its end.       *)
THEOREM SkipArrives ==
  ASSUME Undisturbed, "read" \notin Faults
  PROVE  Spec => [][~Idle /\ call.handle = "sound" /\ Idle'
                    => io'.cells = io.cells /\ AtBoundary(io')]_vars
<1>1. ASSUME IInv, SkipOnTrack, SkipStep, call.handle = "sound", Idle'
      PROVE  io'.cells = io.cells /\ AtBoundary(io')
  <2> DEFINE n == AtMost(AtMost(SkipBuffer, skipLeft), Remainder(io))
             past == Ahead(io, n)
  <2>1. Good(kcf, io) /\ ~Idle /\ skipLeft \in Nat
    BY <1>1, TypeOKGood DEF IInv, SkipStep, Idle
  <2>2. io.pos \in Nat /\ Len(io.cells) \in Nat /\ io \in Streams
    BY <2>1, StreamFields DEF Good, GoodStreams
  <2>3. /\ ~io.within /\ io.pos + skipLeft <= Len(io.cells)
        /\ \/ io.pos + skipLeft = Len(io.cells)
           \/ StartsRecord(io.cells[io.pos + skipLeft + 1])
    BY <1>1, <2>1 DEF SkipOnTrack
  <2>5. n \in Nat /\ n <= skipLeft
    BY <2>1, <2>2, <2>3, ConstantsOK DEF AtMost, Remainder
  <2>4. past.cells = io.cells /\ past.pos = io.pos + n /\ ~past.within
    <3> HIDE DEF n
    <3> QED
      BY <2>2, <2>3, <2>5, AheadFields
  <2>6. \/ skipLeft - n > 0 /\ skipLeft' = skipLeft - n
        \/ skipLeft - n <= 0 /\ SkipDone(kcf, past)
    BY <1>1, SteadyYield DEF SkipStep, Undisturbed, Harmless
  <2> HIDE DEF n, past
  <2>7. skipLeft - n <= 0 /\ SkipDone(kcf, past)
    BY <1>1, <2>1, <2>5, <2>6 DEF Idle
  <2>8. io' = past /\ n = skipLeft
    BY <2>1, <2>5, <2>7 DEF SkipDone
  <2>9. io'.cells = io.cells /\ io'.pos = io.pos + skipLeft /\ ~io'.within
    BY <2>4, <2>8
  <2> QED
    BY <2>3, <2>9 DEF AtBoundary, AtRecord, AtEnd
<1>2. ASSUME Next, ~Idle PROVE SkipStep
  BY <1>2, OnlySkipsTurn DEF KCF_skip_record, MayCall
<1>3. ASSUME UNCHANGED vars PROVE Idle' <=> Idle
  BY <1>3 DEF vars, Idle
<1>4. IInv /\ SkipOnTrack /\ [Next]_vars
      => [~Idle /\ call.handle = "sound" /\ Idle'
          => io'.cells = io.cells /\ AtBoundary(io')]_vars
  BY <1>1, <1>2, <1>3
<1> QED
  BY <1>4, SkipKeepsTrack, SyncKept, PTL DEF Spec

(* The checksum computed by reading a record is the one that its writer put *)
(* into the header.                                                         *)
THEOREM ReaderAgreesWithWriter ==
  ASSUME Undisturbed
  PROVE  Spec => []ChecksumsAgree
<1>1. IInv => ChecksumsAgree
  BY DEF IInv, SoundSync, ChecksumsAgree
<1> QED
  BY <1>1, SyncKept, PTL
===============================================================================
