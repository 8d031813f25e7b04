---------------------------- MODULE KcfLog_proofs ----------------------------
(***************************************************************************)
(* The handle implements ArchiveLog, under the premises of KcfSync_proofs:  *)
(* each call appends whole records, opens one, adds to it, ends it, or      *)
(* changes nothing that the log knows of.  For a diligent caller it         *)
(* implements FallibleLog whichever calls of the stream fail.               *)
(***************************************************************************)
EXTENDS KcfCalls_proofs, KcfLog

(***************************************************************************)
(* What the log sees of a handle and its stream, and its steps.             *)
(***************************************************************************)
Writing(k) == k.ParserState = "WRITE_ADDED_DATA"

ArchiveOf(k, s) == SubSeq(s.cells, 1, SettledAt(k, s))
OpenOf(k) == IF Writing(k) THEN k.LastRecord ELSE NoRecord
DataOf(k, s) == IF Writing(k) THEN SubSeq(s.cells, SettledAt(k, s) + 2, Len(s.cells)) ELSE <<>>

ClosedOf(k, s) ==
  IF OpenOf(k) = NoRecord THEN ArchiveOf(k, s)
  ELSE ArchiveOf(k, s) \o Log!Complete(OpenOf(k), DataOf(k, s))

Looks(q, t, archive, open, data) ==
  ArchiveOf(q, t) = archive /\ OpenOf(q) = open /\ DataOf(q, t) = data

StepFrom(archive, open, data, closed, q, t) ==
  \/ Looks(q, t, archive, open, data)
  \/ Looks(q, t, closed, NoRecord, <<>>)
  \/ \E r \in NewRecords : r.hasSize /\ Looks(q, t, closed, r, <<>>)
  \/ \E r \in NewRecords :
       ~r.hasSize /\ Looks(q, t, closed \o Log!Complete(r, <<>>), NoRecord, <<>>)
  \/ \E r \in NewRecords, x \in Chunks :
       Looks(q, t, closed \o
               Log!Complete([r EXCEPT !.hasSize = x # <<>>, !.hasCRC = @ /\ x # <<>>], x),
             NoRecord, <<>>)
  \/ /\ open # NoRecord
     /\ \E x \in Chunks :
          /\ open.AddedSize > 0 => Len(data) + Len(x) <= open.AddedSize
          /\ Looks(q, t, archive, open, data \o x)

LogStep(k, s, q, t) == StepFrom(ArchiveOf(k, s), OpenOf(k), DataOf(k, s), ClosedOf(k, s), q, t)

LEMMA StepOfLog ==
  ASSUME LogStep(kcf, io, kcf', io')
  PROVE  [Log!Next]_(Log!vars)
<1>1. CASE Looks(kcf', io', ArchiveOf(kcf, io), OpenOf(kcf), DataOf(kcf, io))
  BY <1>1 DEF Looks, ArchiveOf, OpenOf, DataOf, Writing, SettledAt, Settled, IsOpen, Log!vars
<1>2. CASE Looks(kcf', io', ClosedOf(kcf, io), NoRecord, <<>>)
  <2>1. Log!End
    BY <1>2 DEF Looks, ArchiveOf, OpenOf, DataOf, ClosedOf, Writing, SettledAt, Settled, IsOpen,
                Log!End, Log!Closed
  <2> QED
    BY <2>1 DEF Log!Next
<1>3. ASSUME NEW r \in NewRecords, r.hasSize, Looks(kcf', io', ClosedOf(kcf, io), r, <<>>)
      PROVE  Log!Next
  <2>1. Log!Begin(r)
    BY <1>3 DEF Looks, ArchiveOf, OpenOf, DataOf, ClosedOf, Writing, SettledAt, Settled, IsOpen,
                Log!Begin, Log!Closed
  <2> QED
    BY <2>1 DEF Log!Next
<1>4. ASSUME NEW r \in NewRecords, ~r.hasSize,
             Looks(kcf', io', ClosedOf(kcf, io) \o Log!Complete(r, <<>>), NoRecord, <<>>)
      PROVE  Log!Next
  <2>1. Log!AppendBare(r)
    BY <1>4 DEF Looks, ArchiveOf, OpenOf, DataOf, ClosedOf, Writing, SettledAt, Settled, IsOpen,
                Log!AppendBare, Log!Closed
  <2> QED
    BY <2>1 DEF Log!Next
<1>5. ASSUME NEW r \in NewRecords, NEW x \in Chunks,
             Looks(kcf', io', ClosedOf(kcf, io) \o
                     Log!Complete([r EXCEPT !.hasSize = x # <<>>, !.hasCRC = @ /\ x # <<>>], x),
                   NoRecord, <<>>)
      PROVE  Log!Next
  <2>1. Log!Append1(r, x)
    BY <1>5 DEF Looks, ArchiveOf, OpenOf, DataOf, ClosedOf, Writing, SettledAt, Settled, IsOpen,
                Log!Append1, Log!Flagged, Log!Closed
  <2> QED
    BY <2>1 DEF Log!Next
<1>6. ASSUME NEW x \in Chunks, OpenOf(kcf) # NoRecord,
             OpenOf(kcf).AddedSize > 0 => Len(DataOf(kcf, io)) + Len(x) <= OpenOf(kcf).AddedSize,
             Looks(kcf', io', ArchiveOf(kcf, io), OpenOf(kcf), DataOf(kcf, io) \o x)
      PROVE  Log!Next
  <2>1. Log!Add(x)
    BY <1>6 DEF Looks, ArchiveOf, OpenOf, DataOf, Writing, SettledAt, Settled, IsOpen,
                Log!Add, Log!Fits
  <2> QED
    BY <2>1 DEF Log!Next
<1> QED
  BY <1>1, <1>2, <1>3, <1>4, <1>5, <1>6 DEF LogStep, StepFrom

(***************************************************************************)
(* The end of a record.                                                     *)
(***************************************************************************)
LEMMA Replaced ==
  ASSUME NEW c \in Seq(Cells), NEW n \in Nat, n + 1 <= Len(c), NEW h \in Cells
  PROVE  SubSeq(c, 1, n) \o (<<h>> \o SubSeq(c, n + 2, Len(c))) = [c EXCEPT ![n + 1] = h]
<1> DEFINE a == SubSeq(c, 1, n)
           b == SubSeq(c, n + 2, Len(c))
           d == [c EXCEPT ![n + 1] = h]
<1>1. Len(c) \in Nat /\ d \in Seq(Cells) /\ Len(d) = Len(c)
  OBVIOUS
<1>2. a \in Seq(Cells) /\ Len(a) = n
  <2>1. \A i \in 1..n : c[i] \in Cells
    BY <1>1
  <2> QED
    BY <1>1, <2>1, SubSeqProperties
<1>3. b \in Seq(Cells) /\ Len(b) = Len(c) - (n + 1)
  <2>1. \A i \in (n + 2)..Len(c) : c[i] \in Cells
    BY <1>1
  <2>2. /\ b \in Seq(Cells)
        /\ Len(b) = IF n + 2 <= Len(c) THEN Len(c) - (n + 2) + 1 ELSE 0
    BY <1>1, <2>1, SubSeqProperties
  <2>3. Len(c) \in Nat
    BY <1>1
  <2> HIDE DEF b, d
  <2> QED
    BY <2>2, <2>3
<1>4. a = SubSeq(d, 1, n)
  <2>1. \A j \in 1..n : c[j] = d[j]
    BY <1>1
  <2>2. 1 \in Nat \ {0} /\ n <= Len(c) /\ n <= Len(d)
    BY <1>1
  <2> HIDE DEF d
  <2> QED
    BY <1>1, <2>1, <2>2, SubSeqSame
<1>5. b = SubSeq(d, n + 2, Len(c))
  <2>1. \A j \in (n + 2)..Len(c) : c[j] = d[j]
    BY <1>1
  <2>2. n + 2 \in Nat \ {0} /\ Len(c) <= Len(c) /\ Len(c) <= Len(d)
    BY <1>1
  <2> HIDE DEF d
  <2> QED
    BY <1>1, <2>1, <2>2, SubSeqSame
<1>6. d[n + 1] = h
  BY <1>1
<1> HIDE DEF d
<1>7. <<h>> = SubSeq(d, n + 1, n + 1)
  <2>1. <<h>> \in Seq(Cells) /\ Len(<<h>>) = 1 /\ \A j \in 1..1 : d[n + j] = <<h>>[j]
    BY <1>6
  <2>2. n + Len(<<h>>) <= Len(d) /\ n + Len(<<h>>) = n + 1
    BY <1>1, <2>1
  <2>3. SubSeq(d, n + 1, n + Len(<<h>>)) = <<h>>
    BY <1>1, <2>1, <2>2, SubSeqFound
  <2> QED
    BY <2>2, <2>3
<1>8. <<h>> \o b = SubSeq(d, n + 1, Len(c))
  <2>1. n + 1 \in 1..(Len(d) + 1) /\ n + 1 \in ((n + 1) - 1)..Len(d) /\ Len(c) \in (n + 1)..Len(d)
    BY <1>1
  <2>2. SubSeq(d, n + 1, n + 1) \o SubSeq(d, (n + 1) + 1, Len(c)) = SubSeq(d, n + 1, Len(c))
    BY <1>1, <2>1, ConcatAdjacentSubSeq
  <2>3. (n + 1) + 1 = n + 2
    OBVIOUS
  <2> QED
    BY <1>5, <1>7, <2>2, <2>3
<1>9. a \o (<<h>> \o b) = SubSeq(d, 1, Len(c))
  <2>1. 1 \in 1..(Len(d) + 1) /\ n \in (1 - 1)..Len(d) /\ Len(c) \in n..Len(d)
    BY <1>1
  <2>2. SubSeq(d, 1, n) \o SubSeq(d, n + 1, Len(c)) = SubSeq(d, 1, Len(c))
    BY <1>1, <2>1, ConcatAdjacentSubSeq
  <2> QED
    BY <1>4, <1>8, <2>2
<1>10. SubSeq(d, 1, Len(c)) = d
  BY <1>1, SubSeqFull
<1> QED
  BY <1>9, <1>10 DEF d

(* The log closes the open record as KCF_finish_added_data does.            *)
LEMMA ClosedIsFinished ==
  ASSUME Undisturbed, NoRecord \notin Headers, NEW k, NEW s, Good(k, s), Sync(k, s)
  PROVE  ClosedOf(k, s) = Finished(k, s)
<1> DEFINE c == s.cells
           n == k.RecordOffset
           r == k.LastRecord
           d == SubSeq(c, n + 2, Len(c))
<1>1. c \in Seq(Cells) /\ Len(c) \in Nat /\ r \in Headers
  BY StreamFields
<1>2. CASE ~Writing(k)
  <2>1. ClosedOf(k, s) = SubSeq(c, 1, Len(c))
    BY <1>2 DEF ClosedOf, OpenOf, ArchiveOf, SettledAt, Writing
  <2>2. SubSeq(c, 1, Len(c)) = c
    BY <1>1, SubSeqFull
  <2> QED
    BY <1>2, <2>1, <2>2 DEF Finished, Writing
<1>3. CASE Writing(k)
  <2>1. /\ HeaderKept(k, s) /\ DataCounted(k, s) /\ n \in Nat \ {0} /\ k.ReadOrWritten \in Nat
        /\ s.pos = Len(c) /\ Len(c) = n + 1 + k.ReadOrWritten
    BY <1>3, WriterFacts DEF Writing
  <2>2. Len(d) = k.ReadOrWritten
    <3>1. \A i \in (n + 2)..Len(c) : c[i] \in Cells
      BY <1>1, <2>1
    <3>2. Len(d) = IF n + 2 <= Len(c) THEN Len(c) - (n + 2) + 1 ELSE 0
      BY <1>1, <2>1, <3>1, SubSeqProperties
    <3> HIDE DEF d, n, c
    <3> QED
      BY <2>1, <3>2
  <2>3. k.AddedDataCRC32 = IF r.hasCRC THEN d ELSE <<>>
    <3>1. n + 1 + 1 = n + 2
      BY <2>1
    <3> QED
      BY <2>1, <3>1 DEF DataCounted, HeaderKept
  <2>4. Log!Complete(r, d) = <<EndedHeader(k)>> \o d
    <3> HIDE DEF d
    <3>1. EndedHeader(k) = [r EXCEPT !.AddedSize = Len(d), !.AddedDataCRC32 = IF r.hasCRC THEN d ELSE <<>>]
      <4>1. r.hasSize
        BY <2>1 DEF HeaderKept
      <4> QED
        BY <1>1, <2>2, <2>3, <4>1 DEF EndedHeader, rec_to_buffer, Headers, RecordOf
    <3> QED
      BY <3>1 DEF Log!Complete
  <2>5. ClosedOf(k, s) = SubSeq(c, 1, n) \o Log!Complete(r, d)
    BY <1>1, <1>3 DEF ClosedOf, OpenOf, ArchiveOf, DataOf, SettledAt, Writing
  <2>6. EndedHeader(k) \in Cells
    <3>1. k \in Handles
      BY StreamFields
    <3>2. [r EXCEPT !.AddedSize = k.ReadOrWritten, !.AddedDataCRC32 = k.AddedDataCRC32] \in Headers
      BY <3>1 DEF Handles, Headers, RecordOf
    <3> QED
      BY <3>2, HeaderCell DEF EndedHeader, Undisturbed, Harmless, Steady
  <2>7. SubSeq(c, 1, n) \o (<<EndedHeader(k)>> \o d) = [c EXCEPT ![n + 1] = EndedHeader(k)]
    <3>1. n \in Nat /\ n + 1 <= Len(c)
      BY <2>1
    <3> DEFINE h == EndedHeader(k)
    <3>2. c \in Seq(Cells) /\ h \in Cells
      BY <1>1, <2>6
    <3> HIDE DEF c, n, h
    <3>3. SubSeq(c, 1, n) \o (<<h>> \o SubSeq(c, n + 2, Len(c))) = [c EXCEPT ![n + 1] = h]
      BY ONLY <3>1, <3>2, Replaced
    <3> QED
      BY <3>3 DEF h
  <2>8. Finished(k, s) = [c EXCEPT ![n + 1] = EndedHeader(k)]
    BY <1>3 DEF Finished, Writing
  <2> QED
    BY <2>4, <2>5, <2>7, <2>8
<1> QED
  BY <1>2, <1>3

(***************************************************************************)
(* What the log sees after a call.                                          *)
(***************************************************************************)
LEMMA LooksClosed ==
  ASSUME NEW q, ~Writing(q), NEW t, t.cells \in Seq(Cells)
  PROVE  Looks(q, t, t.cells, NoRecord, <<>>)
<1>1. SettledAt(q, t) = Len(t.cells)
  BY DEF SettledAt, Writing
<1>2. SubSeq(t.cells, 1, Len(t.cells)) = t.cells
  BY SubSeqFull
<1> QED
  BY <1>1, <1>2 DEF Looks, ArchiveOf, OpenOf, DataOf

LEMMA LooksOpened ==
  ASSUME NEW c \in Seq(Cells), NEW h \in Cells, NEW r,
         NEW q, Writing(q), q.RecordOffset = Len(c), q.LastRecord = r,
         NEW t, t.cells = c \o <<h>>
  PROVE  Looks(q, t, c, r, <<>>)
<1> DEFINE d == c \o <<h>>
<1>1. /\ Len(c) \in Nat /\ d \in Seq(Cells) /\ Len(d) = Len(c) + 1
      /\ \A j \in 1..Len(c) : c[j] = d[j]
  <2>1. <<h>> \in Seq(Cells) /\ Len(<<h>>) = 1
    OBVIOUS
  <2> QED
    BY <2>1, AppendedCells
<1>2. SettledAt(q, t) = Len(c)
  BY DEF SettledAt, Writing
<1> HIDE DEF d
<1>3. SubSeq(d, 1, Len(c)) = c
  <2>1. 1 \in Nat \ {0} /\ Len(c) <= Len(c) /\ Len(c) <= Len(d)
    BY <1>1
  <2>2. SubSeq(c, 1, Len(c)) = SubSeq(d, 1, Len(c))
    BY <1>1, <2>1, SubSeqSame
  <2>3. SubSeq(c, 1, Len(c)) = c
    BY SubSeqFull
  <2> QED
    BY <2>2, <2>3
<1>4. SubSeq(d, Len(c) + 2, Len(d)) = <<>>
  <2>1. Len(c) + 2 \in Int /\ Len(d) \in Int /\ Len(d) < Len(c) + 2
    BY <1>1
  <2> QED
    BY <2>1, SubSeqEmpty
<1> QED
  BY <1>2, <1>3, <1>4 DEF Looks, ArchiveOf, OpenOf, DataOf, d

(* The data of the record being written, as they are counted.               *)
LEMMA DataLength ==
  ASSUME NEW k, NEW s, Good(k, s), Sync(k, s), Writing(k)
  PROVE  Len(DataOf(k, s)) = k.ReadOrWritten
<1> DEFINE c == s.cells
           n == k.RecordOffset
           d == SubSeq(c, n + 2, Len(c))
<1>1. /\ c \in Seq(Cells) /\ Len(c) \in Nat /\ n \in Nat \ {0} /\ k.ReadOrWritten \in Nat
      /\ Len(c) = n + 1 + k.ReadOrWritten
  BY StreamFields, WriterFacts DEF Writing
<1>2. DataOf(k, s) = d
  BY DEF DataOf, SettledAt, Writing
<1>3. \A i \in (n + 2)..Len(c) : c[i] \in Cells
  BY <1>1
<1>4. Len(d) = IF n + 2 <= Len(c) THEN Len(c) - (n + 2) + 1 ELSE 0
  BY <1>1, <1>3, SubSeqProperties
<1> HIDE DEF d, n, c
<1> QED
  BY <1>1, <1>2, <1>4

LEMMA LooksAdded ==
  ASSUME NEW k, NEW s, Good(k, s), Sync(k, s), Writing(k), NEW y \in Seq(Bytes),
         NEW q, Writing(q), q.RecordOffset = k.RecordOffset, q.LastRecord = k.LastRecord,
         NEW t, t.cells = s.cells \o y
  PROVE  Looks(q, t, ArchiveOf(k, s), OpenOf(k), DataOf(k, s) \o y)
<1> DEFINE c == s.cells
           d == c \o y
           n == k.RecordOffset
<1>1. /\ c \in Seq(Cells) /\ n \in Nat \ {0} /\ n + 1 <= Len(c)
  <2>1. k.ReadOrWritten \in Nat /\ Len(s.cells) = k.RecordOffset + 1 + k.ReadOrWritten
    BY WriterFacts DEF Writing
  <2>2. k.RecordOffset \in Nat \ {0}
    BY WriterFacts DEF Writing
  <2> QED
    BY <2>1, <2>2, StreamFields
<1>2. y \in Seq(Cells)
  BY BytesCells
<1> HIDE DEF n
<1>3. /\ Len(c) \in Nat /\ Len(y) \in Nat /\ d \in Seq(Cells) /\ Len(d) = Len(c) + Len(y)
      /\ \A i \in 1..Len(c) : d[i] = c[i]
  BY <1>1, <1>2, AppendedCells
<1>4. \A j \in 1..Len(y) : d[Len(c) + j] = y[j]
  BY <1>1, <1>2, AppendedCells
<1>5. SettledAt(k, s) = n /\ SettledAt(q, t) = n
  BY DEF SettledAt, Writing, n
<1> HIDE DEF c, d
<1>6. SubSeq(d, 1, n) = SubSeq(c, 1, n)
  <2>1. 1 \in Nat \ {0} /\ n \in Nat /\ n <= Len(c) /\ n <= Len(d) /\ \A j \in 1..n : d[j] = c[j]
    BY <1>1, <1>3
  <2> QED
    BY <1>1, <1>3, <2>1, SubSeqSame
<1>7. SubSeq(d, n + 2, Len(d)) = SubSeq(c, n + 2, Len(c)) \o y
  <2>1. n + 2 \in Nat \ {0} /\ n + 2 <= Len(c) + 1 /\ Len(c) <= Len(c) /\ Len(c) <= Len(d)
    BY <1>1, <1>3
  <2>2. SubSeq(c, n + 2, Len(c)) = SubSeq(d, n + 2, Len(c))
    <3>1. \A j \in (n + 2)..Len(c) : c[j] = d[j]
      BY <1>1, <1>3
    <3> QED
      BY <1>1, <1>3, <2>1, <3>1, SubSeqSame
  <2>3. SubSeq(d, n + 2, Len(c)) \o y = SubSeq(d, n + 2, Len(c) + Len(y))
    <3>1. Len(c) + Len(y) <= Len(d)
      BY <1>3
    <3>2. Len(c) \in Nat /\ d \in Seq(Cells)
      BY <1>3
    <3> QED
      BY <1>2, <1>4, <2>1, <3>1, <3>2, SubSeqExtended
  <2> QED
    BY <1>3, <2>2, <2>3
<1> QED
  BY <1>5, <1>6, <1>7 DEF Looks, ArchiveOf, OpenOf, DataOf, c, d

LEMMA ShorterChunk ==
  ASSUME NEW x \in Chunks, NEW y \in Seq(Bytes), Len(y) <= Len(x)
  PROVE  y \in Chunks
<1>1. x \in Seq(Bytes) /\ Len(x) \in 0..MaxChunk /\ MaxChunk \in Nat
  BY ConstantsOK DEF Chunks
<1>2. y \in [1..Len(y) -> Bytes] /\ Len(y) \in 0..MaxChunk
  BY <1>1
<1> QED
  BY <1>2 DEF Chunks

LEMMA StartOfChunk ==
  ASSUME NEW x \in Chunks, NEW n \in 0..Len(x)
  PROVE  SubSeq(x, 1, n) \in Chunks /\ SubSeq(x, 1, n) \in Seq(Bytes) /\ Len(SubSeq(x, 1, n)) = n
<1>1. x \in Seq(Bytes) /\ Len(x) \in Nat
  BY ChunksType
<1>2. SubSeq(x, 1, n) \in Seq(Bytes) /\ Len(SubSeq(x, 1, n)) = n /\ n <= Len(x)
  BY <1>1
<1> DEFINE y == SubSeq(x, 1, n)
<1> HIDE DEF y
<1>3. y \in Chunks
  BY <1>2, ShorterChunk DEF y
<1> QED
  BY <1>2, <1>3 DEF y

LEMMA EmptyChunk == <<>> \in Chunks
<1>1. 0 \in 0..MaxChunk
  BY ConstantsOK
<1>2. <<>> \in [1..0 -> Bytes]
  OBVIOUS
<1> QED
  BY <1>1, <1>2 DEF Chunks

(* What is passed is taken up to a prefix of it.                            *)
LEMMA ClippedChunk ==
  ASSUME NEW k \in Handles, NEW x \in Chunks
  PROVE  Clipped(k, x) \in Chunks
<1>1. x \in Seq(Bytes) /\ Len(x) \in 0..MaxChunk /\ MaxChunk \in Nat
  BY ConstantsOK DEF Chunks
<1>2. Clipped(k, x) \in Seq(Bytes)
  BY <1>1, ClippedType
<1>3. Len(Clipped(k, x)) <= Len(x)
  <2> DEFINE left == k.AvailableOrToBeWritten - k.ReadOrWritten
  <2>1. CASE k.AvailableOrToBeWritten > 0 /\ left >= 0
    <3>1. left \in Nat
      BY <2>1 DEF Handles
    <3>2. Clipped(k, x) = SubSeq(x, 1, AtMost(Len(x), left))
      BY <2>1, Zenon DEF Clipped
    <3> HIDE DEF left
    <3>3. AtMost(Len(x), left) \in 0..Len(x)
      BY <1>1, <3>1 DEF AtMost
    <3> QED
      BY <1>1, <3>2, <3>3
  <2>2. CASE ~(k.AvailableOrToBeWritten > 0 /\ left >= 0)
    <3>1. Clipped(k, x) = x
      BY <2>2, Zenon DEF Clipped
    <3> QED
      BY <1>1, <3>1
  <2> QED
    BY <2>1, <2>2
<1> QED
  BY <1>2, <1>3, ShorterChunk

(***************************************************************************)
(* Calls.                                                                   *)
(***************************************************************************)
(* A call that the log does not see.                                        *)
Unseen(k, s, q, t) ==
  t.cells = s.cells /\ (q = k \/ (~Writing(q) /\ ~Writing(k)))

LEMMA SameUnseen ==
  ASSUME NEW k, NEW s, NEW q, NEW t, q = k, t = s
  PROVE  Unseen(k, s, q, t)
BY DEF Unseen

LEMMA UnseenViews ==
  ASSUME NEW k, NEW s, NEW q, NEW t, Unseen(k, s, q, t)
  PROVE  /\ ArchiveOf(q, t) = ArchiveOf(k, s) /\ OpenOf(q) = OpenOf(k)
         /\ DataOf(q, t) = DataOf(k, s) /\ ClosedOf(q, t) = ClosedOf(k, s)
<1>1. SettledAt(q, t) = SettledAt(k, s) /\ OpenOf(q) = OpenOf(k) /\ (Writing(q) <=> Writing(k))
  BY DEF Unseen, SettledAt, OpenOf, Writing
<1>2. ArchiveOf(q, t) = ArchiveOf(k, s) /\ DataOf(q, t) = DataOf(k, s)
  BY <1>1 DEF Unseen, ArchiveOf, DataOf
<1> QED
  BY <1>1, <1>2 DEF ClosedOf

LEMMA UnseenStep ==
  ASSUME NEW k, NEW s, NEW q, NEW t, Unseen(k, s, q, t)
  PROVE  LogStep(k, s, q, t)
<1>1. Looks(q, t, ArchiveOf(k, s), OpenOf(k), DataOf(k, s))
  BY UnseenViews DEF Looks
<1> QED
  BY <1>1 DEF LogStep, StepFrom

LEMMA StepAfterUnseen ==
  ASSUME NEW k, NEW s, NEW q, NEW t, Unseen(k, s, q, t),
         NEW p, NEW u, LogStep(q, t, p, u)
  PROVE  LogStep(k, s, p, u)
BY UnseenViews DEF LogStep

(* The cells of a record that is written at once.                           *)
LEMMA BareRecord ==
  ASSUME NEW r \in Headers, ~r.hasSize, r.AddedDataCRC32 = <<>>
  PROVE  Log!Complete(r, <<>>) = <<rec_to_buffer(r)>>
<1>1. rec_to_buffer(r) = [r EXCEPT !.AddedSize = 0, !.AddedDataCRC32 = <<>>]
  BY DEF rec_to_buffer
<1>2. [r EXCEPT !.AddedSize = Len(<<>>), !.AddedDataCRC32 = IF r.hasCRC THEN <<>> ELSE <<>>]
        = rec_to_buffer(r)
  BY <1>1
<1>3. <<rec_to_buffer(r)>> \o <<>> = <<rec_to_buffer(r)>>
  BY HeaderType, ConcatEmptySeq
<1> QED
  BY <1>2, <1>3 DEF Log!Complete

LEMMA FilledRecord ==
  ASSUME NEW r \in Headers, r.AddedDataCRC32 = <<>>, NEW x \in Seq(Bytes)
  PROVE  Log!Complete([r EXCEPT !.hasSize = x # <<>>, !.hasCRC = @ /\ x # <<>>], x)
           = <<rec_to_buffer(WithAddedData(r, x))>> \o x
<1> DEFINE v == [r EXCEPT !.hasSize = x # <<>>, !.hasCRC = @ /\ x # <<>>]
           h == [v EXCEPT !.AddedSize = Len(x), !.AddedDataCRC32 = IF v.hasCRC THEN x ELSE <<>>]
<1>1. h = rec_to_buffer(WithAddedData(r, x))
  <2>1. CASE x # <<>>
    <3>1. v.hasCRC = r.hasCRC /\ v = [r EXCEPT !.hasSize = TRUE]
      BY <2>1 DEF Headers, RecordOf
    <3> HIDE DEF v
    <3>2. CASE r.hasCRC
      <4>1. h = [r EXCEPT !.hasSize = TRUE, !.AddedSize = Len(x), !.AddedDataCRC32 = x]
        BY <3>1, <3>2 DEF Headers, RecordOf
      <4>2. rec_to_buffer(WithAddedData(r, x)) =
              [r EXCEPT !.hasSize = TRUE, !.AddedSize = Len(x), !.AddedDataCRC32 = x]
        BY <2>1, <3>2 DEF rec_to_buffer, WithAddedData, Headers, RecordOf
      <4> QED
        BY <4>1, <4>2
    <3>3. CASE ~r.hasCRC
      <4>1. h = [r EXCEPT !.hasSize = TRUE, !.AddedSize = Len(x), !.AddedDataCRC32 = <<>>]
        BY <3>1, <3>3 DEF Headers, RecordOf
      <4>2. rec_to_buffer(WithAddedData(r, x)) =
              [r EXCEPT !.hasSize = TRUE, !.AddedSize = Len(x), !.AddedDataCRC32 = <<>>]
        BY <2>1, <3>3 DEF rec_to_buffer, WithAddedData, Headers, RecordOf
      <4> QED
        BY <4>1, <4>2
    <3> QED
      BY <3>2, <3>3
  <2>2. CASE x = <<>>
    <3>1. ~v.hasCRC /\ v = [r EXCEPT !.hasSize = FALSE, !.hasCRC = FALSE]
      BY <2>2 DEF Headers, RecordOf
    <3> HIDE DEF v
    <3>2. Len(x) = 0
      BY <2>2
    <3>3. h = [r EXCEPT !.hasSize = FALSE, !.hasCRC = FALSE, !.AddedSize = 0, !.AddedDataCRC32 = <<>>]
      BY <3>1, <3>2 DEF Headers, RecordOf
    <3>4. rec_to_buffer(WithAddedData(r, x)) =
            [r EXCEPT !.hasSize = FALSE, !.hasCRC = FALSE, !.AddedSize = 0, !.AddedDataCRC32 = <<>>]
      BY <2>2 DEF rec_to_buffer, WithAddedData, Headers, RecordOf
    <3> QED
      BY <3>3, <3>4
  <2> QED
    BY <2>1, <2>2
<1> QED
  BY <1>1 DEF Log!Complete

(* Premises of the refinement.                                              *)
Loggable == Undisturbed /\ NoRecord \notin Headers

LEMMA PatchedCells ==
  ASSUME NEW S, NEW c \in Seq(S), NEW i \in Int, NEW h \in S
  PROVE  [c EXCEPT ![i] = h] \in Seq(S)
<1>1. c \in [1..Len(c) -> S] /\ Len(c) \in Nat
  OBVIOUS
<1>2. [c EXCEPT ![i] = h] \in [1..Len(c) -> S]
  BY <1>1
<1> QED
  BY <1>1, <1>2

LEMMA FinishedType ==
  ASSUME Undisturbed, NEW k, NEW s, Good(k, s), Sync(k, s)
  PROVE  Finished(k, s) \in Seq(Cells)
<1>1. s.cells \in Seq(Cells) /\ k \in Handles
  BY StreamFields
<1>2. CASE k.ParserState = "WRITE_ADDED_DATA"
  <2>1. [k.LastRecord EXCEPT !.AddedSize = k.ReadOrWritten,
                             !.AddedDataCRC32 = k.AddedDataCRC32] \in Headers
    BY <1>1 DEF Handles, Headers, RecordOf
  <2>2. EndedHeader(k) \in Cells
    BY <2>1, HeaderCell DEF EndedHeader, Undisturbed, Harmless, Steady
  <2>3. [s.cells EXCEPT ![k.RecordOffset + 1] = EndedHeader(k)] \in Seq(Cells)
    <3>1. k.RecordOffset + 1 \in Int
      BY <1>1 DEF Handles
    <3> QED
      BY <1>1, <2>2, <3>1, PatchedCells
  <2> QED
    BY <1>2, <2>3 DEF Finished
<1> QED
  BY <1>1, <1>2 DEF Finished

(* A call that ends a record or finds none open, and goes on to read.       *)
LEMMA EndsStep ==
  ASSUME Loggable, NEW k, NEW s, Good(k, s), Sync(k, s),
         NEW q, ~Writing(q), NEW t, t.cells = Finished(k, s)
  PROVE  LogStep(k, s, q, t)
<1>1. ClosedOf(k, s) = Finished(k, s) /\ Finished(k, s) \in Seq(Cells)
  BY ClosedIsFinished, FinishedType DEF Loggable
<1>2. Looks(q, t, t.cells, NoRecord, <<>>)
  BY <1>1, LooksClosed
<1> QED
  BY <1>1, <1>2 DEF LogStep, StepFrom

LEMMA WriteRecordStep ==
  ASSUME Loggable, NEW k, NEW s, Good(k, s), Sync(k, s),
         k.ParserState = "WRITE_ADDED_DATA" => Whole(k), NEW r \in NewRecords,
         NEW o \in KCF_write_record(k, s, r)
  PROVE  LogStep(k, s, o.kcf, o.io)
<1> DEFINE F == Finished(k, s)
           h == rec_to_buffer(r)
<1>1. /\ Undisturbed /\ Harmless /\ Steady /\ "alloc" \notin Faults
      /\ Fit(r) /\ r \in Headers /\ r.AddedDataCRC32 = <<>>
  BY NewRecordsFit DEF Loggable, Undisturbed, Harmless
<1>2. ClosedOf(k, s) = F /\ F \in Seq(Cells)
  BY ClosedIsFinished, FinishedType DEF Loggable
<1>3. h \in Cells
  BY <1>1, HeaderCell DEF Steady
<1>4. CASE ~MayWriteRecord(k)
  <2>1. o = Result(k, s, "INVALID_STATE")
    BY <1>4 DEF KCF_write_record, Refuse
  <2>2. Unseen(k, s, o.kcf, o.io)
    BY <2>1, SameUnseen DEF Result
  <2> QED
    BY <2>2, UnseenStep
<1>5. CASE o.ret \in Bad
  <2>1. k.ParserState = "WRITE_RECORD" /\ o.kcf.ParserState = "WRITE_RECORD" /\ o.io = s
    <3>1. k.ParserState = "WRITE_RECORD" /\ Failed(o, k, s)
      BY <1>1, <1>5, WriteRecordSync
    <3> QED
      BY <3>1 DEF Failed
  <2>2. Unseen(k, s, o.kcf, o.io)
    BY <2>1 DEF Unseen, Writing
  <2> QED
    BY <2>2, UnseenStep
<1>6. CASE MayWriteRecord(k) /\ o.ret \notin Bad
  <2>1. o.io.cells = F \o <<h>> /\ Opened(o.kcf, r, Len(F))
    BY <1>1, <1>6, WriteRecordSync
  <2> HIDE DEF F, h
  <2>2. CASE r.hasSize
    <3>1. Writing(o.kcf) /\ o.kcf.RecordOffset = Len(F) /\ o.kcf.LastRecord = r
      BY <1>1, <2>1, <2>2, CopyFields DEF Opened, Writing
    <3>2. Looks(o.kcf, o.io, F, r, <<>>)
      BY <1>2, <1>3, <2>1, <3>1, LooksOpened
    <3> QED
      BY <1>2, <2>2, <3>2 DEF LogStep, StepFrom
  <2>3. CASE ~r.hasSize
    <3>1. ~Writing(o.kcf)
      BY <2>1, <2>3 DEF Opened, Writing
    <3>2. F \o <<h>> \in Seq(Cells)
      BY <1>2, <1>3
    <3>3. Looks(o.kcf, o.io, F \o <<h>>, NoRecord, <<>>)
      BY <2>1, <3>1, <3>2, LooksClosed
    <3>4. Log!Complete(r, <<>>) = <<h>>
      BY <1>1, <2>3, BareRecord DEF h
    <3> QED
      BY <1>2, <2>3, <3>3, <3>4 DEF LogStep, StepFrom
  <2> QED
    BY <2>2, <2>3
<1> QED
  BY <1>4, <1>5, <1>6

LEMMA WithDataStep ==
  ASSUME Loggable, NEW k, NEW s, Good(k, s), Sync(k, s),
         k.ParserState = "WRITE_ADDED_DATA" => Whole(k), NEW r \in NewRecords, NEW x \in Chunks,
         NEW o \in KCF_write_record_with_added_data(k, s, r, x)
  PROVE  LogStep(k, s, o.kcf, o.io)
<1> DEFINE F == Finished(k, s)
           h == rec_to_buffer(WithAddedData(r, x))
           flagged == [r EXCEPT !.hasSize = x # <<>>, !.hasCRC = @ /\ x # <<>>]
<1>1. /\ Undisturbed /\ Harmless /\ Steady
      /\ r \in Headers /\ r.AddedDataCRC32 = <<>> /\ x \in Seq(Bytes)
  BY NewRecordsFit, ChunksType DEF Loggable, Undisturbed, Harmless
<1>2. ClosedOf(k, s) = F /\ F \in Seq(Cells)
  BY ClosedIsFinished, FinishedType DEF Loggable
<1>3. <<h>> \in Seq(Cells) /\ x \in Seq(Cells)
  BY <1>1, DataHeader, BytesCells DEF Steady
<1>4. CASE ~MayWriteRecord(k)
  <2>1. o = Result(k, s, "INVALID_STATE")
    BY <1>4 DEF KCF_write_record_with_added_data, Refuse
  <2>2. Unseen(k, s, o.kcf, o.io)
    BY <2>1, SameUnseen DEF Result
  <2> QED
    BY <2>2, UnseenStep
<1>5. CASE o.ret \in Bad
  <2>1. k.ParserState = "WRITE_RECORD" /\ o.kcf = k /\ o.io = s
    <3>1. r.hasCRC => r.AddedDataCRC32 = <<>>
      BY <1>1
    <3>2. /\ k.ParserState = "WRITE_RECORD" /\ o.kcf = k
          /\ Harmless => Failed(o, k, s)
      BY <1>1, <1>5, <3>1, WithDataSync
    <3> QED
      BY <1>1, <3>2 DEF Failed
  <2>2. Unseen(k, s, o.kcf, o.io)
    BY <2>1, SameUnseen
  <2> QED
    BY <2>2, UnseenStep
<1>6. CASE MayWriteRecord(k) /\ o.ret \notin Bad
  <2>1. o.kcf.ParserState = "WRITE_RECORD" /\ o.io.cells = (F \o <<h>>) \o x
    BY <1>1, <1>6, WithDataSync
  <2>2. Log!Complete(flagged, x) = <<h>> \o x
    BY <1>1, FilledRecord
  <2> HIDE DEF F, h, flagged
  <2>3. (F \o <<h>>) \o x = F \o (<<h>> \o x)
    BY <1>2, <1>3, ConcatAssociative
  <2>4. (F \o <<h>>) \o x \in Seq(Cells)
    BY <1>2, <1>3
  <2>5. ~Writing(o.kcf)
    BY <2>1 DEF Writing
  <2>6. Looks(o.kcf, o.io, F \o Log!Complete(flagged, x), NoRecord, <<>>)
    BY <2>1, <2>2, <2>3, <2>4, <2>5, LooksClosed
  <2> QED
    BY <1>2, <2>6 DEF LogStep, StepFrom, flagged
<1> QED
  BY <1>4, <1>5, <1>6

LEMMA AddedDataStep ==
  ASSUME Loggable, NEW k, NEW s, Good(k, s), Sync(k, s), NEW x \in Chunks,
         NEW o \in KCF_write_added_data(k, s, x)
  PROVE  LogStep(k, s, o.kcf, o.io)
<1> DEFINE y == Clipped(k, x)
<1>1. Undisturbed /\ Steady /\ x \in Seq(Bytes) /\ k \in Handles
  BY ChunksType, StreamFields DEF Loggable, Undisturbed, Harmless
<1>2. CASE o.kcf = k /\ o.io = s
  <2>1. Unseen(k, s, o.kcf, o.io)
    BY <1>2, SameUnseen
  <2> QED
    BY <2>1, UnseenStep
<1>3. CASE /\ k.ParserState = "WRITE_ADDED_DATA" /\ o.kcf.ParserState = "WRITE_ADDED_DATA"
           /\ o.kcf.RecordOffset = k.RecordOffset /\ o.kcf.LastRecord = k.LastRecord
           /\ o.io.cells = s.cells \o Clipped(k, x)
  <2>1. /\ k.AvailableOrToBeWritten > 0 => k.ReadOrWritten <= k.AvailableOrToBeWritten
        /\ k.AvailableOrToBeWritten = k.LastRecord.AddedSize
    BY <1>3, WriterFacts DEF HeaderKept, DataCounted
  <2>2. /\ y \in Seq(Bytes)
        /\ k.AvailableOrToBeWritten > 0 => k.ReadOrWritten + Len(y) <= k.AvailableOrToBeWritten
    BY <1>1, <2>1, ClippedFits
  <2>3. y \in Chunks
    BY <1>1, ClippedChunk
  <2>4. Writing(k) /\ Writing(o.kcf)
    BY <1>3 DEF Writing
  <2>5. Len(DataOf(k, s)) = k.ReadOrWritten
    BY <2>4, DataLength
  <2>6. OpenOf(k) = k.LastRecord /\ OpenOf(k) # NoRecord
    BY <1>1, <2>4 DEF OpenOf, Handles, Loggable
  <2> HIDE DEF y
  <2>7. Looks(o.kcf, o.io, ArchiveOf(k, s), OpenOf(k), DataOf(k, s) \o y)
    BY <1>3, <2>2, <2>4, LooksAdded DEF y
  <2>8. OpenOf(k).AddedSize > 0 => Len(DataOf(k, s)) + Len(y) <= OpenOf(k).AddedSize
    BY <2>1, <2>2, <2>5, <2>6
  <2> QED
    BY <2>3, <2>6, <2>7, <2>8 DEF LogStep, StepFrom
<1> QED
  BY <1>1, <1>2, <1>3, WriteAddedDataSync DEF Undisturbed

(* Calls that the log does not see.                                         *)
LEMMA RefusedUnseen ==
  ASSUME NEW k, NEW s, NEW o \in Refuse(k, s)
  PROVE  Unseen(k, s, o.kcf, o.io)
<1>1. o.kcf = k /\ o.io = s
  BY DEF Refuse, Result
<1> QED
  BY <1>1, SameUnseen

LEMMA ReadRecordUnseen ==
  ASSUME NEW k, NEW s, Good(k, s), NEW o \in KCF_read_record(k, s)
  PROVE  Unseen(k, s, o.kcf, o.io)
<1> DEFINE k0 == [k EXCEPT !.ReadOrWritten = 0, !.AvailableOrToBeWritten = 0,
                           !.AddedDataCRC32 = <<>>, !.ActualAddedDataCRC32 = <<>>]
<1>1. CASE k.ParserState # "READ_RECORD_HEADER"
  BY <1>1, RefusedUnseen DEF KCF_read_record
<1>2. CASE k.ParserState = "READ_RECORD_HEADER"
  <2>1. PICK hd \in read_record_header(k0, s) : o \in ReadBody(hd)
    BY <1>2 DEF KCF_read_record
  <2>2. Good(k0, s) /\ k0.ParserState = "READ_RECORD_HEADER"
    <3>1. <<>> \in Data
      BY EmptyType DEF Data
    <3> QED
      BY <1>2, <3>1 DEF Good, Handles
  <2> HIDE DEF k0
  <2>3. GoodHeader(hd) /\ hd.io.cells = s.cells
        /\ hd.kcf.ParserState \in {"READ_RECORD_HEADER", "READ_RECORD_DATA"}
    BY <2>1, <2>2, HeaderReadFields, HeaderNotRead, ReadHeaderType
  <2>4. o.io.cells = s.cells /\ o.kcf.ParserState # "WRITE_ADDED_DATA"
    <3>1. hd.kcf \in Handles
      BY <2>3 DEF GoodHeader, Good
    <3> DEFINE next == [hd.kcf EXCEPT !.ParserState = IF hd.header.hasSize THEN "READ_ADDED_DATA"
                                                                           ELSE "READ_RECORD_HEADER",
                                      !.AvailableOrToBeWritten = hd.header.AddedSize]
    <3>2. (\E e : o = Result(hd.kcf, hd.io, e)) \/ o = Result(next, hd.io, "OK")
      BY <2>1 DEF ReadBody, When
    <3>3. next.ParserState \in {"READ_ADDED_DATA", "READ_RECORD_HEADER"}
      BY <3>1 DEF Handles
    <3> HIDE DEF next
    <3> QED
      BY <2>3, <3>2, <3>3 DEF Result
  <2> QED
    BY <1>2, <2>4 DEF Unseen, Writing
<1> QED
  BY <1>1, <1>2

LEMMA SkipFileUnseen ==
  ASSUME NEW k, NEW s, Good(k, s), NEW o \in KCF_skip_file(k, s)
  PROVE  Unseen(k, s, o.kcf, o.io)
<1>1. CASE k.IsWriting
  BY <1>1, RefusedUnseen DEF KCF_skip_file
<1>2. CASE ~k.IsWriting
  <2>1. PICK f \in KCF_read_record(k, s) : o.kcf = f.kcf /\ o.io = f.io
    BY <1>2 DEF KCF_skip_file, Result
  <2>2. Unseen(k, s, f.kcf, f.io)
    BY ReadRecordUnseen
  <2> QED
    BY <2>1, <2>2
<1> QED
  BY <1>1, <1>2

LEMMA ReadAddedDataUnseen ==
  ASSUME NEW k, NEW s, Good(k, s), NEW n \in Nat, NEW o \in KCF_read_added_data(k, s, n)
  PROVE  Unseen(k, s, o.kcf, o.io)
<1> DEFINE m == AtMost(n, k.AvailableOrToBeWritten)
           q == [k EXCEPT !.AvailableOrToBeWritten = @ - m,
                          !.ActualAddedDataCRC32 = @ \o BytesAt(s, m),
                          !.ReadOrWritten = @ + m,
                          !.ParserState = IF k.AvailableOrToBeWritten = m THEN "READ_RECORD_HEADER" ELSE @]
           done == [k EXCEPT !.ParserState = "READ_RECORD_HEADER"]
<1>1. CASE k.ParserState # "READ_ADDED_DATA"
  BY <1>1, RefusedUnseen DEF KCF_read_added_data
<1>2. CASE k.ParserState = "READ_ADDED_DATA"
  <2>1. \/ o = Result(done, s, "OK") \/ o = Result(k, s, "CRASHED")
        \/ \E got : o = Result(k, Ahead(s, got), "READ")
        \/ o = Result(q, Ahead(s, m), "OK")
    BY <1>2 DEF KCF_read_added_data, When
  <2>2. k \in Handles /\ s \in Streams
    BY DEF Good, GoodStreams
  <2>3. \A got : Ahead(s, got).cells = s.cells
    BY <2>2, AheadAlike DEF Alike
  <2>4. done.ParserState # "WRITE_ADDED_DATA" /\ q.ParserState # "WRITE_ADDED_DATA"
    <3> HIDE DEF m
    <3> QED
      BY <1>2, <2>2 DEF Handles
  <2> HIDE DEF m, q, done
  <2>5. o.io.cells = s.cells /\ o.kcf.ParserState # "WRITE_ADDED_DATA"
    BY <1>2, <2>1, <2>3, <2>4 DEF Result
  <2> QED
    BY <1>2, <2>5 DEF Unseen, Writing
<1> QED
  BY <1>1, <1>2

LEMMA FindMarkerUnseen ==
  ASSUME NEW k, NEW s, Good(k, s), NEW o \in KCF_find_marker(k, s)
  PROVE  Unseen(k, s, o.kcf, o.io)
<1> DEFINE At(p) == Seek(s, p)
           q == [k EXCEPT !.ParserState = "READ_RECORD_HEADER"]
<1>1. CASE k.IsWriting \/ k.ParserState # "READ_MARKER"
  BY <1>1, RefusedUnseen DEF KCF_find_marker
<1>2. CASE ~k.IsWriting /\ k.ParserState = "READ_MARKER"
  <2>1. \/ \E p : o = Result(q, At(p), "OK")
        \/ \E p, e : o = Result(k, At(p), e)
    BY <1>2 DEF KCF_find_marker, When
  <2>2. k \in Handles /\ s \in Streams
    BY DEF Good, GoodStreams
  <2>3. \A p : At(p).cells = s.cells
    BY <2>2, SeekFields
  <2>4. q.ParserState # "WRITE_ADDED_DATA"
    BY <2>2 DEF Handles
  <2> HIDE DEF q, At
  <2>5. o.io.cells = s.cells /\ o.kcf.ParserState # "WRITE_ADDED_DATA"
    BY <1>2, <2>1, <2>3, <2>4 DEF Result
  <2> QED
    BY <1>2, <2>5 DEF Unseen, Writing
<1> QED
  BY <1>1, <1>2

(* The switch to writing is not seen, and that to reading ends a record.    *)
LEMMA StartWritingUnseen ==
  ASSUME NEW k, NEW s, Good(k, s), NEW o \in KCF_start_writing(k, s)
  PROVE  /\ Unseen(k, s, o.kcf, o.io) /\ (Writing(o.kcf) => o.kcf = k)
         /\ o.io = s
<1> DEFINE Into(p) == [k EXCEPT !.ParserState = p]
<1>1. k \in Handles /\ ~Into("WRITE_MARKER").IsWriting
  BY DEF Good, Handles
<1>2. \/ o = Result(Into("WRITE_MARKER"), s, "INVALID_STATE") /\ ~Writing(k)
      \/ o = Result(Into("WRITE_RECORD"), s, "OK") /\ ~Writing(k)
      \/ o = Result(k, s, "INVALID_STATE") \/ o = Result(k, s, "OK")
  BY <1>1 DEF KCF_start_writing, KCF_write_marker, Refuse, Writing
<1>3. Into("WRITE_MARKER").ParserState = "WRITE_MARKER" /\ Into("WRITE_RECORD").ParserState = "WRITE_RECORD"
  BY <1>1 DEF Handles
<1> HIDE DEF Into
<1>4. o.io = s /\ (o.kcf = k \/ (~Writing(k) /\ ~Writing(o.kcf)))
  BY <1>2, <1>3 DEF Result, Writing
<1> QED
  BY <1>4 DEF Unseen, Writing

LEMMA StartReadingStep ==
  ASSUME Loggable, NEW k, NEW s, Good(k, s), Sync(k, s),
         k.ParserState = "WRITE_ADDED_DATA" => Whole(k),
         NEW o \in KCF_start_reading(k, s)
  PROVE  LogStep(k, s, o.kcf, o.io)
<1>1. k \in Handles /\ Harmless /\ Steady
  BY DEF Good, Loggable, Undisturbed, Harmless
<1>2. CASE k.ParserState # "WRITE_ADDED_DATA"
  <2>1. \/ o = Result(k, s, "OK") \/ o = Result(k, s, "UNKNOWN")
        \/ \E p \in {"READ_MARKER", "READING", "READ_RECORD_HEADER"} :
             o = Result([k EXCEPT !.ParserState = p], s, "OK")
    BY <1>1, <1>2 DEF KCF_start_reading, Flushed, When
  <2>2. o.io = s /\ o.kcf.ParserState # "WRITE_ADDED_DATA"
    BY <1>1, <1>2, <2>1 DEF Result, Handles
  <2>3. Unseen(k, s, o.kcf, o.io)
    BY <1>2, <2>2 DEF Unseen, Writing
  <2> QED
    BY <2>3, UnseenStep
<1>3. CASE k.ParserState = "WRITE_ADDED_DATA"
  <2>1. PICK f \in KCF_finish_added_data(k, s) : o \in IF f.ret = "OK" THEN Flushed(f.kcf, f.io) ELSE {f}
    BY <1>3 DEF KCF_start_reading
  <2>2. Ended(f) /\ f.io.cells = Finished(k, s) /\ GoodOutcome(f)
    BY <1>1, <1>3, <2>1, FinishSucceeds, FinishSync, FinishType
  <2> DEFINE q == [f.kcf EXCEPT !.ParserState = "READ_RECORD_HEADER"]
  <2>3. o = Result(q, f.io, "OK") \/ o = Result(f.kcf, f.io, "UNKNOWN")
    BY <2>1, <2>2 DEF Ended, Flushed, When
  <2>4. /\ o.io.cells = Finished(k, s)
        /\ o.kcf.ParserState \in {"READ_RECORD_HEADER", "WRITE_RECORD"}
    <3>1. f.kcf.ParserState = "WRITE_RECORD" /\ f.kcf \in Handles
      BY <2>2 DEF Ended, GoodOutcome, Good
    <3>2. q.ParserState = "READ_RECORD_HEADER"
      BY <3>1 DEF Handles
    <3>3. o.io = f.io /\ (o.kcf = q \/ o.kcf = f.kcf)
      BY <2>3 DEF Result
    <3> HIDE DEF q
    <3> QED
      BY <2>2, <3>1, <3>2, <3>3
  <2>5. ~Writing(o.kcf)
    BY <2>4 DEF Writing
  <2> QED
    BY <2>4, <2>5, EndsStep
<1> QED
  BY <1>2, <1>3

LEMMA FinishStep ==
  ASSUME Loggable, NEW k, NEW s, Good(k, s), Sync(k, s),
         k.ParserState = "WRITE_ADDED_DATA" => Whole(k),
         NEW o \in KCF_finish_added_data(k, s)
  PROVE  LogStep(k, s, o.kcf, o.io)
<1>1. CASE k.ParserState # "WRITE_ADDED_DATA"
  <2>1. Unseen(k, s, o.kcf, o.io)
    BY <1>1, RefusedUnseen DEF KCF_finish_added_data
  <2> QED
    BY <2>1, UnseenStep
<1>2. CASE k.ParserState = "WRITE_ADDED_DATA"
  <2>1. Ended(o) /\ o.io.cells = Finished(k, s)
    BY <1>2, FinishSucceeds, FinishSync DEF Loggable, Undisturbed, Harmless
  <2>2. ~Writing(o.kcf)
    BY <2>1 DEF Ended, Writing
  <2> QED
    BY <2>1, <2>2, EndsStep
<1> QED
  BY <1>1, <1>2

LEMMA InitArchiveStep ==
  ASSUME Loggable, NEW k, NEW s, Good(k, s), Sync(k, s), Startable(k, s),
         k.ParserState = "WRITE_ADDED_DATA" => Whole(k), NEW p \in Payloads,
         NEW o \in KCF_init_archive(k, s, p)
  PROVE  LogStep(k, s, o.kcf, o.io)
<1> DEFINE header == [ZeroRecord EXCEPT !.payload = p]
<1>1. header \in NewRecords
  BY DEF ZeroRecord, NewRecords, RecordOf
<1>2. PICK f \in KCF_start_writing(k, s) :
        IF f.ret = "OK" THEN \/ o \in KCF_write_record(f.kcf, f.io, header)
                             \/ o = Result(f.kcf, f.io, "CRASHED")
                        ELSE o = f
  BY DEF KCF_init_archive, KCF_write_archive_header, When
<1> HIDE DEF header
<1>3. /\ Unseen(k, s, f.kcf, f.io) /\ (Writing(f.kcf) => f.kcf = k)
      /\ Good(f.kcf, f.io) /\ Sync(f.kcf, f.io)
  BY StartWritingUnseen, StartWritingFine, StartWritingType DEF Fine, GoodOutcome, Loggable
<1>4. CASE f.ret # "OK"
  <2>1. o = f
    BY <1>2, <1>4
  <2>2. LogStep(k, s, f.kcf, f.io)
    BY <1>3, UnseenStep
  <2> QED
    BY <2>1, <2>2
<1>5. CASE f.ret = "OK"
  <2>1. f.kcf.ParserState = "WRITE_ADDED_DATA" => Whole(f.kcf)
    BY <1>3 DEF Writing
  <2>2. CASE o \in KCF_write_record(f.kcf, f.io, header)
    <3>1. LogStep(f.kcf, f.io, o.kcf, o.io)
      BY <1>1, <1>3, <2>1, <2>2, WriteRecordStep
    <3> QED
      BY <1>3, <3>1, StepAfterUnseen
  <2>3. CASE o = Result(f.kcf, f.io, "CRASHED")
    <3>1. LogStep(k, s, f.kcf, f.io)
      BY <1>3, UnseenStep
    <3> QED
      BY <2>3, <3>1 DEF Result
  <2> QED
    BY <1>2, <1>5, <2>2, <2>3
<1> QED
  BY <1>4, <1>5

(***************************************************************************)
(* Steps.                                                                   *)
(***************************************************************************)
LEMMA ReturnLogged ==
  ASSUME NEW op, NEW outcomes, NEW ack, Return(op, outcomes, ack),
         \A o \in outcomes : LogStep(kcf, io, o.kcf, o.io)
  PROVE  LogStep(kcf, io, kcf', io')
BY DEF Return

LEMMA ReturnUnseen ==
  ASSUME NEW op, NEW outcomes, NEW ack, Return(op, outcomes, ack),
         \A o \in outcomes : Unseen(kcf, io, o.kcf, o.io)
  PROVE  LogStep(kcf, io, kcf', io')
BY UnseenStep DEF Return

LEMMA SkipLogged ==
  ASSUME TypeOK, ~Idle => kcf.ParserState \in {"READ_RECORD_DATA", "READ_ADDED_DATA"},
         KCF_skip_record \/ SkipStep
  PROVE  Unseen(kcf, io, kcf', io')
<1>1. Good(kcf, io)
  BY TypeOKGood
<1>2. CASE KCF_skip_record
  <2>1. CASE kcf' = kcf /\ io' = io
    BY <2>1, SameUnseen
  <2>2. CASE ~(kcf' = kcf /\ io' = io)
    <3>1. kcf.ParserState = "READ_RECORD_HEADER"
      BY <1>2, <2>2 DEF KCF_skip_record, SkipBegins, SkipReturns
    <3>2. PICK hd \in read_record_header(kcf, io) : SkipFromHeader(hd)
      BY <1>2, <3>1 DEF KCF_skip_record
    <3>3. /\ hd.kcf.ParserState \in {"READ_RECORD_HEADER", "READ_RECORD_DATA"}
          /\ hd.io.cells = io.cells
      BY <1>1, <3>1, <3>2, HeaderReadFields, HeaderNotRead
    <3>4. kcf' = hd.kcf /\ io' = hd.io
      BY <3>2 DEF SkipFromHeader, SkipReturns, SkipBegins
    <3> QED
      BY <3>1, <3>3, <3>4 DEF Unseen, Writing
  <2> QED
    BY <2>1, <2>2
<1>3. CASE SkipStep
  <2>1. io'.cells = io.cells
    BY <1>1, <1>3, SkipStepMoves DEF Alike, Good, GoodStreams
  <2>2. kcf.ParserState \in {"READ_RECORD_DATA", "READ_ADDED_DATA"}
    BY <1>3 DEF SkipStep
  <2>3. kcf' = kcf
    BY <1>3 DEF SkipStep, SkipDone, IO_skip_ret
  <2> QED
    BY <2>1, <2>2, <2>3 DEF Unseen, Writing
<1> QED
  BY <1>2, <1>3

LEMMA StepLogged ==
  ASSUME Loggable, IInv, [Next]_vars
  PROVE  LogStep(kcf, io, kcf', io')
<1>1. Undisturbed /\ TypeOK /\ Good(kcf, io) /\ Sync(kcf, io)
  BY TypeOKGood DEF IInv, Loggable
<1>2. CASE StartReading
  BY <1>1, <1>2, Careful, ReturnLogged, StartReadingStep DEF StartReading
<1>3. CASE StartWriting
  BY <1>1, <1>3, ReturnUnseen, StartWritingUnseen DEF StartWriting
<1>4. CASE InitArchive
  BY <1>1, <1>4, Careful, ReturnLogged, InitArchiveStep DEF InitArchive, MayBeginRecord
<1>5. CASE FindMarker
  BY <1>1, <1>5, ReturnUnseen, FindMarkerUnseen DEF FindMarker
<1>6. CASE ReadRecord
  BY <1>1, <1>6, ReturnUnseen, ReadRecordUnseen DEF ReadRecord
<1>7. CASE ReadAddedData
  <2>1. PICK n \in 0..MaxChunk :
          Return("read_added_data", KCF_read_added_data(kcf, io, n), "none")
    BY <1>7 DEF ReadAddedData
  <2>2. n \in Nat
    BY ConstantsOK
  <2> QED
    BY <1>1, <2>1, <2>2, ReturnUnseen, ReadAddedDataUnseen
<1>8. CASE KCF_skip_record \/ SkipStep
  BY <1>1, <1>8, SkipLogged, UnseenStep DEF IInv
<1>9. CASE WriteMarker
  <2>1. ~kcf.IsWriting
    BY <1>1 DEF Good, Handles
  <2>2. \A o \in KCF_write_marker(kcf, io) : Unseen(kcf, io, o.kcf, o.io)
    BY <2>1, RefusedUnseen DEF KCF_write_marker
  <2> QED
    BY <1>9, <2>2, ReturnUnseen DEF WriteMarker
<1>10. CASE WriteRecord
  <2>1. PICK r \in NewRecords :
          Return("write_record", KCF_write_record(kcf, io, r), IF r.hasSize THEN "before" ELSE "all")
    BY <1>10 DEF WriteRecord
  <2>2. kcf.ParserState = "WRITE_ADDED_DATA" => Whole(kcf)
    BY <1>1, <1>10, Careful DEF WriteRecord, MayBeginRecord
  <2>3. \A o \in KCF_write_record(kcf, io, r) : LogStep(kcf, io, o.kcf, o.io)
    BY <1>1, <2>2, WriteRecordStep
  <2> QED
    BY <2>1, <2>3, ReturnLogged
<1>11. CASE WriteRecordWithAddedData
  <2>1. PICK r \in NewRecords, x \in Chunks :
          Return("write_record_with_added_data",
                 KCF_write_record_with_added_data(kcf, io, r, x), "all")
    BY <1>11 DEF WriteRecordWithAddedData
  <2>2. kcf.ParserState = "WRITE_ADDED_DATA" => Whole(kcf)
    BY <1>1, <1>11, Careful DEF WriteRecordWithAddedData, MayBeginRecord
  <2>3. \A o \in KCF_write_record_with_added_data(kcf, io, r, x) : LogStep(kcf, io, o.kcf, o.io)
    BY <1>1, <2>2, WithDataStep
  <2> QED
    BY <2>1, <2>3, ReturnLogged
<1>12. CASE WriteAddedData
  <2>1. PICK x \in Chunks : Return("write_added_data", KCF_write_added_data(kcf, io, x), "none")
    BY <1>12 DEF WriteAddedData
  <2>2. \A o \in KCF_write_added_data(kcf, io, x) : LogStep(kcf, io, o.kcf, o.io)
    BY <1>1, AddedDataStep
  <2> QED
    BY <2>1, <2>2, ReturnLogged
<1>13. CASE FinishAddedData
  BY <1>1, <1>13, Careful, ReturnLogged, FinishStep DEF FinishAddedData
<1>14. CASE FileCall
  <2>1. \A o \in FileCallRefused(kcf, io) : Unseen(kcf, io, o.kcf, o.io)
    BY RefusedUnseen DEF FileCallRefused, When
  <2> QED
    BY <1>14, <2>1, ReturnUnseen DEF FileCall
<1>15. CASE SkipFile
  BY <1>1, <1>15, ReturnUnseen, SkipFileUnseen DEF SkipFile
<1>16. CASE Reopen
  <2>1. kcf.ParserState # "WRITE_ADDED_DATA"
    BY <1>1, <1>16 DEF Reopen, IInv, Bad, Undisturbed
  <2>2. kcf'.ParserState = "NEUTRAL"
    BY <1>16 DEF Reopen, NewHandle
  <2>3. io'.cells = io.cells
    BY <1>1, <1>16, SeekFields DEF Reopen, Good, GoodStreams
  <2>4. Unseen(kcf, io, kcf', io')
    BY <2>1, <2>2, <2>3 DEF Unseen, Writing
  <2> QED
    BY <2>4, UnseenStep
<1>17. CASE UNCHANGED vars
  <2>1. Unseen(kcf, io, kcf', io')
    BY <1>17, SameUnseen DEF vars
  <2> QED
    BY <2>1, UnseenStep
<1> QED
  BY <1>2, <1>3, <1>4, <1>5, <1>6, <1>7, <1>8, <1>9, <1>10, <1>11, <1>12, <1>13, <1>14,
     <1>15, <1>16, <1>17 DEF Next

LEMMA InitLogged ==
  ASSUME Init
  PROVE  Log!Init
<1>1. kcf.ParserState = "NEUTRAL" /\ io.cells \in InitialStreams
  BY DEF Init, NewHandle
<1>2. io.cells \in Seq(Cells)
  BY <1>1, StreamsOK DEF Cells
<1>3. SubSeq(io.cells, 1, Len(io.cells)) = io.cells
  BY <1>2, SubSeqFull
<1> QED
  BY <1>1, <1>3 DEF Log!Init, IsOpen, Settled

(* Every call of the library appends whole records, adds to the one that is *)
(* open, ends it, or leaves the archive as it is: for all bytes, payloads,  *)
(* announced sizes, bounds and archives to begin with.                      *)
THEOREM HandleImplementsLog ==
  ASSUME Loggable
  PROVE  Spec => ImplementsLog
<1>1. Init => Log!Init
  BY InitLogged
<1>2. IInv /\ [Next]_vars => [Log!Next]_(Log!vars)
  BY StepLogged, StepOfLog
<1>3. Spec => []IInv
  BY SyncKept DEF Loggable
<1> QED
  BY <1>1, <1>2, <1>3, PTL DEF Spec, ImplementsLog, Log!Spec

(***************************************************************************)
(* The log when calls fail, for a diligent caller.                          *)
(***************************************************************************)
(* Handle k, on which calls have gone as h says, holds an open record.      *)
Held(k, h) == Writing(k) /\ h = "sound"

(* The header of the open record as it is in the stream.                    *)
OnFile(k, s) == s.cells[k.RecordOffset + 1]

Sees(q, t, g, archive, open, data) ==
  IF Held(q, g) THEN ArchiveOf(q, t) = archive /\ OnFile(q, t) = open /\ DataOf(q, t) = data
                ELSE t.cells = archive /\ open = NoRecord /\ data = <<>>

(* From an archive without an open record.                                  *)
ShutStep(archive, q, t, g) ==
  \/ Sees(q, t, g, archive, NoRecord, <<>>)
  \/ \E r \in NewRecords : r.hasSize /\ Sees(q, t, g, archive, r, <<>>)
  \/ \E r \in NewRecords :
       ~r.hasSize /\ Sees(q, t, g, archive \o Fallible!Complete(r, <<>>), NoRecord, <<>>)
  \/ \E r \in NewRecords, x \in Chunks :
       LET whole == Fallible!Complete(Fallible!Flagged(r, x), x)
       IN  \/ Sees(q, t, g, archive \o whole, NoRecord, <<>>)
           \/ \E n \in 1..(Len(x) + 1) :
                Sees(q, t, g, archive \o SubSeq(whole, 1, n), NoRecord, <<>>)

(* And with one, which is ended before another is begun.                    *)
OpenStep(archive, open, data, q, t, g) ==
  \/ Sees(q, t, g, archive, open, data)
  \/ Sees(q, t, g, archive \o Fallible!Complete(open, data), NoRecord, <<>>)
  \/ \E x \in Chunks :
       /\ open.AddedSize > 0 => Len(data) + Len(x) <= open.AddedSize
       /\ \/ Sees(q, t, g, archive, open, data \o x)
          \/ Sees(q, t, g, archive \o (<<open>> \o (data \o x)), NoRecord, <<>>)

FallibleStep(k, s, h, q, t, g) ==
  IF Held(k, h) THEN OpenStep(ArchiveOf(k, s), OnFile(k, s), DataOf(k, s), q, t, g)
                ELSE ShutStep(s.cells, q, t, g)

LEMMA SeesNow ==
  ASSUME NEW archive, NEW open, NEW data,
         Sees(kcf', io', call'.handle, archive, open, data)
  PROVE  CellsBefore' = archive /\ HeaderHeld' = open /\ DataHeld' = data
BY DEF Sees, Held, HoldsRecord, IsOpen, Writing, ArchiveOf, OnFile, DataOf, SettledAt,
       CellsBefore, HeaderHeld, DataHeld

LEMMA OpenStepOfLog ==
  ASSUME HoldsRecord, OnFile(kcf, io) # NoRecord,
         OpenStep(ArchiveOf(kcf, io), OnFile(kcf, io), DataOf(kcf, io), kcf', io', call'.handle)
  PROVE  [Fallible!NextOrBreak]_(Fallible!vars)
<1> DEFINE archive == ArchiveOf(kcf, io)
           open == OnFile(kcf, io)
           data == DataOf(kcf, io)
<1>1. CellsBefore = archive /\ HeaderHeld = open /\ DataHeld = data /\ open # NoRecord
  BY DEF HoldsRecord, IsOpen, Writing, ArchiveOf, OnFile, DataOf, SettledAt,
         CellsBefore, HeaderHeld, DataHeld
<1> HIDE DEF archive, open, data
<1>2. CASE Sees(kcf', io', call'.handle, archive, open, data)
  BY <1>1, <1>2, SeesNow DEF Fallible!vars
<1>3. CASE Sees(kcf', io', call'.handle, archive \o Fallible!Complete(open, data), NoRecord, <<>>)
  <2> DEFINE whole == archive \o Fallible!Complete(open, data)
  <2>1. Fallible!Closed = whole
    BY <1>1 DEF Fallible!Closed
  <2>2. CellsBefore' = whole /\ HeaderHeld' = NoRecord /\ DataHeld' = <<>>
    BY <1>3, SeesNow
  <2> HIDE DEF whole
  <2>3. Fallible!End
    BY <2>1, <2>2 DEF Fallible!End
  <2> QED
    BY <2>3 DEF Fallible!Next, Fallible!NextOrBreak
<1>4. ASSUME NEW x \in Chunks, open.AddedSize > 0 => Len(data) + Len(x) <= open.AddedSize,
             Sees(kcf', io', call'.handle, archive \o (<<open>> \o (data \o x)), NoRecord, <<>>)
      PROVE  Fallible!NextOrBreak
  <2>1. /\ CellsBefore' = archive \o (<<open>> \o (data \o x))
        /\ HeaderHeld' = NoRecord /\ DataHeld' = <<>>
    BY <1>4, SeesNow
  <2>2. Fallible!Fits(x)
    BY <1>1, <1>4 DEF Fallible!Fits
  <2>3. Fallible!BreakOpen
    BY <1>1, <2>1, <2>2 DEF Fallible!BreakOpen
  <2> QED
    BY <2>1, <2>3 DEF Fallible!Break, Fallible!NextOrBreak
<1>5. ASSUME NEW x \in Chunks, open.AddedSize > 0 => Len(data) + Len(x) <= open.AddedSize,
             Sees(kcf', io', call'.handle, archive, open, data \o x)
      PROVE  Fallible!NextOrBreak
  <2>1. Fallible!Add(x)
    BY <1>1, <1>5, SeesNow DEF Fallible!Add, Fallible!Fits
  <2> QED
    BY <2>1 DEF Fallible!Next, Fallible!NextOrBreak
<1>6. OpenStep(archive, open, data, kcf', io', call'.handle)
  BY DEF archive, open, data
<1> QED
  BY <1>2, <1>3, <1>4, <1>5, <1>6 DEF OpenStep

LEMMA ShutStepOfLog ==
  ASSUME ~HoldsRecord, ShutStep(io.cells, kcf', io', call'.handle)
  PROVE  [Fallible!NextOrBreak]_(Fallible!vars)
<1> DEFINE Next1 == Fallible!NextOrBreak
<1>6. CellsBefore = io.cells /\ HeaderHeld = NoRecord /\ DataHeld = <<>>
  BY DEF CellsBefore, HeaderHeld, DataHeld
<1>1. CASE Sees(kcf', io', call'.handle, io.cells, NoRecord, <<>>)
  BY <1>1, <1>6, SeesNow DEF Fallible!vars
<1>2. ASSUME NEW r \in NewRecords, r.hasSize, Sees(kcf', io', call'.handle, io.cells, r, <<>>)
      PROVE  Next1
  <2>1. Fallible!Begin(r)
    BY <1>2, <1>6, SeesNow DEF Fallible!Begin, Fallible!Closed
  <2> QED
    BY <2>1 DEF Fallible!Next, Fallible!NextOrBreak
<1>3. ASSUME NEW r \in NewRecords, ~r.hasSize,
             Sees(kcf', io', call'.handle, io.cells \o Fallible!Complete(r, <<>>), NoRecord, <<>>)
      PROVE  Next1
  <2>1. Fallible!AppendBare(r)
    BY <1>3, <1>6, SeesNow DEF Fallible!AppendBare, Fallible!Closed
  <2> QED
    BY <2>1 DEF Fallible!Next, Fallible!NextOrBreak
<1>4. ASSUME NEW r \in NewRecords, NEW x \in Chunks,
             NEW whole, whole = Fallible!Complete(Fallible!Flagged(r, x), x),
             Sees(kcf', io', call'.handle, io.cells \o whole, NoRecord, <<>>)
      PROVE  Next1
  <2>1. Fallible!Append1(r, x)
    BY <1>4, <1>6, SeesNow DEF Fallible!Append1, Fallible!Closed
  <2> QED
    BY <2>1 DEF Fallible!Next, Fallible!NextOrBreak
<1>5. ASSUME NEW r \in NewRecords, NEW x \in Chunks,
             NEW whole, whole = Fallible!Complete(Fallible!Flagged(r, x), x),
             NEW n \in 1..(Len(x) + 1),
             Sees(kcf', io', call'.handle, io.cells \o SubSeq(whole, 1, n), NoRecord, <<>>)
      PROVE  Next1
  <2>1. CellsBefore' = io.cells \o SubSeq(whole, 1, n) /\ HeaderHeld' = NoRecord /\ DataHeld' = <<>>
    BY <1>5, SeesNow
  <2>2. Fallible!BreakAtOnce
    BY <1>5, <1>6, <2>1 DEF Fallible!BreakAtOnce
  <2> QED
    BY <2>1, <2>2 DEF Fallible!Break, Fallible!NextOrBreak
<1> QED
  BY <1>1, <1>2, <1>3, <1>4, <1>5 DEF ShutStep

LEMMA StepOfFallible ==
  ASSUME Held(kcf, call.handle) => OnFile(kcf, io) # NoRecord,
         FallibleStep(kcf, io, call.handle, kcf', io', call'.handle)
  PROVE  [Fallible!NextOrBreak]_(Fallible!vars)
<1>1. Held(kcf, call.handle) <=> HoldsRecord
  BY DEF Held, HoldsRecord, IsOpen, Writing
<1> QED
  BY <1>1, OpenStepOfLog, ShutStepOfLog DEF FallibleStep

LEMMA SameComplete ==
  ASSUME NEW r, NEW d
  PROVE  Fallible!Complete(r, d) = Log!Complete(r, d)
BY DEF Fallible!Complete, Log!Complete

(* What is seen of a record that has been opened, or gone on with.          *)
LEMMA SeesOpened ==
  ASSUME NEW c \in Seq(Cells), NEW h \in Cells,
         NEW q, Writing(q), q.RecordOffset = Len(c),
         NEW t, t.cells = c \o <<h>>
  PROVE  Sees(q, t, "sound", c, h, <<>>)
<1>1. Looks(q, t, c, q.LastRecord, <<>>)
  BY LooksOpened
<1>2. t.cells[Len(c) + 1] = h
  BY AppendedOne
<1> QED
  BY <1>1, <1>2 DEF Sees, Held, Looks, OnFile

LEMMA SeesAdded ==
  ASSUME NEW k, NEW s, Good(k, s), Sync(k, s), Writing(k), NEW y \in Seq(Bytes),
         NEW q, Writing(q), q.RecordOffset = k.RecordOffset, q.LastRecord = k.LastRecord,
         NEW t, t.cells = s.cells \o y
  PROVE  Sees(q, t, "sound", ArchiveOf(k, s), OnFile(k, s), DataOf(k, s) \o y)
<1>1. Looks(q, t, ArchiveOf(k, s), OpenOf(k), DataOf(k, s) \o y)
  BY LooksAdded
<1>2. s.cells \in Seq(Cells) /\ y \in Seq(Cells)
  BY StreamFields, BytesCells
<1>3. k.RecordOffset + 1 \in 1..Len(s.cells)
  <2>1. /\ k.RecordOffset \in Nat \ {0} /\ k.ReadOrWritten \in Nat
        /\ Len(s.cells) = k.RecordOffset + 1 + k.ReadOrWritten
    BY WriterFacts DEF Writing
  <2> QED
    BY <2>1
<1>4. t.cells[k.RecordOffset + 1] = s.cells[k.RecordOffset + 1]
  BY <1>2, <1>3, AppendedCells
<1> QED
  BY <1>1, <1>4 DEF Sees, Held, Looks, OnFile

(* The open record as it lies in the file.                                  *)
LEMMA OpenOnFile ==
  ASSUME NEW k, NEW s, Good(k, s), Sync(k, s), Writing(k)
  PROVE  /\ \A h \in Cells : ArchiveOf(k, s) \o (<<h>> \o DataOf(k, s))
                               = [s.cells EXCEPT ![k.RecordOffset + 1] = h]
         /\ OnFile(k, s) \in Cells /\ OnFile(k, s) \in Headers
         /\ ArchiveOf(k, s) \o (<<OnFile(k, s)>> \o DataOf(k, s)) = s.cells
<1> DEFINE c == s.cells
           n == k.RecordOffset
<1>1. /\ c \in Seq(Cells) /\ n \in Nat \ {0} /\ k.ReadOrWritten \in Nat
      /\ Len(c) = n + 1 + k.ReadOrWritten
  BY StreamFields, WriterFacts DEF Writing
<1>2. n \in Nat /\ n + 1 <= Len(c)
  BY <1>1
<1>3. ArchiveOf(k, s) = SubSeq(c, 1, n) /\ DataOf(k, s) = SubSeq(c, n + 2, Len(c))
  BY DEF ArchiveOf, DataOf, SettledAt, Writing
<1>4. OnFile(k, s) \in Cells /\ OnFile(k, s) \in Headers
  BY KeptHeader, HeaderFields DEF OnFile, Writing
<1>5. OnFile(k, s) = c[n + 1]
  BY DEF OnFile
<1> HIDE DEF c, n
<1>6. ASSUME NEW h \in Cells
      PROVE  SubSeq(c, 1, n) \o (<<h>> \o SubSeq(c, n + 2, Len(c))) = [c EXCEPT ![n + 1] = h]
  BY <1>1, <1>2, Replaced
<1>7. [c EXCEPT ![n + 1] = c[n + 1]] = c
  BY <1>1
<1>8. SubSeq(c, 1, n) \o (<<c[n + 1]>> \o SubSeq(c, n + 2, Len(c))) = c
  BY <1>4, <1>5, <1>6, <1>7
<1> QED
  BY <1>3, <1>4, <1>5, <1>6, <1>8 DEF c, n

(***************************************************************************)
(* Calls of a diligent caller.                                              *)
(***************************************************************************)
HandleAfter(o) == IF o.ret \in Bad THEN "failed" ELSE "sound"

Moves(k, s, o) == FallibleStep(k, s, "sound", o.kcf, o.io, HandleAfter(o))

(* The data that the open record may still get.                             *)
LEMMA DataFits ==
  ASSUME NEW k, NEW s, Good(k, s), Sync(k, s), Writing(k), NEW x \in Seq(Bytes),
         k.AvailableOrToBeWritten > 0 => k.ReadOrWritten + Len(x) <= k.AvailableOrToBeWritten
  PROVE  OnFile(k, s).AddedSize > 0 => Len(DataOf(k, s)) + Len(x) <= OnFile(k, s).AddedSize
<1>1. OnFile(k, s).AddedSize = k.AvailableOrToBeWritten
  BY KeptHeader DEF Writing, OnFile
<1> QED
  BY <1>1, DataLength

(* A call that fails and has written some of the data that the open record  *)
(* may get leaves all of that.                                              *)
LEMMA BrokenMoves ==
  ASSUME NEW k, NEW s, Good(k, s), Sync(k, s), Writing(k), NEW x \in Chunks,
         k.AvailableOrToBeWritten > 0 => k.ReadOrWritten + Len(x) <= k.AvailableOrToBeWritten,
         NEW o, o.ret \in Bad, o.io.cells = s.cells \o x
  PROVE  Moves(k, s, o)
<1> DEFINE a == ArchiveOf(k, s)
           b == <<OnFile(k, s)>>
           d == DataOf(k, s)
<1>1. HandleAfter(o) = "failed" /\ ~Held(o.kcf, "failed")
  BY DEF HandleAfter, Held
<1>2. x \in Seq(Bytes) /\ x \in Seq(Cells)
  BY ChunksType, BytesCells
<1>3. a \o (b \o d) = s.cells /\ b \in Seq(Cells)
  BY OpenOnFile
<1>4. a \in Seq(Cells) /\ d \in Seq(Cells)
  <2>1. s.cells \in Seq(Cells) /\ k.RecordOffset \in Nat \ {0} /\ k.RecordOffset <= Len(s.cells)
    BY StreamFields, WriterFacts DEF Writing
  <2> QED
    BY <2>1 DEF ArchiveOf, DataOf, SettledAt, Writing
<1>5. OnFile(k, s).AddedSize > 0 => Len(d) + Len(x) <= OnFile(k, s).AddedSize
  BY <1>2, DataFits
<1> HIDE DEF a, b, d
<1>6. (a \o (b \o d)) \o x = a \o (b \o (d \o x))
  <2>1. a \in Seq(Cells) /\ b \in Seq(Cells) /\ d \in Seq(Cells) /\ x \in Seq(Cells)
    BY <1>2, <1>3, <1>4
  <2>2. (a \o (b \o d)) \o x = a \o ((b \o d) \o x)
    BY <2>1
  <2>3. (b \o d) \o x = b \o (d \o x)
    BY <2>1
  <2> QED
    BY <2>2, <2>3
<1>7. Sees(o.kcf, o.io, "failed", a \o (b \o (d \o x)), NoRecord, <<>>)
  BY <1>1, <1>3, <1>6 DEF Sees
<1>8. OpenStep(a, OnFile(k, s), d, o.kcf, o.io, "failed")
  BY <1>5, <1>7 DEF OpenStep, b
<1> QED
  BY <1>1, <1>8 DEF Moves, FallibleStep, Held, a, d

(* A call that fails and has written nothing leaves the record in progress. *)
LEMMA FailedMoves ==
  ASSUME NEW k, NEW s, Good(k, s), Tidy(k, s), NEW o, o.ret \in Bad, o.io.cells = s.cells
  PROVE  Moves(k, s, o)
<1>1. HandleAfter(o) = "failed" /\ ~Held(o.kcf, "failed")
  BY DEF HandleAfter, Held
<1>2. CASE Writing(k)
  <2>1. Sync(k, s)
    BY <1>2 DEF Tidy, Writing
  <2>2. s.cells \in Seq(Cells) /\ k.ReadOrWritten \in Nat /\ DataCounted(k, s)
    BY <1>2, <2>1, StreamFields, WriterFacts DEF Writing
  <2>3. s.cells \o <<>> = s.cells /\ Len(<<>>) = 0
    BY <2>2
  <2>4. k.AvailableOrToBeWritten > 0 => k.ReadOrWritten + Len(<<>>) <= k.AvailableOrToBeWritten
    BY <2>2, <2>3 DEF DataCounted
  <2> QED
    BY <1>2, <2>1, <2>3, <2>4, EmptyChunk, BrokenMoves
<1>3. CASE ~Writing(k)
  BY <1>1, <1>3 DEF Moves, FallibleStep, Held, ShutStep, Sees
<1> QED
  BY <1>2, <1>3

LEMMA UnseenMoves ==
  ASSUME NEW k, NEW s, Good(k, s), Tidy(k, s), NEW o, Unseen(k, s, o.kcf, o.io)
  PROVE  Moves(k, s, o)
<1>1. CASE o.ret \in Bad
  BY <1>1, FailedMoves DEF Unseen
<1>2. CASE o.ret \notin Bad /\ Writing(k)
  <2>1. o.kcf = k /\ o.io.cells = s.cells
    BY <1>2 DEF Unseen
  <2>2. ArchiveOf(o.kcf, o.io) = ArchiveOf(k, s) /\ DataOf(o.kcf, o.io) = DataOf(k, s)
        /\ OnFile(o.kcf, o.io) = OnFile(k, s)
    BY <2>1 DEF ArchiveOf, DataOf, OnFile, SettledAt
  <2> QED
    BY <1>2, <2>1, <2>2 DEF Moves, HandleAfter, FallibleStep, Held, OpenStep, Sees
<1>3. CASE o.ret \notin Bad /\ ~Writing(k)
  <2>1. ~Writing(o.kcf) /\ o.io.cells = s.cells
    BY <1>3 DEF Unseen
  <2> QED
    BY <1>3, <2>1 DEF Moves, FallibleStep, Held, ShutStep, Sees
<1> QED
  BY <1>1, <1>2, <1>3

LEMMA RefusedMoves ==
  ASSUME NEW k, NEW s, Good(k, s), Tidy(k, s), NEW o \in Refuse(k, s)
  PROVE  Moves(k, s, o)
BY RefusedUnseen, UnseenMoves

(* A record that cannot be ended is left as it is.                          *)
LEMMA FinishFails ==
  ASSUME Steady, NEW k, NEW s, Good(k, s), NEW o \in KCF_finish_added_data(k, s), o.ret # "OK"
  PROVE  o.io.cells = s.cells
<1> DEFINE patched == [k EXCEPT !.LastRecord.AddedSize = k.ReadOrWritten,
                                !.LastRecord.AddedDataCRC32 = k.AddedDataCRC32]
           there == Seek(s, k.RecordOffset)
           x == <<rec_to_buffer(patched.LastRecord)>>
<1>1. there.cells = s.cells
  BY GoodFields, SeekFields
<1>2. \/ o = Result(k, s, "INVALID_STATE") \/ o = Result(Cleaned(k), s, "OK")
      \/ o \in Backpatch(k, s)
  BY DEF KCF_finish_added_data, Refuse
<1>3. ASSUME o \in Backpatch(k, s)
      PROVE  \/ o.io = s \/ o.io = there
             \/ \E w \in IO_write(there, x) : ~w.ok /\ o.io = w.io
  <2>1. \/ o = Result(k, s, "WRITE")
        \/ o = Result(patched, there, "OUT_OF_MEMORY") \/ o = Result(patched, there, "CRASHED")
        \/ \E w \in IO_write(there, x) :
             IF w.ok THEN \E b \in SeekBack(w.io, s.pos) : o = Result(Cleaned(patched), b, "OK")
                     ELSE o = Result(patched, w.io, "WRITE")
    BY <1>3 DEF Backpatch, When
  <2> HIDE DEF patched, there, x
  <2> QED
    BY <2>1 DEF Result
<1>4. \A w \in IO_write(there, x) : ~w.ok => w.io = there
  <2>1. k \in Handles
    BY GoodFields
  <2>2. patched.LastRecord \in Headers
    BY <2>1, PatchedType DEF Handles
  <2>3. IsHeader(rec_to_buffer(patched.LastRecord))
    BY <2>2, HeaderCell DEF Steady
  <2> QED
    BY <2>3, HeaderWriteFails
<1> HIDE DEF there, x
<1> QED
  BY <1>1, <1>2, <1>3, <1>4 DEF Result

(* The header that the log gives the open record when it ends.              *)
LEMMA ClosedHeader ==
  ASSUME NEW k, NEW s, Good(k, s), Sync(k, s), Writing(k), NEW d, d = DataOf(k, s),
         NEW h, h = [OnFile(k, s) EXCEPT !.AddedSize = Len(d),
                                         !.AddedDataCRC32 = IF OnFile(k, s).hasCRC THEN d ELSE <<>>]
  PROVE  /\ k.LastRecord.payload # NoPayload => h = EndedHeader(k)
         /\ ~k.HasAddedDataCRC32 /\ k.ReadOrWritten = k.AvailableOrToBeWritten => h = OnFile(k, s)
<1> DEFINE r == k.LastRecord
           c == OnFile(k, s)
<1>1. /\ r \in Headers /\ r.hasSize /\ r.hasCRC = k.HasAddedDataCRC32
      /\ rec_to_buffer(r) \in CopiesOf(c) /\ c \in Headers
      /\ c.hasCRC = k.HasAddedDataCRC32 /\ c.AddedSize = k.AvailableOrToBeWritten
      /\ r.payload # NoPayload => c = rec_to_buffer(r)
  <2>1. k.ParserState = "WRITE_ADDED_DATA" /\ c = s.cells[k.RecordOffset + 1]
    BY DEF Writing, OnFile
  <2>2. HeaderKept(k, s) /\ r \in Headers
    BY <2>1, WriterFacts, StreamFields
  <2>3. c \in Headers
    BY OpenOnFile
  <2> HIDE DEF r, c
  <2>4. r.hasSize /\ r.hasCRC = k.HasAddedDataCRC32 /\ rec_to_buffer(r) \in CopiesOf(c)
    BY <2>1, <2>2 DEF HeaderKept, r
  <2>5. /\ c.hasCRC = k.HasAddedDataCRC32 /\ c.AddedSize = k.AvailableOrToBeWritten
        /\ r.payload # NoPayload => c = rec_to_buffer(r)
    BY <2>1, KeptHeader DEF r
  <2> QED
    BY <2>2, <2>3, <2>4, <2>5
<1>2. Len(d) = k.ReadOrWritten
  BY DataLength
<1>3. k.AddedDataCRC32 = IF k.HasAddedDataCRC32 THEN d ELSE <<>>
  <2>1. DataCounted(k, s) /\ s.pos = Len(s.cells) /\ k.RecordOffset \in Nat
    BY WriterFacts DEF Writing
  <2>2. d = SubSeq(s.cells, k.RecordOffset + 2, Len(s.cells))
    BY DEF DataOf, SettledAt, Writing
  <2>3. k.RecordOffset + 1 + 1 = k.RecordOffset + 2
    BY <2>1
  <2> QED
    BY <2>1, <2>2, <2>3 DEF DataCounted
<1>4. h = [c EXCEPT !.AddedSize = Len(d), !.AddedDataCRC32 = IF c.hasCRC THEN d ELSE <<>>]
  OBVIOUS
<1> HIDE DEF r, c
<1>5. ASSUME r.payload # NoPayload PROVE h = EndedHeader(k)
  <2> DEFINE e == [r EXCEPT !.AddedSize = k.ReadOrWritten, !.AddedDataCRC32 = k.AddedDataCRC32]
  <2>1. rec_to_buffer(e) = [r EXCEPT !.AddedSize = k.ReadOrWritten,
                                     !.AddedDataCRC32 = IF r.hasCRC THEN d ELSE <<>>]
    BY <1>1, <1>3 DEF rec_to_buffer, Headers, RecordOf
  <2>2. h = [r EXCEPT !.AddedSize = k.ReadOrWritten,
                      !.AddedDataCRC32 = IF r.hasCRC THEN d ELSE <<>>]
    BY <1>1, <1>2, <1>4, <1>5 DEF rec_to_buffer, Headers, RecordOf
  <2> QED
    BY <2>1, <2>2 DEF EndedHeader, r
<1>6. ASSUME ~k.HasAddedDataCRC32, k.ReadOrWritten = k.AvailableOrToBeWritten
      PROVE  h = c
  <2>1. rec_to_buffer(r).AddedDataCRC32 = <<>>
    BY <1>1, <1>6 DEF rec_to_buffer, Headers, RecordOf
  <2>2. c.AddedDataCRC32 = <<>> /\ c.AddedSize = Len(d) /\ ~c.hasCRC
    BY <1>1, <1>2, <1>6, <2>1, CopyFields
  <2>3. c = [c EXCEPT !.AddedSize = c.AddedSize, !.AddedDataCRC32 = c.AddedDataCRC32]
    BY <1>1 DEF Headers, RecordOf
  <2> QED
    BY <1>4, <2>2, <2>3
<1> QED
  BY <1>5, <1>6 DEF r, c

(* Ending a record appends it to the log, complete.                         *)
LEMMA FinishCloses ==
  ASSUME Steady, NEW k, NEW s, Good(k, s), Sync(k, s), Writing(k), Whole(k),
         NEW o \in KCF_finish_added_data(k, s), o.ret = "OK"
  PROVE  o.io.cells = ArchiveOf(k, s) \o Fallible!Complete(OnFile(k, s), DataOf(k, s))
<1> DEFINE d == DataOf(k, s)
           h == [OnFile(k, s) EXCEPT !.AddedSize = Len(d),
                                     !.AddedDataCRC32 = IF OnFile(k, s).hasCRC THEN d ELSE <<>>]
<1>1. Fallible!Complete(OnFile(k, s), d) = <<h>> \o d
  BY DEF Fallible!Complete
<1>2. /\ d = DataOf(k, s)
      /\ h = [OnFile(k, s) EXCEPT !.AddedSize = Len(d),
                                  !.AddedDataCRC32 = IF OnFile(k, s).hasCRC THEN d ELSE <<>>]
  OBVIOUS
<1> HIDE DEF d, h
<1>3. /\ k.LastRecord.payload # NoPayload => h = EndedHeader(k)
      /\ ~k.HasAddedDataCRC32 /\ k.ReadOrWritten = k.AvailableOrToBeWritten => h = OnFile(k, s)
  BY <1>2, ClosedHeader
<1>4. CASE k.LastRecord.payload # NoPayload
  <2>1. o.io.cells = [s.cells EXCEPT ![k.RecordOffset + 1] = EndedHeader(k)]
    BY <1>4, FinishSync DEF Finished, Writing
  <2>2. EndedHeader(k) \in Cells
    <3>1. k \in Handles
      BY StreamFields
    <3>2. [k.LastRecord EXCEPT !.AddedSize = k.ReadOrWritten, !.AddedDataCRC32 = k.AddedDataCRC32] \in Headers
      BY <3>1 DEF Handles, Headers, RecordOf
    <3> QED
      BY <3>2, HeaderCell DEF EndedHeader, Steady
  <2>3. ArchiveOf(k, s) \o (<<h>> \o d) = [s.cells EXCEPT ![k.RecordOffset + 1] = h]
    <3>1. h \in Cells
      BY <1>3, <1>4, <2>2
    <3>2. \A g \in Cells : ArchiveOf(k, s) \o (<<g>> \o DataOf(k, s))
                             = [s.cells EXCEPT ![k.RecordOffset + 1] = g]
      BY OpenOnFile
    <3> QED
      BY <1>2, <3>1, <3>2
  <2> QED
    BY <1>1, <1>3, <1>4, <1>2, <2>1, <2>3
<1>5. CASE k.LastRecord.payload = NoPayload
  <2>1. k.AvailableOrToBeWritten > 0 /\ ~k.HasAddedDataCRC32 /\ o = Result(Cleaned(k), s, "OK")
    <3>1. \A q \in Backpatch(k, s) : q.ret # "OK"
      BY <1>5 DEF Backpatch, When, Result
    <3> QED
      BY <3>1 DEF KCF_finish_added_data, Writing
  <2>2. k.ReadOrWritten = k.AvailableOrToBeWritten
    <3>1. k.ReadOrWritten <= k.AvailableOrToBeWritten
      BY <2>1, WriterFacts DEF DataCounted, Writing
    <3>2. k.ReadOrWritten \in Nat /\ k.AvailableOrToBeWritten \in Nat
      BY StreamFields
    <3> QED
      BY <2>1, <3>1, <3>2 DEF Whole
  <2>3. ArchiveOf(k, s) \o (<<OnFile(k, s)>> \o d) = s.cells
    BY <1>2, OpenOnFile
  <2> QED
    BY <1>1, <1>3, <1>2, <2>1, <2>2, <2>3 DEF Result
<1> QED
  BY <1>4, <1>5

LEMMA FinishMoves ==
  ASSUME Steady, NEW k, NEW s, Good(k, s), Tidy(k, s),
         k.ParserState = "WRITE_ADDED_DATA" => Whole(k),
         NEW o \in KCF_finish_added_data(k, s)
  PROVE  /\ Moves(k, s, o)
         /\ Writing(k) /\ o.ret = "OK" =>
              o.io.cells = ArchiveOf(k, s) \o Fallible!Complete(OnFile(k, s), DataOf(k, s))
<1>1. CASE ~Writing(k)
  <2>1. o \in Refuse(k, s)
    BY <1>1 DEF KCF_finish_added_data, Writing
  <2> QED
    BY <1>1, <2>1, RefusedMoves
<1>2. CASE Writing(k) /\ o.ret # "OK"
  <2>1. o.ret \in Bad /\ o.io.cells = s.cells
    BY <1>2, FinishTidies, FinishFails DEF Writing
  <2> QED
    BY <1>2, <2>1, FailedMoves
<1>3. CASE Writing(k) /\ o.ret = "OK"
  <2> DEFINE closed == ArchiveOf(k, s) \o Fallible!Complete(OnFile(k, s), DataOf(k, s))
  <2>1. Sync(k, s) /\ Whole(k)
    BY <1>3 DEF Tidy, Writing
  <2>2. o.io.cells = closed
    BY <1>3, <2>1, FinishCloses
  <2>3. ~Writing(o.kcf)
    BY <1>3, FinishTidies DEF Ended, Writing
  <2>4. OpenStep(ArchiveOf(k, s), OnFile(k, s), DataOf(k, s), o.kcf, o.io, HandleAfter(o))
    <3>1. Sees(o.kcf, o.io, HandleAfter(o), closed, NoRecord, <<>>)
      BY <2>2, <2>3 DEF Sees, Held
    <3> QED
      BY <3>1 DEF OpenStep
  <2> QED
    BY <1>3, <2>2, <2>4 DEF Moves, FallibleStep, Held
<1> QED
  BY <1>1, <1>2, <1>3

LEMMA WriteRecordMoves ==
  ASSUME Steady, NEW k, NEW s, Good(k, s), Tidy(k, s),
         k.ParserState \notin {"WRITE_ADDED_DATA", "WRITING"}, NEW r \in NewRecords,
         NEW o \in KCF_write_record(k, s, r)
  PROVE  Moves(k, s, o)
<1> DEFINE h == rec_to_buffer(r)
<1>1. Fit(r) /\ r \in Headers /\ r.AddedDataCRC32 = <<>> /\ h \in Cells
  BY NewRecordsFit, HeaderCell DEF Steady
<1>2. CASE ~MayWriteRecord(k)
  BY <1>2, RefusedMoves DEF KCF_write_record
<1>3. CASE MayWriteRecord(k)
  <2>1. k.ParserState = "WRITE_RECORD" /\ Sync(k, s) /\ ~Writing(k)
    BY <1>3, BetweenRecords DEF Writing
  <2>2. s.cells \in Seq(Cells)
    BY StreamFields
  <2>3. /\ o.ret \in Bad => Failed(o, k, s)
        /\ o.ret \notin Bad => o.io.cells = s.cells \o <<h>> /\ Opened(o.kcf, r, Len(s.cells))
    BY <1>1, <1>3, <2>1, WriteRecordSync DEF Finished
  <2>4. CASE o.ret \in Bad
    BY <2>3, <2>4, FailedMoves DEF Failed
  <2>5. CASE o.ret \notin Bad /\ r.hasSize
    <3>1. Writing(o.kcf) /\ o.kcf.RecordOffset = Len(s.cells) /\ HandleAfter(o) = "sound"
      BY <2>3, <2>5 DEF Opened, Writing, HandleAfter
    <3>2. h = r
      BY <1>1, <2>5 DEF rec_to_buffer, Headers, RecordOf
    <3> HIDE DEF h
    <3>3. Sees(o.kcf, o.io, "sound", s.cells, r, <<>>)
      BY <1>1, <2>2, <2>3, <2>5, <3>1, <3>2, SeesOpened
    <3>4. ShutStep(s.cells, o.kcf, o.io, "sound")
      BY <2>5, <3>3 DEF ShutStep
    <3> QED
      BY <2>1, <3>1, <3>4 DEF Moves, FallibleStep, Held
  <2>6. CASE o.ret \notin Bad /\ ~r.hasSize
    <3>1. ~Writing(o.kcf)
      BY <2>3, <2>6 DEF Opened, Writing
    <3>2. Fallible!Complete(r, <<>>) = <<h>>
      BY <1>1, <2>6, BareRecord, SameComplete
    <3> HIDE DEF h
    <3>3. Sees(o.kcf, o.io, HandleAfter(o), s.cells \o Fallible!Complete(r, <<>>), NoRecord, <<>>)
      BY <2>3, <2>6, <3>1, <3>2 DEF Sees, Held
    <3>4. ShutStep(s.cells, o.kcf, o.io, HandleAfter(o))
      BY <2>6, <3>3 DEF ShutStep
    <3> QED
      BY <2>1, <3>4 DEF Moves, FallibleStep, Held
  <2> QED
    BY <2>4, <2>5, <2>6
<1> QED
  BY <1>2, <1>3

LEMMA HeaderThenSome ==
  ASSUME NEW h \in Cells, NEW x \in Seq(Cells), NEW n \in 0..Len(x)
  PROVE  SubSeq(<<h>> \o x, 1, n + 1) = <<h>> \o SubSeq(x, 1, n)
<1> DEFINE w == <<h>> \o x
<1>1. <<h>> \in Seq(Cells) /\ Len(<<h>>) = 1 /\ Len(x) \in Nat /\ n \in Nat
  OBVIOUS
<1>2. w \in Seq(Cells) /\ Len(w) = 1 + Len(x) /\ w[1] = h
  BY <1>1, ConcatProperties
<1>3. SubSeq(w, 2, n + 1) = SubSeq(x, 1, n)
  <2>1. CASE n = 0
    BY <2>1, SubSeqEmpty
  <2>2. CASE n # 0
    <3>1. 2 \in (Len(<<h>>) + 1)..(Len(<<h>>) + Len(x)) /\ n + 1 \in (Len(<<h>>) + 1)..(Len(<<h>>) + Len(x))
      BY <1>1, <2>2
    <3>2. SubSeq(<<h>> \o x, 2, n + 1) = SubSeq(x, 2 - Len(<<h>>), n + 1 - Len(<<h>>))
      BY <1>1, <3>1, SubSeqOfConcat2
    <3>3. 2 - Len(<<h>>) = 1 /\ n + 1 - Len(<<h>>) = n
      BY <1>1
    <3> QED
      BY <3>2, <3>3
  <2> QED
    BY <2>1, <2>2
<1>4. 1 \in 1..Len(w) /\ n + 1 \in 1..Len(w)
  BY <1>1, <1>2
<1> HIDE DEF w
<1>5. SubSeq(w, 1, n + 1) = <<w[1]>> \o SubSeq(w, 1 + 1, n + 1)
  BY <1>2, <1>4, SubSeqRecursiveFirst
<1> QED
  BY <1>2, <1>3, <1>5 DEF w

(* A record that is written at once and fails leaves its header and some of *)
(* its data, or nothing.                                                    *)
LeftAtMost(o, s, h, x) ==
  o.io.cells = s.cells \/ \E n \in 0..Len(x) : o.io.cells = s.cells \o (<<h>> \o SubSeq(x, 1, n))

LEMMA HeaderAndDataFails ==
  ASSUME Steady, NEW k, NEW s \in GoodStreams, AtEnd(s), NEW r, NEW x \in Seq(Bytes),
         rec_to_buffer(WithAddedData(r, x)) \in Cells,
         IsHeader(rec_to_buffer(WithAddedData(r, x))),
         NEW o \in HeaderAndData(k, s, r, x), o.ret # "OK"
  PROVE  LeftAtMost(o, s, rec_to_buffer(WithAddedData(r, x)), x)
<1> DEFINE h == rec_to_buffer(WithAddedData(r, x))
<1>1. \/ o = Result(k, s, "OUT_OF_MEMORY")
      \/ \E w \in IO_write(s, <<h>>) :
           IF w.ok THEN \E d \in IO_write(w.io, x) : o = Result(k, d.io, IF d.ok THEN "OK" ELSE "WRITE")
                   ELSE o = Result(k, w.io, "WRITE")
  BY DEF HeaderAndData, When
<1>2. h \in Cells /\ IsHeader(h) /\ <<h>> \in Seq(Cells) /\ s.cells \in Seq(Cells)
  BY DEF GoodStreams, Streams, Cells
<1> HIDE DEF h
<1>3. CASE o = Result(k, s, "OUT_OF_MEMORY")
  BY <1>3 DEF Result, LeftAtMost
<1>4. ASSUME NEW w \in IO_write(s, <<h>>), ~w.ok, o = Result(k, w.io, "WRITE")
      PROVE  o.io.cells = s.cells
  <2>1. w.io = s
    BY <1>2, <1>4, HeaderWriteFails
  <2> QED
    BY <1>4, <2>1 DEF Result
<1>5. ASSUME NEW w \in IO_write(s, <<h>>), w.ok, NEW d \in IO_write(w.io, x),
             o = Result(k, d.io, IF d.ok THEN "OK" ELSE "WRITE")
      PROVE  \E n \in 0..Len(x) : o.io.cells = s.cells \o (<<h>> \o SubSeq(x, 1, n))
  <2>1. Appended(w.io, s, <<h>>)
    BY <1>2, <1>5, WriteAppends
  <2>2. ~d.ok
    BY <1>5 DEF Result
  <2>3. WroteSome(d.io, w.io, x)
    BY <2>1, <2>2, WriteFails DEF Appended
  <2>4. PICK n \in 0..Len(x) : d.io.cells = w.io.cells \o SubSeq(x, 1, n)
    BY <2>3 DEF WroteSome
  <2>5. SubSeq(x, 1, n) \in Seq(Cells)
    <3>1. SubSeq(x, 1, n) \in Seq(Bytes)
      BY <2>4
    <3> QED
      BY <3>1, BytesCells
  <2> DEFINE z == SubSeq(x, 1, n)
             c == s.cells
             b == <<h>>
  <2>6. z \in Seq(Cells) /\ c \in Seq(Cells) /\ b \in Seq(Cells)
    BY <1>2, <2>5
  <2> HIDE DEF z, c, b
  <2>7. (c \o b) \o z = c \o (b \o z)
    BY <2>6, ConcatAssociative
  <2>8. o.io.cells = (s.cells \o <<h>>) \o SubSeq(x, 1, n)
    BY <1>5, <2>1, <2>4 DEF Result, Appended
  <2> QED
    BY <2>7, <2>8 DEF z, c, b
<1> QED
  BY <1>1, <1>3, <1>4, <1>5 DEF LeftAtMost, h

LEMMA WithDataMoves ==
  ASSUME Steady, NEW k, NEW s, Good(k, s), Tidy(k, s),
         k.ParserState \notin {"WRITE_ADDED_DATA", "WRITING"},
         NEW r \in NewRecords, NEW x \in Chunks,
         NEW o \in KCF_write_record_with_added_data(k, s, r, x)
  PROVE  Moves(k, s, o)
<1> DEFINE h == rec_to_buffer(WithAddedData(r, x))
           whole == Fallible!Complete(Fallible!Flagged(r, x), x)
<1>1. /\ r \in Headers /\ r.AddedDataCRC32 = <<>> /\ x \in Seq(Bytes) /\ x \in Seq(Cells)
      /\ h \in Cells /\ IsHeader(h) /\ Len(x) \in Nat
  BY NewRecordsFit, ChunksType, BytesCells, DataHeader DEF Steady
<1>2. whole = <<h>> \o x
  <2>1. Fallible!Flagged(r, x) = [r EXCEPT !.hasSize = x # <<>>, !.hasCRC = @ /\ x # <<>>]
    BY DEF Fallible!Flagged
  <2>2. Log!Complete([r EXCEPT !.hasSize = x # <<>>, !.hasCRC = @ /\ x # <<>>], x) = <<h>> \o x
    BY <1>1, FilledRecord
  <2> QED
    BY <2>1, <2>2, SameComplete
<1> HIDE DEF h
<1>3. \A n \in 0..Len(x) : SubSeq(whole, 1, n + 1) = <<h>> \o SubSeq(x, 1, n)
  BY <1>1, <1>2, HeaderThenSome
<1>4. CASE ~MayWriteRecord(k)
  BY <1>4, RefusedMoves DEF KCF_write_record_with_added_data
<1>5. CASE MayWriteRecord(k)
  <2>1. k.ParserState = "WRITE_RECORD" /\ Sync(k, s) /\ ~Writing(k)
    BY <1>5, BetweenRecords DEF Writing
  <2>2. s.cells \in Seq(Cells) /\ s \in GoodStreams /\ AtEnd(s)
    BY <2>1, StreamFields DEF Sync
  <2>3. ASSUME o.ret \notin Bad
        PROVE  ~Writing(o.kcf) /\ o.io.cells = s.cells \o whole
    <3>1. /\ o.kcf.ParserState = "WRITE_RECORD"
          /\ o.io.cells = (Finished(k, s) \o <<h>>) \o x
      BY <1>1, <1>5, <2>1, <2>3, WithDataSync DEF h
    <3>2. (s.cells \o <<h>>) \o x = s.cells \o (<<h>> \o x)
      <4> DEFINE c == s.cells
                 b == <<h>>
      <4>1. c \in Seq(Cells) /\ b \in Seq(Cells) /\ x \in Seq(Cells)
        BY <1>1, <2>2
      <4> HIDE DEF c, b
      <4>2. (c \o b) \o x = c \o (b \o x)
        BY <4>1, ConcatAssociative
      <4> QED
        BY <4>2 DEF c, b
    <3> HIDE DEF whole
    <3> QED
      BY <1>2, <2>1, <3>1, <3>2 DEF Finished, Writing
  <2>4. ASSUME o.ret \in Bad
        PROVE  \/ o.io.cells = s.cells
               \/ \E n \in 1..(Len(x) + 1) : o.io.cells = s.cells \o SubSeq(whole, 1, n)
    <3>1. PICK f \in PreviousFinished(k, s) :
            o \in IF Survives(f) THEN HeaderAndData(f.kcf, f.io, r, x) ELSE {f}
      BY <1>5 DEF KCF_write_record_with_added_data
    <3>2. f = Result(k, s, "OK")
      BY <1>5, <2>1, PreviousFinishedSync
    <3>3. o \in HeaderAndData(k, s, r, x) /\ o.ret # "OK"
      BY <2>4, <3>1, <3>2 DEF Survives, Result, Bad, Failures
    <3> HIDE DEF whole
    <3>4. LeftAtMost(o, s, h, x)
      BY <1>1, <2>2, <3>3, HeaderAndDataFails DEF h
    <3>5. ASSUME NEW n \in 0..Len(x), o.io.cells = s.cells \o (<<h>> \o SubSeq(x, 1, n))
          PROVE  \E m \in 1..(Len(x) + 1) : o.io.cells = s.cells \o SubSeq(whole, 1, m)
      <4>1. n + 1 \in 1..(Len(x) + 1)
        BY <1>1
      <4>2. o.io.cells = s.cells \o SubSeq(whole, 1, n + 1)
        BY <1>3, <3>5
      <4> QED
        BY <4>1, <4>2
    <3> QED
      BY <3>4, <3>5 DEF LeftAtMost
  <2> HIDE DEF whole
  <2>5. CASE o.ret \in Bad /\ o.io.cells = s.cells
    BY <2>5, FailedMoves
  <2>6. ASSUME ~Held(o.kcf, HandleAfter(o)),
               \/ o.io.cells = s.cells \o whole
               \/ \E n \in 1..(Len(x) + 1) : o.io.cells = s.cells \o SubSeq(whole, 1, n)
        PROVE  Moves(k, s, o)
    <3>1. \/ Sees(o.kcf, o.io, HandleAfter(o), s.cells \o whole, NoRecord, <<>>)
          \/ \E n \in 1..(Len(x) + 1) :
               Sees(o.kcf, o.io, HandleAfter(o), s.cells \o SubSeq(whole, 1, n), NoRecord, <<>>)
      BY <2>6 DEF Sees
    <3>2. ShutStep(s.cells, o.kcf, o.io, HandleAfter(o))
      BY <3>1 DEF ShutStep, whole
    <3> QED
      BY <2>1, <3>2 DEF Moves, FallibleStep, Held
  <2>7. CASE /\ o.ret \in Bad
             /\ \E n \in 1..(Len(x) + 1) : o.io.cells = s.cells \o SubSeq(whole, 1, n)
    BY <2>6, <2>7 DEF Held, HandleAfter
  <2>8. CASE o.ret \notin Bad
    BY <2>3, <2>6, <2>8 DEF Held
  <2> QED
    BY <2>4, <2>5, <2>7, <2>8
<1> QED
  BY <1>4, <1>5

LEMMA AddedDataMoves ==
  ASSUME Steady, NEW k, NEW s, Good(k, s), Tidy(k, s), NEW x \in Chunks,
         NEW o \in KCF_write_added_data(k, s, x)
  PROVE  Moves(k, s, o)
<1> DEFINE y == Clipped(k, x)
<1>1. CASE ~Writing(k)
  BY <1>1, RefusedMoves DEF KCF_write_added_data, Writing
<1>2. CASE Writing(k)
  <2>1. Sync(k, s) /\ k \in Handles /\ x \in Seq(Bytes)
    BY <1>2, ChunksType, StreamFields DEF Tidy, Writing
  <2>2. \/ o.ret \in Bad /\ WroteSome(o.io, s, y)
        \/ o.kcf = k /\ o.io = s
        \/ /\ o.ret \notin Bad /\ Writing(o.kcf)
           /\ o.kcf.RecordOffset = k.RecordOffset /\ o.kcf.LastRecord = k.LastRecord
           /\ o.io.cells = s.cells \o y
    BY <2>1, WriteAddedDataSync DEF Writing
  <2>3. CASE o.kcf = k /\ o.io = s
    BY <2>3, SameUnseen, UnseenMoves
  <2>5. CASE o.ret \in Bad /\ WroteSome(o.io, s, y)
    <3>1. k.AvailableOrToBeWritten > 0 => k.ReadOrWritten <= k.AvailableOrToBeWritten
      BY <1>2, <2>1, WriterFacts DEF Writing, DataCounted
    <3>2. /\ y \in Seq(Bytes) /\ y \in Chunks /\ Len(y) \in Nat /\ k.ReadOrWritten \in Nat
          /\ k.AvailableOrToBeWritten \in Nat
          /\ k.AvailableOrToBeWritten > 0 => k.ReadOrWritten + Len(y) <= k.AvailableOrToBeWritten
      BY <2>1, <3>1, ClippedFits, ClippedChunk, StreamFields
    <3> HIDE DEF y
    <3>3. PICK n \in 0..Len(y) : o.io.cells = s.cells \o SubSeq(y, 1, n)
      BY <2>5 DEF WroteSome
    <3>4. Len(SubSeq(y, 1, n)) = n /\ SubSeq(y, 1, n) \in Chunks
      BY <3>2, <3>3, StartOfChunk
    <3>5. k.AvailableOrToBeWritten > 0 =>
            k.ReadOrWritten + Len(SubSeq(y, 1, n)) <= k.AvailableOrToBeWritten
      BY <3>2, <3>3, <3>4
    <3> QED
      BY <1>2, <2>1, <2>5, <3>3, <3>4, <3>5, BrokenMoves
  <2>4. CASE /\ o.ret \notin Bad /\ Writing(o.kcf)
             /\ o.kcf.RecordOffset = k.RecordOffset /\ o.kcf.LastRecord = k.LastRecord
             /\ o.io.cells = s.cells \o y
    <3>1. /\ OnFile(k, s).AddedSize = k.AvailableOrToBeWritten
          /\ k.AvailableOrToBeWritten > 0 => k.ReadOrWritten <= k.AvailableOrToBeWritten
      BY <1>2, <2>1, KeptHeader, WriterFacts DEF Writing, OnFile, DataCounted
    <3>2. /\ y \in Seq(Bytes) /\ y \in Chunks
          /\ k.AvailableOrToBeWritten > 0 => k.ReadOrWritten + Len(y) <= k.AvailableOrToBeWritten
      BY <2>1, <3>1, ClippedFits, ClippedChunk
    <3> HIDE DEF y
    <3>3. OnFile(k, s).AddedSize > 0 => Len(DataOf(k, s)) + Len(y) <= OnFile(k, s).AddedSize
      BY <1>2, <2>1, <3>1, <3>2, DataLength
    <3>4. Sees(o.kcf, o.io, "sound", ArchiveOf(k, s), OnFile(k, s), DataOf(k, s) \o y)
      BY <1>2, <2>1, <2>4, <3>2, SeesAdded
    <3>5. OpenStep(ArchiveOf(k, s), OnFile(k, s), DataOf(k, s), o.kcf, o.io, "sound")
      BY <3>2, <3>3, <3>4 DEF OpenStep
    <3> QED
      BY <1>2, <2>4, <3>5 DEF Moves, FallibleStep, Held, HandleAfter
  <2> QED
    BY <2>2, <2>3, <2>4, <2>5
<1> QED
  BY <1>1, <1>2

LEMMA StartReadingMoves ==
  ASSUME Steady, NEW k, NEW s, Good(k, s), Tidy(k, s),
         k.ParserState = "WRITE_ADDED_DATA" => Whole(k),
         NEW o \in KCF_start_reading(k, s)
  PROVE  Moves(k, s, o)
<1>1. CASE ~Writing(k)
  <2>1. \/ o = Result(k, s, "OK") \/ o = Result(k, s, "UNKNOWN")
        \/ \E p \in {"READ_MARKER", "READING", "READ_RECORD_HEADER"} :
             o = Result([k EXCEPT !.ParserState = p], s, "OK")
    BY <1>1 DEF KCF_start_reading, Flushed, When, Writing
  <2>2. k \in Handles
    BY GoodFields
  <2>3. o.io = s /\ ~Writing(o.kcf)
    BY <1>1, <2>1, <2>2 DEF Result, Handles, Writing
  <2>4. Unseen(k, s, o.kcf, o.io)
    BY <1>1, <2>3 DEF Unseen
  <2> QED
    BY <2>4, UnseenMoves
<1>2. CASE Writing(k)
  <2> DEFINE closed == ArchiveOf(k, s) \o Fallible!Complete(OnFile(k, s), DataOf(k, s))
  <2>1. PICK f \in KCF_finish_added_data(k, s) :
          o \in IF f.ret = "OK" THEN Flushed(f.kcf, f.io) ELSE {f}
    BY <1>2 DEF KCF_start_reading, Writing
  <2>2. Moves(k, s, f) /\ (f.ret = "OK" => f.io.cells = closed)
    BY <1>2, FinishMoves
  <2>3. CASE f.ret # "OK"
    BY <2>1, <2>2, <2>3
  <2>4. CASE f.ret = "OK"
    <3> DEFINE q == [f.kcf EXCEPT !.ParserState = "READ_RECORD_HEADER"]
    <3>1. o = Result(q, f.io, "OK") \/ o = Result(f.kcf, f.io, "UNKNOWN")
      BY <2>1, <2>4 DEF Flushed, When
    <3>2. ~Writing(f.kcf) /\ f.kcf \in Handles
      BY <2>4, FinishTidies, FinishType, GoodFields DEF Ended, GoodOutcome, Writing
    <3>3. q.ParserState = "READ_RECORD_HEADER"
      BY <3>2 DEF Handles
    <3> HIDE DEF q
    <3>4. o.io = f.io /\ ~Writing(o.kcf)
      BY <3>1, <3>2, <3>3 DEF Result, Writing
    <3>5. Sees(o.kcf, o.io, HandleAfter(o), closed, NoRecord, <<>>)
      BY <2>2, <2>4, <3>4 DEF Sees, Held
    <3>6. OpenStep(ArchiveOf(k, s), OnFile(k, s), DataOf(k, s), o.kcf, o.io, HandleAfter(o))
      BY <3>5 DEF OpenStep
    <3> QED
      BY <1>2, <3>6 DEF Moves, FallibleStep, Held
  <2> QED
    BY <2>3, <2>4
<1> QED
  BY <1>1, <1>2

LEMMA InitArchiveMoves ==
  ASSUME Steady, NEW k, NEW s, Good(k, s), Tidy(k, s), Ripe(k, s),
         k.ParserState \notin {"WRITE_ADDED_DATA", "WRITING"},
         NEW p \in Payloads, NEW o \in KCF_init_archive(k, s, p)
  PROVE  Moves(k, s, o)
<1> DEFINE header == [ZeroRecord EXCEPT !.payload = p]
<1>1. header \in NewRecords
  BY DEF ZeroRecord, NewRecords, RecordOf
<1>2. PICK f \in KCF_start_writing(k, s) :
        IF f.ret = "OK" THEN \/ o \in KCF_write_record(f.kcf, f.io, header)
                             \/ o = Result(f.kcf, f.io, "CRASHED")
                        ELSE o = f
  BY DEF KCF_init_archive, KCF_write_archive_header, When
<1> HIDE DEF header
<1>3. /\ Unseen(k, s, f.kcf, f.io) /\ f.io = s /\ Good(f.kcf, f.io)
      /\ f.kcf.ParserState \notin {"WRITE_ADDED_DATA", "WRITING"}
      /\ Tidies(f, "none")
  BY StartWritingUnseen, StartWritingType, StartWritingBetween, StartWritingTidies DEF GoodOutcome
<1>4. CASE f.ret # "OK"
  BY <1>2, <1>3, <1>4, UnseenMoves
<1>5. CASE f.ret = "OK"
  <2>1. Tidy(f.kcf, f.io)
    BY <1>3, <1>5 DEF Tidies, Bad, Failures
  <2>2. CASE o \in KCF_write_record(f.kcf, f.io, header)
    <3>1. Moves(f.kcf, f.io, o)
      BY <1>1, <1>3, <2>1, <2>2, WriteRecordMoves
    <3>2. ~Writing(k) /\ ~Writing(f.kcf)
      BY <1>3 DEF Writing
    <3> QED
      BY <1>3, <3>1, <3>2 DEF Moves, FallibleStep, Held
  <2>3. CASE o = Result(f.kcf, f.io, "CRASHED")
    BY <1>3, <2>3, UnseenMoves DEF Result
  <2> QED
    BY <1>2, <1>5, <2>2, <2>3
<1> QED
  BY <1>4, <1>5

(***************************************************************************)
(* Steps of a diligent caller.                                              *)
(***************************************************************************)
FallibleNext == FallibleStep(kcf, io, call.handle, kcf', io', call'.handle)

LEMMA ReturnMoves ==
  ASSUME Diligent, NInv, NEW op, NEW outcomes, NEW ack, Return(op, outcomes, ack),
         \A o \in outcomes : Moves(kcf, io, o)
  PROVE  FallibleNext
<1>1. call.handle = "sound"
  BY SoundCalls DEF Return, NInv, Diligent
<1>2. PICK o \in outcomes : kcf' = o.kcf /\ io' = o.io /\ call' = Returned(op, o.ret)
  BY DEF Return
<1>3. call'.handle = HandleAfter(o)
  BY <1>1, <1>2 DEF Returned, HandleAfter, Bad
<1> QED
  BY <1>1, <1>2, <1>3 DEF Moves, FallibleNext

LEMMA SkipMoves ==
  ASSUME Diligent, NInv, KCF_skip_record \/ SkipStep
  PROVE  FallibleNext
<1>1. /\ TypeOK /\ Good(kcf, io)
      /\ ~Idle => kcf.ParserState \in {"READ_RECORD_DATA", "READ_ADDED_DATA"}
  BY TypeOKGood DEF NInv, KInv
<1>2. Unseen(kcf, io, kcf', io')
  BY <1>1, SkipLogged
<1>3. CASE ~Writing(kcf)
  <2>1. ~Writing(kcf') /\ io'.cells = io.cells
    BY <1>2, <1>3 DEF Unseen
  <2> QED
    BY <1>3, <2>1 DEF FallibleNext, FallibleStep, Held, ShutStep, Sees
<1>4. CASE Writing(kcf)
  <2>1. SkipReturns(kcf, io, "INVALID_STATE")
    BY <1>1, <1>4 DEF Writing, KCF_skip_record, SkipStep
  <2>2. kcf' = kcf /\ io' = io /\ call'.handle = call.handle
    BY <2>1 DEF SkipReturns, Returned, Failures
  <2> QED
    BY <2>2 DEF FallibleNext, FallibleStep, Held, ShutStep, OpenStep, Sees
<1> QED
  BY <1>3, <1>4

LEMMA ReopenMoves ==
  ASSUME NInv, Reopen
  PROVE  FallibleNext
<1>1. ~Writing(kcf') /\ io'.cells = io.cells
  BY SeekFields DEF Reopen, NewHandle, Writing, NInv, KInv, TypeOK
<1>2. CASE Held(kcf, call.handle)
  <2> DEFINE o == [ret |-> "UNKNOWN", kcf |-> kcf', io |-> io']
  <2>1. Good(kcf, io) /\ Tidy(kcf, io) /\ Writing(kcf)
    BY <1>2, TypeOKGood DEF NInv, KInv, Held
  <2>2. o.ret \in Bad /\ o.io.cells = io.cells /\ o.kcf = kcf' /\ o.io = io'
    BY <1>1 DEF Bad, Failures
  <2> HIDE DEF o
  <2>3. Moves(kcf, io, o) /\ HandleAfter(o) = "failed"
    BY <2>1, <2>2, FailedMoves DEF HandleAfter
  <2>4. \A archive, open, data : Sees(kcf', io', "failed", archive, open, data)
                                 = Sees(kcf', io', call'.handle, archive, open, data)
    BY <1>1 DEF Sees, Held
  <2>5. OpenStep(ArchiveOf(kcf, io), OnFile(kcf, io), DataOf(kcf, io), kcf', io', "failed")
    BY <2>1, <2>2, <2>3 DEF Moves, FallibleStep, Held
  <2>6. OpenStep(ArchiveOf(kcf, io), OnFile(kcf, io), DataOf(kcf, io), kcf', io', call'.handle)
    BY <2>4, <2>5 DEF OpenStep
  <2> QED
    BY <1>2, <2>6 DEF FallibleNext, FallibleStep
<1>3. CASE ~Held(kcf, call.handle)
  BY <1>1, <1>3 DEF FallibleNext, FallibleStep, Held, ShutStep, Sees
<1> QED
  BY <1>2, <1>3

LEMMA UnseenNext ==
  ASSUME Diligent, NInv, NEW op, NEW outcomes, NEW ack, Return(op, outcomes, ack),
         \A o \in outcomes : Unseen(kcf, io, o.kcf, o.io)
  PROVE  FallibleNext
BY DiligentCalls, UnseenMoves, ReturnMoves DEF Return

LEMMA StepFallible ==
  ASSUME Diligent, NInv, [Next]_vars
  PROVE  FallibleNext
<1>1. Steady /\ Good(kcf, io)
  BY TypeOKGood DEF Diligent, NInv, KInv
<1>2. CASE StartReading
  <2>1. /\ Good(kcf, io) /\ Tidy(kcf, io)
        /\ kcf.ParserState = "WRITE_ADDED_DATA" => Whole(kcf)
    BY <1>2, DiligentCalls DEF StartReading, Return
  <2> QED
    BY <1>1, <1>2, <2>1, StartReadingMoves, ReturnMoves DEF StartReading
<1>3. CASE StartWriting
  BY <1>1, <1>3, StartWritingUnseen, UnseenNext DEF StartWriting
<1>4. CASE InitArchive
  <2>1. /\ Tidy(kcf, io) /\ Ripe(kcf, io)
        /\ kcf.ParserState \notin {"WRITE_ADDED_DATA", "WRITING"}
    BY <1>4, DiligentCalls DEF InitArchive, Return
  <2> QED
    BY <1>1, <1>4, <2>1, InitArchiveMoves, ReturnMoves DEF InitArchive
<1>5. CASE FindMarker
  BY <1>1, <1>5, FindMarkerUnseen, UnseenNext DEF FindMarker
<1>6. CASE ReadRecord
  BY <1>1, <1>6, ReadRecordUnseen, UnseenNext DEF ReadRecord
<1>7. CASE ReadAddedData
  <2>1. PICK n \in 0..MaxChunk :
          Return("read_added_data", KCF_read_added_data(kcf, io, n), "none")
    BY <1>7 DEF ReadAddedData
  <2>2. n \in Nat
    BY ConstantsOK
  <2> QED
    BY <1>1, <2>1, <2>2, ReadAddedDataUnseen, UnseenNext
<1>8. CASE WriteMarker
  <2>1. \A o \in KCF_write_marker(kcf, io) : Unseen(kcf, io, o.kcf, o.io)
    BY <1>1, GoodFields, RefusedUnseen DEF KCF_write_marker
  <2> QED
    BY <1>8, <2>1, UnseenNext DEF WriteMarker
<1>9. CASE WriteRecord
  <2>1. PICK r \in NewRecords :
          Return("write_record", KCF_write_record(kcf, io, r), IF r.hasSize THEN "before" ELSE "all")
    BY <1>9 DEF WriteRecord
  <2>2. Tidy(kcf, io) /\ kcf.ParserState \notin {"WRITE_ADDED_DATA", "WRITING"}
    BY <1>9, DiligentCalls DEF WriteRecord, Return
  <2> QED
    BY <1>1, <2>1, <2>2, WriteRecordMoves, ReturnMoves
<1>10. CASE WriteRecordWithAddedData
  <2>1. PICK r \in NewRecords, x \in Chunks :
          Return("write_record_with_added_data",
                 KCF_write_record_with_added_data(kcf, io, r, x), "all")
    BY <1>10 DEF WriteRecordWithAddedData
  <2>2. Tidy(kcf, io) /\ kcf.ParserState \notin {"WRITE_ADDED_DATA", "WRITING"}
    BY <1>10, DiligentCalls DEF WriteRecordWithAddedData, Return
  <2> QED
    BY <1>1, <2>1, <2>2, WithDataMoves, ReturnMoves
<1>11. CASE WriteAddedData
  <2>1. PICK x \in Chunks : Return("write_added_data", KCF_write_added_data(kcf, io, x), "none")
    BY <1>11 DEF WriteAddedData
  <2>2. Tidy(kcf, io)
    BY <2>1, DiligentCalls DEF Return
  <2> QED
    BY <1>1, <2>1, <2>2, AddedDataMoves, ReturnMoves
<1>12. CASE FinishAddedData
  <2>1. Tidy(kcf, io) /\ (kcf.ParserState = "WRITE_ADDED_DATA" => Whole(kcf))
    BY <1>12, DiligentCalls DEF FinishAddedData, Return
  <2> QED
    BY <1>1, <1>12, <2>1, FinishMoves, ReturnMoves DEF FinishAddedData
<1>13. CASE FileCall
  <2>1. \A o \in FileCallRefused(kcf, io) : Unseen(kcf, io, o.kcf, o.io)
    BY RefusedUnseen DEF FileCallRefused, When
  <2> QED
    BY <1>13, <2>1, UnseenNext DEF FileCall
<1>14. CASE SkipFile
  BY <1>1, <1>14, SkipFileUnseen, UnseenNext DEF SkipFile
<1>15. CASE UNCHANGED vars
  <2>1. kcf' = kcf /\ io' = io /\ call'.handle = call.handle
    BY <1>15 DEF vars
  <2> QED
    BY <2>1 DEF FallibleNext, FallibleStep, Held, ShutStep, OpenStep, Sees
<1> QED
  BY <1>2, <1>3, <1>4, <1>5, <1>6, <1>7, <1>8, <1>9, <1>10, <1>11, <1>12, <1>13, <1>14, <1>15,
     SkipMoves, ReopenMoves DEF Next

LEMMA InitFallible ==
  ASSUME Init
  PROVE  Fallible!Init
BY DEF Init, NewHandle, Fallible!Init, CellsBefore, HeaderHeld, DataHeld, HoldsRecord, IsOpen

(* The header of the open record is a header.                               *)
LEMMA HeldHeader ==
  ASSUME NInv, NoRecord \notin Headers, Held(kcf, call.handle)
  PROVE  OnFile(kcf, io) # NoRecord
<1>1. Good(kcf, io) /\ Sync(kcf, io) /\ Writing(kcf)
  BY TypeOKGood DEF NInv, KInv, Held, Tidy, Writing
<1> QED
  BY <1>1, OpenOnFile

(* For a diligent caller the file is such a log whichever reads, writes,    *)
(* seeks, flushes and allocations fail: a call that succeeds has appended   *)
(* the whole record, one that fails or a handle that is given up at most    *)
(* what is left of one, and nothing that was there is lost (write.c,        *)
(* archive.c:30-57).                                                        *)
THEOREM HandleImplementsFallibleLog ==
  ASSUME Diligent, NoRecord \notin Headers
  PROVE  Spec => ImplementsFallibleLog
<1>1. Init => NInv /\ Fallible!Init
  BY InitTidies, InitFallible
<1>2. NInv /\ [Next]_vars => NInv'
  BY StepTidies
<1>3. NInv /\ [Next]_vars => [Fallible!NextOrBreak]_(Fallible!vars)
  <2> SUFFICES ASSUME NInv, [Next]_vars
               PROVE  [Fallible!NextOrBreak]_(Fallible!vars)
    OBVIOUS
  <2>1. FallibleStep(kcf, io, call.handle, kcf', io', call'.handle)
    BY StepFallible DEF FallibleNext
  <2> QED
    BY <2>1, HeldHeader, StepOfFallible
<1> QED
  BY <1>1, <1>2, <1>3, PTL DEF Spec, ImplementsFallibleLog, Fallible!FallibleSpec
==============================================================================
