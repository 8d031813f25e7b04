-------------------------- MODULE RecordCodec_proofs --------------------------
(***************************************************************************)
(* Theorems about RecordCodec for all widths and sizes.                     *)
(***************************************************************************)
EXTENDS RecordCodec, TLAPS

LEMMA ModBounds ==
  ASSUME NEW a \in Nat, NEW n \in Nat, n > 0
  PROVE  a % n \in 0..(n - 1) /\ a % n <= a
OBVIOUS

LEMMA WidthTypes ==
  ASSUME NEW f \in SUBSET AllFlags
  PROVE  SizeWidth(f) \in {0, 4, 8} /\ CRCWidth(f) \in {0, 4} /\ HeaderSize(f) \in 6..18
BY DEF SizeWidth, CRCWidth, HeaderSize

(* A record whose header can be written: sized and checked by rec_fix.      *)
Fixed(q) ==
  /\ q.HeadSize = (HeaderSize(q.HeadFlags) + q.DataSize) % TwoTo16
  /\ rec_validate(q)

LEMMA FieldTypes ==
  ASSUME NEW f \in SUBSET AllFlags, NEW n \in Nat
  PROVE  SizeField(f, n) \in Nat \cup {Absent} /\ CRCField(f, n) \in Nat \cup {Absent}
<1>1. n % TwoTo32 \in Nat
  BY CodecConstantsOK, ModBounds
<1> QED
  BY <1>1 DEF SizeField, CRCField

LEMMA FixType ==
  ASSUME NEW r \in Records
  PROVE  /\ rec_fix(r) \in Records /\ Fixed(rec_fix(r))
         /\ rec_fix(r).HeadFlags = r.HeadFlags /\ rec_fix(r).DataSize = r.DataSize
         /\ rec_fix(r).AddedSize = r.AddedSize /\ rec_fix(r).AddedDataCRC32 = r.AddedDataCRC32
<1> DEFINE n == (HeaderSize(r.HeadFlags) + r.DataSize) % TwoTo16
           sized == [r EXCEPT !.HeadSize = n]
           c == rec_calculate_CRC(sized)
<1>1. HeaderSize(r.HeadFlags) + r.DataSize \in Nat
  BY WidthTypes DEF Records
<1>2. n \in 0..(TwoTo16 - 1)
  BY <1>1, ModBounds, CodecConstantsOK
<1>3. sized \in Records /\ sized.HeadFlags = r.HeadFlags /\ sized.DataSize = r.DataSize
      /\ sized.HeadSize = n /\ sized.AddedSize = r.AddedSize
      /\ sized.AddedDataCRC32 = r.AddedDataCRC32
  <2> HIDE DEF n
  <2> QED
    BY <1>2 DEF Records
<1>4. c \in CRCs
  <2>1. sized.HeadSize \in Nat
    BY <1>2, <1>3, CodecConstantsOK
  <2> HIDE DEF sized, n
  <2> QED
    BY <1>3, <2>1, FieldTypes DEF rec_calculate_CRC, CRCs, Records
<1>5. rec_fix(r) = [sized EXCEPT !.HeadCRC = c]
  BY DEF rec_fix
<1>6. c = rec_calculate_CRC([sized EXCEPT !.HeadCRC = c])
  <2> HIDE DEF n
  <2> QED
    BY <1>3 DEF rec_calculate_CRC, Records
<1>7. /\ [sized EXCEPT !.HeadCRC = c] \in Records
      /\ [sized EXCEPT !.HeadCRC = c].HeadCRC = c
      /\ [sized EXCEPT !.HeadCRC = c].HeadSize = n
      /\ [sized EXCEPT !.HeadCRC = c].HeadFlags = r.HeadFlags
      /\ [sized EXCEPT !.HeadCRC = c].DataSize = r.DataSize
      /\ [sized EXCEPT !.HeadCRC = c].AddedSize = r.AddedSize
      /\ [sized EXCEPT !.HeadCRC = c].AddedDataCRC32 = r.AddedDataCRC32
  <2> HIDE DEF sized, c, n
  <2> QED
    BY <1>3, <1>4 DEF Records
<1> HIDE DEF sized, c
<1> QED
  BY <1>5, <1>6, <1>7 DEF Fixed, rec_validate

(***************************************************************************)
(* A header that fits its buffer says how long it is, and is read as the    *)
(* record it was made from.                                                 *)
(***************************************************************************)
LEMMA FitsExactly ==
  ASSUME NEW q \in Records, Fixed(q), ~Overruns(q)
  PROVE  q.HeadSize = HeaderSize(q.HeadFlags) + q.DataSize
<1> DEFINE a == HeaderSize(q.HeadFlags) + q.DataSize
<1>1. a \in Nat
  BY WidthTypes DEF Records
<1>2. a % TwoTo16 <= a
  BY <1>1, ModBounds, CodecConstantsOK
<1>3. q.HeadSize = a % TwoTo16 /\ ~(a > q.HeadSize) /\ q.HeadSize \in Int
  BY CodecConstantsOK DEF Fixed, Overruns, Records
<1> HIDE DEF a
<1>4. q.HeadSize = a
  BY <1>1, <1>2, <1>3
<1> QED
  BY <1>4 DEF a

LEMMA Layout ==
  ASSUME NEW q \in Records, NEW h, h = rec_to_buffer(q)
  PROVE  /\ h[0].value = q.HeadCRC /\ h[3].value = q.HeadFlags /\ h[4].value = q.HeadSize
         /\ FieldAt(h, HeaderSize(q.HeadFlags) + q.DataSize, HeaderSize(q.HeadFlags), q.DataSize)
              = q.DataSize
         /\ rec_has_added_size(q.HeadFlags) =>
              FieldAt(h, 14, 6, SizeWidth(q.HeadFlags)) = SizeField(q.HeadFlags, q.AddedSize)
         /\ rec_has_added_data_CRC(q.HeadFlags) =>
              FieldAt(h, 18, 6 + SizeWidth(q.HeadFlags), 4) = q.AddedDataCRC32
<1> DEFINE f == q.HeadFlags
           size == SizeWidth(f)
           crc == CRCWidth(f)
           data == HeaderSize(f)
<1>1. f \in SUBSET AllFlags
  BY DEF Records
<1>2. /\ size \in {0, 4, 8} /\ crc \in {0, 4} /\ data = 6 + size + crc
      /\ rec_has_added_size(f) => size > 0
      /\ rec_has_added_data_CRC(f) => crc = 4
  BY <1>1 DEF SizeWidth, CRCWidth, HeaderSize, rec_has_added_size, rec_has_added_size_8
<1> HIDE DEF f, size, crc, data
<1>3. h = [at \in {0, 3, 4, data} \cup (IF size > 0 THEN {6} ELSE {})
                  \cup (IF crc > 0 THEN {6 + size} ELSE {}) |->
             CASE at = 0 -> Field(2, q.HeadCRC)
               [] at = 3 -> Field(1, f)
               [] at = 4 -> Field(2, q.HeadSize)
               [] at = data -> Field(q.DataSize, q.DataSize)
               [] at = 6 /\ size > 0 -> Field(size, SizeField(f, q.AddedSize))
               [] OTHER -> Field(4, q.AddedDataCRC32)]
  BY DEF rec_to_buffer, f, size, crc, data
<1>4. h[0] = Field(2, q.HeadCRC) /\ h[3] = Field(1, f) /\ h[4] = Field(2, q.HeadSize)
  BY <1>2, <1>3
<1>5. data \in DOMAIN h /\ h[data] = Field(q.DataSize, q.DataSize)
  BY <1>2, <1>3
<1>6. ASSUME size > 0
      PROVE  6 \in DOMAIN h /\ h[6] = Field(size, SizeField(f, q.AddedSize))
  BY <1>2, <1>3, <1>6
<1>7. ASSUME crc = 4
      PROVE  6 + size \in DOMAIN h /\ h[6 + size] = Field(4, q.AddedDataCRC32)
  BY <1>2, <1>3, <1>7
<1>8. FieldAt(h, data + q.DataSize, data, q.DataSize) = q.DataSize
  <2>1. q.DataSize \in Nat /\ data \in Nat
    BY <1>2 DEF Records
  <2> QED
    BY <1>5, <2>1 DEF FieldAt, Field
<1>9. rec_has_added_size(f) => FieldAt(h, 14, 6, size) = SizeField(f, q.AddedSize)
  BY <1>2, <1>6 DEF FieldAt, Field
<1>10. rec_has_added_data_CRC(f) => FieldAt(h, 18, 6 + size, 4) = q.AddedDataCRC32
  BY <1>2, <1>7 DEF FieldAt, Field
<1> QED
  BY <1>4, <1>8, <1>9, <1>10 DEF Field, f, size, data

LEMMA ReadsAsWritten ==
  ASSUME NEW q \in Records, Fixed(q), ~Overruns(q)
  PROVE  LET r == read_record(rec_to_buffer(q))
         IN  /\ rec_validate(r)
             /\ r.HeadFlags = q.HeadFlags
             /\ rec_has_added_size(q.HeadFlags) => r.AddedSize = SizeField(q.HeadFlags, q.AddedSize)
             /\ rec_has_added_data_CRC(q.HeadFlags) => r.AddedDataCRC32 = q.AddedDataCRC32
<1> DEFINE h == rec_to_buffer(q)
           r == read_record(h)
           f == q.HeadFlags
<1>1. f \in SUBSET AllFlags /\ q.AddedSize \in Nat /\ q.DataSize \in Nat
  BY DEF Records
<1>2. q.HeadSize - HeaderSize(f) = q.DataSize /\ HeaderSize(f) = 6 + SizeWidth(f) + CRCWidth(f)
  <2>1. HeaderSize(f) \in Int /\ q.HeadSize = HeaderSize(f) + q.DataSize
    BY <1>1, WidthTypes, FitsExactly
  <2> QED
    BY <1>1, <2>1 DEF HeaderSize
<1>3. r = [HeadCRC |-> q.HeadCRC, HeadFlags |-> f, HeadSize |-> q.HeadSize,
           AddedSize |-> IF rec_has_added_size(f) THEN SizeField(f, q.AddedSize) ELSE 0,
           AddedDataCRC32 |-> IF rec_has_added_data_CRC(f) THEN q.AddedDataCRC32 ELSE 0,
           DataSize |-> q.DataSize]
  <2> HIDE DEF h
  <2> QED
    BY <1>2, Layout DEF read_record, h
<1>4. SizeField(f, r.AddedSize) = SizeField(f, q.AddedSize)
  <2>1. CASE rec_has_added_size_8(f)
    BY <2>1, <1>3 DEF SizeField, rec_has_added_size, rec_has_added_size_8,
                      KCF_HAS_ADDED_SIZE_4, KCF_HAS_ADDED_SIZE_8
  <2>2. CASE ~rec_has_added_size_8(f) /\ rec_has_added_size(f)
    <3>1. (q.AddedSize % TwoTo32) % TwoTo32 = q.AddedSize % TwoTo32
      BY <1>1, CodecConstantsOK
    <3> QED
      BY <2>2, <3>1, <1>3 DEF SizeField
  <2>3. CASE ~rec_has_added_size_8(f) /\ ~rec_has_added_size(f)
    BY <2>3 DEF SizeField
  <2> QED
    BY <2>1, <2>2, <2>3
<1>5. CRCField(f, r.AddedDataCRC32) = CRCField(f, q.AddedDataCRC32)
  BY <1>3 DEF CRCField
<1>6. rec_calculate_CRC(r) = rec_calculate_CRC(q)
  BY <1>3, <1>4, <1>5 DEF rec_calculate_CRC
<1> QED
  BY <1>3, <1>6 DEF rec_validate, Fixed

(***************************************************************************)
(* The inductive invariant.                                                 *)
(***************************************************************************)
(* What the header of a record that has ended says of its added data.       *)
Tells(q, size, n) ==
  rec_has_added_size(q.HeadFlags) =>
    /\ q.AddedSize = Told(q.HeadFlags, size, n) /\ n <= q.AddedSize
    /\ rec_has_added_data_CRC(q.HeadFlags) => q.AddedDataCRC32 = n

Serialised(q, h) == Fixed(q) /\ ~Overruns(q) /\ h = rec_to_buffer(q)

(* A header is a serialised record, which is the copy the handle keeps while *)
(* added data is written, and tells the truth when the record has ended.     *)
CodecInv ==
  /\ TypeOK
  /\ Written => \E q \in Records : Serialised(q, header) /\ (~open => Tells(q, announced, written))
  /\ open /\ ~crashed =>
       /\ Serialised(last, header) /\ last.AddedSize = announced
       /\ last.AddedSize > 0 => written <= last.AddedSize

LEMMA ClearedType == rec_cleared \in Records
<1>1. ZeroCRC \in CRCs
  BY DEF ZeroCRC, CRCs
<1> QED
  BY <1>1, CodecConstantsOK DEF rec_cleared, Records

LEMMA InitInv == Init => CodecInv
<1> SUFFICES ASSUME Init PROVE CodecInv
  OBVIOUS
<1>1. TypeOK
  BY ClearedType DEF Init, TypeOK
<1> QED
  BY <1>1 DEF Init, CodecInv, Written

(* What PutHeader establishes for the record it writes.                     *)
LEMMA HeaderPut ==
  ASSUME NEW r \in Records, Fixed(r), PutHeader(r)
  PROVE  /\ crashed' \in BOOLEAN
         /\ ~crashed' => Serialised(r, header')
<1>1. Overruns(r) \in BOOLEAN
  BY DEF Overruns
<1> QED
  BY <1>1, Zenon DEF PutHeader, Serialised

LEMMA PatchedType ==
  ASSUME NEW r \in Records, NEW n \in Nat
  PROVE  /\ Patched(r, n) \in Records
         /\ Patched(r, n).HeadFlags = r.HeadFlags /\ Patched(r, n).DataSize = r.DataSize
         /\ Patched(r, n).AddedSize = n
         /\ rec_has_added_data_CRC(r.HeadFlags) => Patched(r, n).AddedDataCRC32 = n
BY DEF Patched, Records

LEMMA ForDataType ==
  ASSUME NEW r \in Records, NEW n \in Nat
  PROVE  /\ ForData(r, n) \in Records
         /\ rec_has_added_size(ForData(r, n).HeadFlags) => ForData(r, n).AddedSize = n
         /\ rec_has_added_data_CRC(ForData(r, n).HeadFlags) =>
              ForData(r, n).AddedDataCRC32 = n
<1>1. CASE n > 0
  <2> DEFINE g == r.HeadFlags \cup IF n > TwoTo31 - 1 THEN KCF_HAS_ADDED_SIZE_8
                                                    ELSE KCF_HAS_ADDED_SIZE_4
             c == IF rec_has_added_data_CRC(r.HeadFlags) THEN n ELSE r.AddedDataCRC32
  <2>1. g \in SUBSET AllFlags
    BY DEF Records, AllFlags, KCF_HAS_ADDED_SIZE_4, KCF_HAS_ADDED_SIZE_8
  <2>2. c \in Nat
    BY DEF Records
  <2>3. rec_has_added_data_CRC(g) => c = n
    BY DEF rec_has_added_data_CRC, KCF_HAS_ADDED_DATA_CRC32, KCF_HAS_ADDED_SIZE_4,
           KCF_HAS_ADDED_SIZE_8
  <2>4. ForData(r, n) = [r EXCEPT !.AddedDataCRC32 = c, !.HeadFlags = g, !.AddedSize = n]
    BY <1>1 DEF ForData, Records
  <2> HIDE DEF g, c
  <2>5. /\ ForData(r, n) \in Records /\ ForData(r, n).HeadFlags = g
        /\ ForData(r, n).AddedSize = n /\ ForData(r, n).AddedDataCRC32 = c
    BY <2>1, <2>2, <2>4 DEF Records
  <2> QED
    BY <2>3, <2>5
<1>2. CASE ~(n > 0)
  <2>1. PICK g \in SUBSET AllFlags, z \in Nat :
          /\ g = {} /\ z = 0
          /\ ForData(r, n) = [r EXCEPT !.HeadFlags = g, !.AddedSize = z, !.AddedDataCRC32 = z]
    BY <1>2 DEF ForData
  <2>2. /\ ForData(r, n) \in Records /\ ForData(r, n).HeadFlags = {}
        /\ ForData(r, n).AddedSize = 0
    BY <2>1 DEF Records
  <2> QED
    BY <2>2 DEF rec_has_added_size, rec_has_added_data_CRC,
          KCF_HAS_ADDED_SIZE_4, KCF_HAS_ADDED_DATA_CRC32
<1> QED
  BY <1>1, <1>2

LEMMA FillStep == CodecInv /\ Fill => CodecInv'
<1> SUFFICES ASSUME CodecInv, Fill PROVE CodecInv'
  OBVIOUS
<1>1. PICK f \in SUBSET AllFlags, d \in DataSizes, n \in AddedSizes :
        record' = [record EXCEPT !.HeadFlags = f, !.DataSize = d, !.AddedSize = n]
  BY DEF Fill
<1>2. record \in Records /\ d \in Nat /\ n \in Nat
  BY CodecConstantsOK DEF CodecInv, TypeOK
<1>3. record' \in Records
  BY <1>1, <1>2 DEF Records
<1> QED
  BY <1>3 DEF Fill, CodecInv, TypeOK, Written, Serialised, Tells, Told

LEMMA WriteRecordStep == CodecInv /\ KCF_write_record => CodecInv'
<1> SUFFICES ASSUME CodecInv, KCF_write_record PROVE CodecInv'
  OBVIOUS
<1> DEFINE r == rec_fix(record)
<1>1. /\ r \in Records /\ Fixed(r) /\ r.HeadFlags = record.HeadFlags
      /\ r.AddedSize = record.AddedSize
  BY FixType DEF CodecInv, TypeOK
<1>2. /\ record' = r /\ written' = 0 /\ PutHeader(r) /\ announced' = record.AddedSize
      /\ open' = rec_has_added_size(record.HeadFlags)
      /\ last' = IF open' THEN r ELSE last
  BY DEF KCF_write_record
<1> HIDE DEF r
<1>3. crashed' \in BOOLEAN /\ (~crashed' => Serialised(r, header'))
  BY <1>1, <1>2, HeaderPut
<1>4. TypeOK'
  BY <1>1, <1>2, <1>3 DEF CodecInv, TypeOK, Records, rec_has_added_size
<1>5. Written' => \E q \in Records : Serialised(q, header') /\ (~open' => Tells(q, announced', written'))
  <2>1. ~open' => Tells(r, announced', written')
    BY <1>1, <1>2 DEF Tells
  <2> QED
    BY <1>1, <1>3, <2>1 DEF Written
<1>6. open' /\ ~crashed' =>
        /\ Serialised(last', header') /\ last'.AddedSize = announced'
        /\ (last.AddedSize > 0 => written <= last.AddedSize)'
  BY <1>1, <1>2, <1>3 DEF Records
<1> QED
  BY <1>4, <1>5, <1>6 DEF CodecInv

LEMMA WriteAddedDataStep == CodecInv /\ KCF_write_added_data => CodecInv'
<1> SUFFICES ASSUME CodecInv, KCF_write_added_data PROVE CodecInv'
  OBVIOUS
<1>1. PICK n \in ChunkSizes :
        written' = written + (IF last.AddedSize > 0 /\ last.AddedSize - written < n
                              THEN last.AddedSize - written ELSE n)
  BY DEF KCF_write_added_data
<1>2. /\ n \in Nat /\ written \in Nat /\ last.AddedSize \in Nat /\ open /\ ~crashed
      /\ UNCHANGED <<record, last, open, header, crashed, announced>>
  BY CodecConstantsOK DEF CodecInv, TypeOK, Records, KCF_write_added_data
<1>3. last.AddedSize > 0 => written <= last.AddedSize
  BY <1>2 DEF CodecInv
<1>4. written' \in Nat /\ (last.AddedSize > 0 => written' <= last.AddedSize)
  BY <1>1, <1>2, <1>3
<1> QED
  BY <1>2, <1>4 DEF CodecInv, TypeOK, Written, Serialised

(* The header of the record that ends is rewritten with one of its length.  *)
LEMMA PatchedFits ==
  ASSUME CodecInv, open, ~crashed
  PROVE  LET r == rec_fix(Patched(last, written))
         IN  /\ r \in Records /\ Fixed(r) /\ r.HeadSize = last.HeadSize
             /\ r.HeadFlags = last.HeadFlags /\ r.DataSize = last.DataSize
             /\ r.AddedSize = written
             /\ rec_has_added_data_CRC(last.HeadFlags) => r.AddedDataCRC32 = written
<1> DEFINE p == Patched(last, written)
           r == rec_fix(p)
<1>1. /\ p \in Records /\ p.HeadFlags = last.HeadFlags /\ p.DataSize = last.DataSize
      /\ p.AddedSize = written
      /\ rec_has_added_data_CRC(last.HeadFlags) => p.AddedDataCRC32 = written
  BY PatchedType DEF CodecInv, TypeOK
<1> HIDE DEF p
<1>2. /\ r \in Records /\ Fixed(r) /\ r.HeadFlags = p.HeadFlags /\ r.DataSize = p.DataSize
      /\ r.AddedSize = p.AddedSize /\ r.AddedDataCRC32 = p.AddedDataCRC32
  BY <1>1, FixType
<1> HIDE DEF r
<1>3. r.HeadSize = last.HeadSize
  BY <1>1, <1>2 DEF CodecInv, Serialised, Fixed
<1> QED
  BY <1>1, <1>2, <1>3 DEF r, p

LEMMA FinishStep == CodecInv /\ KCF_finish_added_data => CodecInv'
<1> SUFFICES ASSUME CodecInv, KCF_finish_added_data PROVE CodecInv'
  OBVIOUS
<1>1. /\ open /\ ~crashed /\ last' = rec_cleared /\ open' = FALSE
      /\ record' = record /\ written' = written /\ announced' = announced
      /\ last \in Records /\ last.AddedSize \in Nat /\ written \in Nat
      /\ last.AddedSize = announced
  BY DEF KCF_finish_added_data, CodecInv, TypeOK, Records
<1>2. CASE last.AddedSize > 0 /\ ~rec_has_added_data_CRC(last.HeadFlags)
  <2>1. header' = header /\ crashed' = crashed
    BY <1>2 DEF KCF_finish_added_data
  <2>2. Serialised(last, header) /\ written <= last.AddedSize
    BY <1>1, <1>2 DEF CodecInv
  <2>3. Tells(last, announced', written')
    BY <1>1, <1>2, <2>2 DEF Tells, Told
  <2>4. \E q \in Records : Serialised(q, header') /\ Tells(q, announced', written')
    BY <1>1, <2>1, <2>2, <2>3
  <2> QED
    BY <1>1, <2>1, <2>4, ClearedType DEF CodecInv, TypeOK
<1>3. CASE ~(last.AddedSize > 0 /\ ~rec_has_added_data_CRC(last.HeadFlags))
  <2> DEFINE r == rec_fix(Patched(last, written))
  <2>1. /\ r \in Records /\ Fixed(r) /\ r.HeadFlags = last.HeadFlags /\ r.AddedSize = written
        /\ rec_has_added_data_CRC(last.HeadFlags) => r.AddedDataCRC32 = written
    BY <1>1, PatchedFits
  <2>2. PutHeader(r)
    BY <1>3 DEF KCF_finish_added_data
  <2> HIDE DEF r
  <2>3. crashed' \in BOOLEAN /\ (~crashed' => Serialised(r, header'))
    BY <2>1, <2>2, HeaderPut
  <2>4. Tells(r, announced', written')
    <3>1. Told(r.HeadFlags, announced, written) = written
      BY <1>1, <1>3, <2>1 DEF Told
    <3> QED
      BY <1>1, <2>1, <3>1 DEF Tells
  <2>5. ~crashed' => \E q \in Records : Serialised(q, header') /\ Tells(q, announced', written')
    BY <2>1, <2>3, <2>4
  <2> QED
    BY <1>1, <2>3, <2>5, ClearedType DEF CodecInv, TypeOK, Written
<1> QED
  BY <1>2, <1>3

LEMMA WithAddedDataStep == CodecInv /\ KCF_write_record_with_added_data => CodecInv'
<1> SUFFICES ASSUME CodecInv, KCF_write_record_with_added_data PROVE CodecInv'
  OBVIOUS
<1>1. PICK n \in AddedSizes :
        LET r == rec_fix(ForData(record, n))
        IN  record' = r /\ PutHeader(r) /\ written' = n
  BY DEF KCF_write_record_with_added_data
<1>2. /\ n \in Nat /\ record \in Records /\ ~open /\ announced' = 0
      /\ UNCHANGED <<last, open>>
  BY CodecConstantsOK DEF CodecInv, TypeOK, KCF_write_record_with_added_data
<1> DEFINE p == ForData(record, n)
           r == rec_fix(p)
<1>3. /\ p \in Records
      /\ rec_has_added_size(p.HeadFlags) => p.AddedSize = n
      /\ rec_has_added_data_CRC(p.HeadFlags) => p.AddedDataCRC32 = n
  BY <1>2, ForDataType
<1>4. record' = r /\ PutHeader(r) /\ written' = n
  BY <1>1
<1> HIDE DEF p
<1>5. /\ r \in Records /\ Fixed(r) /\ r.HeadFlags = p.HeadFlags
      /\ r.AddedSize = p.AddedSize /\ r.AddedDataCRC32 = p.AddedDataCRC32
  BY <1>3, FixType
<1> HIDE DEF r
<1>6. crashed' \in BOOLEAN /\ (~crashed' => Serialised(r, header'))
  BY <1>4, <1>5, HeaderPut
<1>7. ~crashed' => \E q \in Records : Serialised(q, header') /\ Tells(q, announced', written')
  <2>1. Told(r.HeadFlags, 0, n) = n
    BY <1>2, <1>4 DEF Told
  <2>2. Tells(r, announced', written')
    BY <1>2, <1>3, <1>4, <1>5, <2>1 DEF Tells
  <2> QED
    BY <1>5, <1>6, <2>2
<1> QED
  BY <1>2, <1>4, <1>5, <1>6, <1>7 DEF CodecInv, TypeOK, Written

LEMMA CodecInvariant == Spec => []CodecInv
<1>1. CodecInv /\ [Next]_vars => CodecInv'
  <2> SUFFICES ASSUME CodecInv, [Next]_vars PROVE CodecInv'
    OBVIOUS
  <2>1. CASE Fill
    BY <2>1, FillStep
  <2>2. CASE KCF_write_record
    BY <2>2, WriteRecordStep
  <2>3. CASE KCF_write_added_data
    BY <2>3, WriteAddedDataStep
  <2>4. CASE KCF_finish_added_data
    BY <2>4, FinishStep
  <2>5. CASE KCF_write_record_with_added_data
    BY <2>5, WithAddedDataStep
  <2>6. CASE UNCHANGED vars
    BY <2>6 DEF vars, CodecInv, TypeOK, Written, Serialised, Tells, Told
  <2> QED
    BY <2>1, <2>2, <2>3, <2>4, <2>5, <2>6 DEF Next
<1> QED
  BY <1>1, InitInv, PTL DEF Spec

(***************************************************************************)
(* The results.                                                             *)
(***************************************************************************)
(* The records of the caller and of the handle keep the widths of their     *)
(* fields: whatever is written and used again, HeadSize fits in 16 bits and *)
(* no flag but the ones kcf/record.h defines appears.                       *)
THEOREM CodecTypeCorrect == Spec => []TypeOK
<1>1. CodecInv => TypeOK
  BY DEF CodecInv
<1> QED
  BY <1>1, CodecInvariant, PTL

(* A header that KCF_write_record, KCF_write_record_with_added_data or       *)
(* KCF_finish_added_data puts in the stream without overrunning its buffer   *)
(* is parsed by read_record_header into a record that rec_validate accepts.  *)
THEOREM HeadersAccepted == Spec => []HeadersValidate
<1>1. CodecInv => HeadersValidate
  BY ReadsAsWritten DEF CodecInv, HeadersValidate, Serialised
<1> QED
  BY <1>1, CodecInvariant, PTL

(* KCF_finish_added_data replaces a header by one that ends where the first  *)
(* did: kcf/write.c patches in place and moves nothing.                      *)
THEOREM HeadersPatchedInPlace == Spec => BackpatchFits
<1>1. CodecInv /\ [Next]_vars => [open /\ ~open' /\ ~crashed' => HeaderEnd(header') = HeaderEnd(header)]_vars
  <2> SUFFICES ASSUME CodecInv, Next, open, ~open', ~crashed'
               PROVE  HeaderEnd(header') = HeaderEnd(header)
    OBVIOUS
  <2>1. KCF_finish_added_data
    BY DEF Next, Fill, KCF_write_record, KCF_write_added_data, KCF_write_record_with_added_data
  <2>2. CASE last.AddedSize > 0 /\ ~rec_has_added_data_CRC(last.HeadFlags)
    BY <2>1, <2>2 DEF KCF_finish_added_data
  <2>3. CASE ~(last.AddedSize > 0 /\ ~rec_has_added_data_CRC(last.HeadFlags))
    <3> DEFINE r == rec_fix(Patched(last, written))
    <3>1. ~crashed
      BY <2>1 DEF KCF_finish_added_data
    <3>2. r \in Records /\ Fixed(r) /\ r.HeadSize = last.HeadSize
      BY <3>1, PatchedFits
    <3>3. PutHeader(r)
      BY <2>1, <2>3 DEF KCF_finish_added_data
    <3> HIDE DEF r
    <3>4. header' = rec_to_buffer(r)
      BY <3>2, <3>3, HeaderPut DEF Serialised
    <3>5. header = rec_to_buffer(last) /\ last \in Records
      BY <3>1 DEF CodecInv, TypeOK, Serialised
    <3>6. header'[4].value = r.HeadSize /\ header[4].value = last.HeadSize
      BY <3>2, <3>4, <3>5, Layout
    <3> QED
      BY <3>2, <3>6 DEF HeaderEnd
  <2> QED
    BY <2>2, <2>3
<1> QED
  BY <1>1, CodecInvariant, PTL DEF Spec, BackpatchFits

(* When a record has ended, read_record_header takes from its header the      *)
(* size of the added data that was written with it, or the size announced     *)
(* for good, which is no less: exactly if the field has eight bytes, modulo   *)
(* 2^32 if it has four (KCF_skip_record of kcf/read.c then stops short of the *)
(* next record), and the checksum of exactly what was written.                *)
THEOREM SizesKept == Spec => []SizesReadBack
<1>1. CodecInv => SizesReadBack
  <2> DEFINE r == read_record(header)
             f == r.HeadFlags
             told == Told(f, announced, written)
  <2> SUFFICES ASSUME CodecInv, Written, ~open, rec_has_added_size(f)
               PROVE  /\ written <= told
                      /\ r.AddedSize = IF rec_has_added_size_8(f) THEN told ELSE told % TwoTo32
                      /\ rec_has_added_data_CRC(f) => r.AddedDataCRC32 = written
    BY DEF SizesReadBack
  <2>1. PICK q \in Records : Serialised(q, header) /\ Tells(q, announced, written)
    BY DEF CodecInv
  <2>2. /\ f = q.HeadFlags
        /\ rec_has_added_size(q.HeadFlags) => r.AddedSize = SizeField(q.HeadFlags, q.AddedSize)
        /\ rec_has_added_data_CRC(q.HeadFlags) => r.AddedDataCRC32 = q.AddedDataCRC32
    BY <2>1, ReadsAsWritten DEF Serialised
  <2> HIDE DEF r, f
  <2>3. r.AddedSize = SizeField(f, told) /\ written <= told
    BY <2>1, <2>2 DEF Tells
  <2> QED
    BY <2>1, <2>2, <2>3 DEF Tells, SizeField
<1> QED
  BY <1>1, CodecInvariant, PTL

(* Only a record whose header and main data do not fit the 16 bits of         *)
(* HeadSize makes rec_to_buffer of kcf/record.c write past its buffer, and    *)
(* only when KCF_write_record or KCF_write_record_with_added_data first       *)
(* writes it: KCF_finish_added_data never does.                               *)
THEOREM OverrunsOnlyAtOnce == Spec => OverrunsAtOnce
<1>1. CodecInv /\ [Next]_vars =>
        [crashed' /\ ~crashed =>
           ~open /\ HeaderSize(record'.HeadFlags) + record'.DataSize >= TwoTo16]_vars
  <2> SUFFICES ASSUME CodecInv, Next, crashed', ~crashed
               PROVE  ~open /\ HeaderSize(record'.HeadFlags) + record'.DataSize >= TwoTo16
    OBVIOUS
  <2>1. ASSUME NEW q \in Records, Fixed(q), Overruns(q)
        PROVE  HeaderSize(q.HeadFlags) + q.DataSize >= TwoTo16
    <3> DEFINE a == HeaderSize(q.HeadFlags) + q.DataSize
    <3>1. a \in Nat /\ a > a % TwoTo16
      BY <2>1, WidthTypes DEF Fixed, Overruns, Records
    <3> HIDE DEF a
    <3>2. a >= TwoTo16
      BY <3>1, CodecConstantsOK
    <3> QED
      BY <3>2 DEF a
  <2>2. record \in Records
    BY DEF CodecInv, TypeOK
  <2>3. CASE KCF_write_record
    BY <2>1, <2>2, <2>3, FixType DEF KCF_write_record, PutHeader
  <2>4. CASE KCF_write_record_with_added_data
    <3>1. PICK n \in AddedSizes :
            record' = rec_fix(ForData(record, n)) /\ PutHeader(rec_fix(ForData(record, n)))
      BY <2>4 DEF KCF_write_record_with_added_data
    <3>2. ForData(record, n) \in Records
      BY <2>2, CodecConstantsOK, ForDataType
    <3> QED
      BY <2>1, <2>4, <3>1, <3>2, FixType DEF KCF_write_record_with_added_data, PutHeader
  <2>5. CASE KCF_finish_added_data
    <3> DEFINE r == rec_fix(Patched(last, written))
    <3>1. /\ r \in Records /\ Fixed(r) /\ r.HeadSize = last.HeadSize
          /\ r.HeadFlags = last.HeadFlags
          /\ r.DataSize = last.DataSize
      BY <2>5, PatchedFits DEF KCF_finish_added_data
    <3>2. ~Overruns(r)
      <4>1. ~Overruns(last)
        BY <2>5 DEF KCF_finish_added_data, CodecInv, Serialised
      <4> QED
        BY <3>1, <4>1 DEF Overruns
    <3> HIDE DEF r
    <3> QED
      BY <2>5, <3>2 DEF KCF_finish_added_data, PutHeader, r
  <2> QED
    BY <2>3, <2>4, <2>5 DEF Next, Fill, KCF_write_added_data
<1> QED
  BY <1>1, CodecInvariant, PTL DEF Spec, OverrunsAtOnce
==============================================================================
