----------------------------- MODULE RecordCodec -----------------------------
(***************************************************************************)
(* The header of a record, field by field: how kcf/record.c sizes, checks   *)
(* and serialises it, how kcf/write.c fills it in, rewrites it in place and *)
(* keeps it in a struct that the caller uses again, and how kcf/read.c      *)
(* takes it apart.  KcfHandle takes a header for one cell of the stream;    *)
(* that a rewritten one fits where the first was is shown here.             *)
(*                                                                          *)
(* Sizes are numbers of bytes.  The contents of the main data, of the added *)
(* data and of checksums do not matter: the CRC32 of n bytes of added data  *)
(* is n, and HeadCRC is what it is computed over.                           *)
(***************************************************************************)
EXTENDS Fields

CONSTANTS
  TwoTo16, TwoTo31, TwoTo32,  \* numbers a field of 16, 31 and 32 bits can tell apart
  DataSizes,   \* sizes of main data
  AddedSizes,  \* sizes a caller puts in a record or passes with one
  ChunkSizes,  \* sizes of pieces of added data
  MaxWritten   \* bound on the added data of a record

ASSUME CodecConstantsOK ==
  /\ TwoTo16 \in Nat /\ TwoTo31 \in Nat /\ TwoTo32 \in Nat
  /\ 18 < TwoTo16 /\ 0 < TwoTo31 /\ TwoTo31 < TwoTo32
  /\ DataSizes \subseteq Nat /\ AddedSizes \subseteq Nat /\ ChunkSizes \subseteq Nat
  /\ MaxWritten \in Nat

VARIABLES
  record,   \* the caller's struct KcfRecord
  last,     \* kcf->LastRecord
  open,     \* whether ParserState is WRITE_ADDED_DATA
  header,   \* the header in the stream: what field is at which offset
  written,  \* bytes of added data in the stream after it
  crashed,  \* the buffer of the header has been overrun
  announced \* the AddedSize that the last record was written with, for the properties

vars == <<record, last, open, header, written, crashed, announced>>

(***************************************************************************)
(* Records.  The flags are the set of the bits that matter.                 *)
(***************************************************************************)
KCF_HAS_ADDED_DATA_CRC32 == {"0x20"}
KCF_HAS_ADDED_SIZE_4 == {"0x80"}
KCF_HAS_ADDED_SIZE_8 == {"0x40", "0x80"}

AllFlags == KCF_HAS_ADDED_DATA_CRC32 \cup KCF_HAS_ADDED_SIZE_8

rec_has_added_size(f) == KCF_HAS_ADDED_SIZE_4 \subseteq f
rec_has_added_size_8(f) == KCF_HAS_ADDED_SIZE_8 \subseteq f
rec_has_added_data_CRC(f) == KCF_HAS_ADDED_DATA_CRC32 \subseteq f

SizeWidth(f) == IF rec_has_added_size_8(f) THEN 8 ELSE IF rec_has_added_size(f) THEN 4 ELSE 0
CRCWidth(f)  == IF rec_has_added_data_CRC(f) THEN 4 ELSE 0

HeaderSize(f) == 6 + SizeWidth(f) + CRCWidth(f)

Absent == -1

(* A number in the field for AddedSize, which has as many bytes as the      *)
(* flags say.                                                               *)
SizeField(f, n) ==
  IF rec_has_added_size_8(f) THEN n ELSE IF rec_has_added_size(f) THEN n % TwoTo32 ELSE Absent

CRCField(f, n) == IF rec_has_added_data_CRC(f) THEN n ELSE Absent

rec_calculate_CRC(r) ==
  [flags |-> r.HeadFlags, size |-> r.HeadSize,
   added |-> SizeField(r.HeadFlags, r.AddedSize), crc |-> CRCField(r.HeadFlags, r.AddedDataCRC32),
   data |-> r.DataSize]

rec_validate(r) == r.HeadCRC = rec_calculate_CRC(r)

ZeroCRC == [flags |-> {}, size |-> 0, added |-> Absent, crc |-> Absent, data |-> 0]

rec_cleared ==
  [HeadCRC |-> ZeroCRC, HeadFlags |-> {}, HeadSize |-> 0, AddedSize |-> 0,
   AddedDataCRC32 |-> 0, DataSize |-> 0]

(* Mutant: HeadSize is not cut to the 16 bits that it has.                   *)
FixWide(r) ==
  LET sized == [r EXCEPT !.HeadSize = HeaderSize(r.HeadFlags) + r.DataSize]
  IN  [sized EXCEPT !.HeadCRC = rec_calculate_CRC(sized)]

(* HeadSize has 16 bits.                                                    *)
rec_fix(r) ==
  LET sized == [r EXCEPT !.HeadSize = (HeaderSize(r.HeadFlags) + r.DataSize) % TwoTo16]
  IN  [sized EXCEPT !.HeadCRC = rec_calculate_CRC(sized)]

(***************************************************************************)
(* Headers as bytes.                                                        *)
(***************************************************************************)
rec_to_buffer(r) ==
  LET f == r.HeadFlags
      size == SizeWidth(f)
      data == HeaderSize(f)
      Offsets == {0, 3, 4, data}
                 \cup (IF size > 0 THEN {6} ELSE {})
                 \cup (IF CRCWidth(f) > 0 THEN {6 + size} ELSE {})
  IN  [at \in Offsets |->
         CASE at = 0 -> Field(2, r.HeadCRC)
           [] at = 3 -> Field(1, f)
           [] at = 4 -> Field(2, r.HeadSize)
           [] at = data -> Field(r.DataSize, r.DataSize)
           [] at = 6 /\ size > 0 -> Field(size, SizeField(f, r.AddedSize))
           [] OTHER -> Field(4, r.AddedDataCRC32)]

(* The buffer has HeadSize bytes; the main data is copied to it unchecked.  *)
Overruns(r) == HeaderSize(r.HeadFlags) + r.DataSize > r.HeadSize

(* Mutant: the checksum is looked for after four bytes of size.             *)
ReadWithShortSize(h) ==
  LET f == h[3].value
      at == IF rec_has_added_size(f) THEN 10 ELSE 6
      body == at + CRCWidth(f)
      data == h[4].value - body
  IN  [HeadCRC |-> h[0].value, HeadFlags |-> f, HeadSize |-> h[4].value,
       AddedSize |-> IF rec_has_added_size(f) THEN FieldAt(h, 14, 6, SizeWidth(f)) ELSE 0,
       AddedDataCRC32 |-> IF rec_has_added_data_CRC(f) THEN FieldAt(h, 18, at, 4) ELSE 0,
       DataSize |-> FieldAt(h, body + data, body, data)]

(* read_record_header and the body that KCF_read_record takes after it.     *)
read_record(h) ==
  LET f == h[3].value
      at == 6 + SizeWidth(f)
      body == at + CRCWidth(f)
      data == h[4].value - body
  IN  [HeadCRC |-> h[0].value, HeadFlags |-> f, HeadSize |-> h[4].value,
       AddedSize |-> IF rec_has_added_size(f) THEN FieldAt(h, 14, 6, SizeWidth(f)) ELSE 0,
       AddedDataCRC32 |-> IF rec_has_added_data_CRC(f) THEN FieldAt(h, 18, at, 4) ELSE 0,
       DataSize |-> FieldAt(h, body + data, body, data)]

(***************************************************************************)
(* The calls.  Writing a record while another is open, which ends that one  *)
(* first, is KCF_finish_added_data followed by the write.                   *)
(***************************************************************************)
(* A header that is too long is cut to what fits in HeadSize and written    *)
(* past the end of the buffer: nothing is said of what follows.             *)
PutHeader(r) ==
  /\ crashed' = Overruns(r)
  /\ header' = IF Overruns(r) THEN header ELSE rec_to_buffer(r)

(* The caller fills in a record, a new one or one it has used before: any   *)
(* flags with any size, even one that their field is too short for, and the *)
(* rest as the last call left it.                                           *)
Fill ==
  /\ ~crashed
  /\ \E f \in SUBSET AllFlags, d \in DataSizes, n \in AddedSizes :
       record' = [record EXCEPT !.HeadFlags = f, !.DataSize = d, !.AddedSize = n]
  /\ UNCHANGED <<last, open, header, written, crashed, announced>>

KCF_write_record ==
  /\ ~crashed /\ ~open
  /\ record' = rec_fix(record)
  /\ PutHeader(rec_fix(record))
  /\ written' = 0
  /\ open' = rec_has_added_size(record.HeadFlags)
  /\ last' = IF open' THEN rec_fix(record) ELSE last
  /\ announced' = record.AddedSize

(* The size announced is the most that is written, unless it is zero.       *)
KCF_write_added_data ==
  /\ ~crashed /\ open
  /\ \E n \in ChunkSizes :
       LET left == last.AddedSize - written
       IN  /\ written + n <= MaxWritten
           /\ written' = written + (IF last.AddedSize > 0 /\ left < n THEN left ELSE n)
  /\ UNCHANGED <<record, last, open, header, crashed, announced>>

(* Mutants: the size is left as it was announced; a large size gets the     *)
(* flag that it needs when it is known.                                     *)
PatchedChecksum(r, n) ==
  [r EXCEPT !.AddedDataCRC32 = IF rec_has_added_data_CRC(r.HeadFlags) THEN n ELSE 0]

PatchedWithFlag(r, n) ==
  [r EXCEPT !.AddedSize = n, !.AddedDataCRC32 = n,
            !.HeadFlags = IF n >= TwoTo31 THEN @ \cup KCF_HAS_ADDED_SIZE_8 ELSE @]

(* What is filled in when the record ends.                                  *)
Patched(r, n) ==
  [r EXCEPT !.AddedSize = n,
            !.AddedDataCRC32 = IF rec_has_added_data_CRC(r.HeadFlags) THEN n ELSE 0]

KCF_finish_added_data ==
  /\ ~crashed /\ open
  /\ IF last.AddedSize > 0 /\ ~rec_has_added_data_CRC(last.HeadFlags)
     THEN UNCHANGED <<header, crashed>>
     ELSE PutHeader(rec_fix(Patched(last, written)))
  /\ last' = rec_cleared /\ open' = FALSE
  /\ UNCHANGED <<record, written, announced>>

(* Flags and sizes for n bytes of data that come with the record.  Of the   *)
(* flags of a record used before, that of eight bytes is kept.              *)
ForData(r, n) ==
  IF n > 0
  THEN [r EXCEPT !.AddedDataCRC32 = IF rec_has_added_data_CRC(r.HeadFlags) THEN n ELSE @,
                 !.HeadFlags = @ \cup IF n > TwoTo31 - 1 THEN KCF_HAS_ADDED_SIZE_8
                                                        ELSE KCF_HAS_ADDED_SIZE_4,
                 !.AddedSize = n]
  ELSE [r EXCEPT !.HeadFlags = {}, !.AddedSize = 0, !.AddedDataCRC32 = 0]

KCF_write_record_with_added_data ==
  /\ ~crashed /\ ~open
  /\ \E n \in AddedSizes :
       LET r == rec_fix(ForData(record, n))
       IN  /\ record' = r /\ PutHeader(r) /\ written' = n
  /\ announced' = 0
  /\ UNCHANGED <<last, open>>

Init ==
  /\ record = rec_cleared /\ last = rec_cleared
  /\ open = FALSE /\ header = NoFields /\ written = 0 /\ crashed = FALSE /\ announced = 0

Next ==
  \/ Fill
  \/ KCF_write_record \/ KCF_write_added_data \/ KCF_finish_added_data
  \/ KCF_write_record_with_added_data

Spec == Init /\ [][Next]_vars

(***************************************************************************)
(* Properties.                                                              *)
(***************************************************************************)
CRCs == [flags : SUBSET AllFlags, size : Nat, added : Nat \cup {Absent},
         crc : Nat \cup {Absent}, data : Nat]

Records ==
  [HeadCRC : CRCs, HeadFlags : SUBSET AllFlags, HeadSize : 0..(TwoTo16 - 1),
   AddedSize : Nat, AddedDataCRC32 : Nat, DataSize : Nat]

TypeOK ==
  /\ record \in Records /\ last \in Records
  /\ open \in BOOLEAN /\ crashed \in BOOLEAN /\ written \in Nat /\ announced \in Nat

Written == header # NoFields /\ ~crashed

(* Where the added data begins, as far as the fields say.                   *)
HeaderEnd(h) == h[4].value

(* Rewriting the header when its record ends neither reaches into the added *)
(* data that follows it nor leaves a gap.                                   *)
BackpatchFits ==
  [][open /\ ~open' /\ ~crashed' => HeaderEnd(header') = HeaderEnd(header)]_vars

(* Whatever header is in the stream, before and after it is patched, from a *)
(* new record or one used again, is read as a record that passes            *)
(* rec_validate.                                                            *)
HeadersValidate == Written => rec_validate(read_record(header))

(* The size that a record with flags f, which has ended with n bytes of     *)
(* added data, is to have in its header: n, or the size it was announced    *)
(* with, where one that is announced is not made good at the end.           *)
Told(f, size, n) == IF size > 0 /\ ~rec_has_added_data_CRC(f) THEN size ELSE n

(* What is read from the header of a record that has ended: a size that its *)
(* added data has not outgrown, whole in eight bytes and modulo 2^32 in     *)
(* four, and the checksum of what was written.                              *)
SizesReadBack ==
  LET r == read_record(header)
      f == r.HeadFlags
      told == Told(f, announced, written)
  IN  Written /\ ~open /\ rec_has_added_size(f) =>
        /\ written <= told
        /\ r.AddedSize = IF rec_has_added_size_8(f) THEN told ELSE told % TwoTo32
        /\ rec_has_added_data_CRC(f) => r.AddedDataCRC32 = written

(* A buffer is overrun only by a record too long for HeadSize, and by that  *)
(* when it is first written: never when a header that fitted is rewritten.  *)
OverrunsAtOnce ==
  [][crashed' /\ ~crashed =>
       ~open /\ HeaderSize(record'.HeadFlags) + record'.DataSize >= TwoTo16]_vars
==============================================================================
