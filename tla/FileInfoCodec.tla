---------------------------- MODULE FileInfoCodec ----------------------------
(***************************************************************************)
(* What KCF records hold for the layers above: struct KcfFileInfo, which    *)
(* kcf/files.c puts into the main data of a file header record and takes    *)
(* out of it, and the archive header of kcf/archhdr.c.  The names of the    *)
(* first two functions are the wrong way round in the source, and kept:     *)
(* record_to_file_info fills the record, file_info_to_record the struct.    *)
(*                                                                          *)
(* A program has two structs, its own and the one in the handle, and one    *)
(* record, which it uses again and again.  File names and main data are     *)
(* blocks of the heap.  The text of a name is told by its length.  The flags *)
(* of the record do not matter here (see RecordCodec); the checksum of a    *)
(* header is what it is computed over.                                      *)
(***************************************************************************)
EXTENDS Fields

CONSTANTS
  TwoTo16, TwoTo32,  \* numbers a field of 16 and 32 bits can tell apart
  FlagSets,          \* which optional fields a caller sets
  UnpackedSizes, NameSizes, Values, Versions,
  Blocks,            \* of the heap
  NULL

Optional == {"TimeStamp", "FileCRC32", "UnpackedSize", "UnpackedSize8"}

ASSUME FileInfoConstantsOK ==
  /\ TwoTo16 \in Nat /\ 36 < TwoTo16 /\ TwoTo32 \in Nat /\ 0 < TwoTo32
  /\ FlagSets \subseteq SUBSET Optional
  /\ UnpackedSizes \subseteq Nat /\ NameSizes \subseteq Nat /\ Values \subseteq Nat
  /\ Versions \subseteq 0..(TwoTo16 - 1)
  /\ NULL \notin Blocks

VARIABLES
  infos,    \* the structs KcfFileInfo
  record,   \* a struct KcfRecord
  header,   \* a struct KcfArchiveHeader
  live,     \* blocks that are allocated
  source,   \* history: the record holds this struct, this version, or nothing
  crashed   \* a null pointer was used

vars == <<infos, record, header, live, source, crashed>>

Structs == {"FileInfo", "CurrentFile"}

KCF_FILE_HEADER == "F"
KCF_ARCHIVE_HEADER == "A"

NoName == [block |-> NULL, text |-> 0, size |-> 0]

ClearInfo ==
  [Has |-> {}, TimeStamp |-> 0, UnpackedSize |-> 0, FileName |-> NoName,
   FileCRC32 |-> 0, CompressionInfo |-> 0, FileType |-> "none"]

NoCRC == [type |-> "none", size |-> 0, data |-> NoFields]

ClearRecord ==
  [HeadCRC |-> NoCRC, HeadType |-> "none", HeadSize |-> 0,
   Data |-> NoFields, block |-> NULL, DataSize |-> 0]

Nothing == [kind |-> "none"]
FileOf(i) == [kind |-> KCF_FILE_HEADER, info |-> i]
VersionOf(v) == [kind |-> KCF_ARCHIVE_HEADER, version |-> v]

(***************************************************************************)
(* Records.                                                                 *)
(***************************************************************************)
rec_calculate_CRC(r) == [type |-> r.HeadType, size |-> r.HeadSize, data |-> r.Data]

(* Mutant: HeadSize is not cut to the 16 bits that it has.                   *)
FixWide(r) ==
  LET sized == [r EXCEPT !.HeadSize = 6 + r.DataSize]
  IN  [sized EXCEPT !.HeadCRC = rec_calculate_CRC(sized)]

rec_fix(r) ==
  LET sized == [r EXCEPT !.HeadSize = (6 + r.DataSize) % TwoTo16]
  IN  [sized EXCEPT !.HeadCRC = rec_calculate_CRC(sized)]

(* Mutant: the type alone decides.                                          *)
AcceptsUnchecked(r, type) ==
  /\ r.HeadType = type
  /\ type = KCF_ARCHIVE_HEADER => r.HeadSize >= 8

(* Whether the reader of this type of record takes record r.                *)
Accepts(r, type) ==
  /\ r.HeadCRC = rec_calculate_CRC(r)
  /\ r.HeadType = type
  /\ type = KCF_ARCHIVE_HEADER => r.HeadSize >= 8

(***************************************************************************)
(* The main data of a file header.                                          *)
(***************************************************************************)
UnpackedWidth(H) ==
  IF "UnpackedSize" \notin H THEN 0 ELSE IF "UnpackedSize8" \in H THEN 8 ELSE 4

CRCWidth(H) == IF "FileCRC32" \in H THEN 4 ELSE 0
StampWidth(H) == IF "TimeStamp" \in H THEN 8 ELSE 0

(* Mutant: eight bytes of size are counted as four.                         *)
ShortDataSize(i) ==
  2 + (IF "UnpackedSize" \in i.Has THEN 4 ELSE 0)
    + CRCWidth(i.Has) + StampWidth(i.Has) + 4 + 2 + i.FileName.size

get_file_info_data_size(i) ==
  2 + UnpackedWidth(i.Has) + CRCWidth(i.Has) + StampWidth(i.Has) + 4 + 2 + i.FileName.size

(* The bit of eight bytes implies that of four.                             *)
FileFlags(H) == IF "UnpackedSize8" \in H THEN H \cup {"UnpackedSize"} ELSE H

Truncated(w, n) == IF w = 8 THEN n ELSE n % TwoTo32

(* Offsets of the fields of fixed size, from the widths of the optional.    *)
CRCAt(w) == 2 + w
CompressionAt(w, c) == 2 + w + c
StampAt(w, c) == 6 + w + c
NameSizeAt(w, c, t) == 6 + w + c + t

FileData(i) ==
  LET w == UnpackedWidth(i.Has)
      c == CRCWidth(i.Has)
      t == StampWidth(i.Has)
      name == NameSizeAt(w, c, t) + 2
      Offsets == {0, 1, CompressionAt(w, c), NameSizeAt(w, c, t), name}
                 \cup (IF w > 0 THEN {2} ELSE {})
                 \cup (IF c > 0 THEN {CRCAt(w)} ELSE {})
                 \cup (IF t > 0 THEN {StampAt(w, c)} ELSE {})
  IN  [at \in Offsets |->
         CASE at = 0 -> Field(1, FileFlags(i.Has))
           [] at = 1 -> Field(1, i.FileType)
           [] at = CompressionAt(w, c) -> Field(4, i.CompressionInfo)
           [] at = NameSizeAt(w, c, t) -> Field(2, i.FileName.size % TwoTo16)
           [] at = name -> Field(i.FileName.size, i.FileName.text)
           [] at = 2 /\ w > 0 -> Field(w, Truncated(w, i.UnpackedSize))
           [] at = CRCAt(w) /\ c > 0 -> Field(4, i.FileCRC32)
           [] OTHER -> Field(8, i.TimeStamp)]

(* The text of a name of n bytes at an offset.                              *)
TextAt(D, at, n) == IF at \in DOMAIN D /\ n <= D[at].width THEN D[at].value ELSE Garbage

(* The widths that the flags tell.                                          *)
FlaggedWidth(f) ==
  IF {"UnpackedSize", "UnpackedSize8"} \subseteq f THEN 8
  ELSE IF "UnpackedSize" \in f THEN 4 ELSE 0

(* Mutant: the name is looked for where the time stamp is.                  *)
InfoWithoutStamp(old, D, size) ==
  LET f == D[0].value
      w == FlaggedWidth(f)
      c == CRCWidth(f)
      n == FieldAt(D, size, StampAt(w, c), 2)
  IN  [old EXCEPT
         !.Has = IF w = 8 THEN f ELSE f \ {"UnpackedSize8"},
         !.UnpackedSize = IF w > 0 THEN FieldAt(D, size, 2, w) ELSE @,
         !.FileCRC32 = IF c > 0 THEN FieldAt(D, size, CRCAt(w), 4) ELSE @,
         !.CompressionInfo = FieldAt(D, size, CompressionAt(w, c), 4),
         !.TimeStamp = IF StampWidth(f) > 0 THEN FieldAt(D, size, StampAt(w, c), 8) ELSE @,
         !.FileName.size = n,
         !.FileName.text = TextAt(D, StampAt(w, c) + 2, n)]

(* What the struct old becomes when it is read from size bytes of main data *)
(* D, but for the block of its name.  Fields that are absent keep what they *)
(* hold, and so does FileType, whose byte is read and dropped.              *)
InfoFrom(old, D, size) ==
  LET f == D[0].value
      w == FlaggedWidth(f)
      c == CRCWidth(f)
      t == StampWidth(f)
      n == FieldAt(D, size, NameSizeAt(w, c, t), 2)
  IN  [old EXCEPT
         !.Has = IF w = 8 THEN f ELSE f \ {"UnpackedSize8"},
         !.UnpackedSize = IF w > 0 THEN FieldAt(D, size, 2, w) ELSE @,
         !.FileCRC32 = IF c > 0 THEN FieldAt(D, size, CRCAt(w), 4) ELSE @,
         !.CompressionInfo = FieldAt(D, size, CompressionAt(w, c), 4),
         !.TimeStamp = IF t > 0 THEN FieldAt(D, size, StampAt(w, c), 8) ELSE @,
         !.FileName.size = n,
         !.FileName.text = TextAt(D, NameSizeAt(w, c, t) + 2, n)]

(***************************************************************************)
(* The calls.  An allocation may fail; a block that nothing refers to any   *)
(* more stays allocated.                                                    *)
(***************************************************************************)
Allocated(b) == b \in Blocks \ live /\ live' = live \cup {b}

(* The caller fills a struct in, with a name of its own.  The size has      *)
(* eight bytes or four, but not eight without being there.                  *)
Fill ==
  /\ ~crashed
  /\ infos["FileInfo"].FileName = NoName
  /\ \E H \in FlagSets, u \in UnpackedSizes, n \in NameSizes, v \in Values, b \in Blocks :
       /\ "UnpackedSize8" \in H => "UnpackedSize" \in H
       /\ Allocated(b)
       /\ infos' = [infos EXCEPT !["FileInfo"] =
            [Has |-> H, TimeStamp |-> v, UnpackedSize |-> u,
             FileName |-> [block |-> b, text |-> n, size |-> n],
             FileCRC32 |-> v + 1, CompressionInfo |-> v + 2, FileType |-> "regular"]]
  /\ UNCHANGED <<record, header, source, crashed>>

(* The type is set before memory is asked for; a name that is not there is  *)
(* no error until it is copied.                                             *)
record_to_file_info(d) ==
  /\ ~crashed
  /\ LET i == infos[d]
         typed == [record EXCEPT !.HeadType = KCF_FILE_HEADER, !.Data = NoFields, !.block = NULL]
     IN  \/ record' = typed /\ source' = Nothing /\ UNCHANGED <<live, crashed>>
         \/ \E b \in Blocks :
              /\ Allocated(b)
              /\ crashed' = (i.FileName = NoName)
              /\ source' = FileOf(i)
              /\ record' = rec_fix([typed EXCEPT !.DataSize = get_file_info_data_size(i),
                                                 !.Data = FileData(i), !.block = b])
  /\ UNCHANGED <<infos, header>>

(* A record that is not accepted changes nothing.                           *)
file_info_to_record(d) ==
  /\ ~crashed /\ Accepts(record, KCF_FILE_HEADER)
  /\ LET read == InfoFrom(infos[d], record.Data, record.DataSize)
     IN  \/ infos' = [infos EXCEPT ![d] = [read EXCEPT !.FileName = NoName]] /\ UNCHANGED live
         \/ \E b \in Blocks :
              /\ Allocated(b)
              /\ infos' = [infos EXCEPT ![d] = [read EXCEPT !.FileName.block = b]]
  /\ UNCHANGED <<record, header, source, crashed>>

(* Mutant: the memory is cleared, the name kept.                            *)
ClearedButName(d) ==
  /\ ~crashed
  /\ live' = live \ {infos[d].FileName.block}
  /\ infos' = [infos EXCEPT ![d] = [ClearInfo EXCEPT !.FileName = infos[d].FileName]]
  /\ UNCHANGED <<record, header, source, crashed>>

file_info_clear(d) ==
  /\ ~crashed
  /\ live' = live \ {infos[d].FileName.block}
  /\ infos' = [infos EXCEPT ![d] = ClearInfo]
  /\ UNCHANGED <<record, header, source, crashed>>

(* Dest keeps its name when Src has none, and is half copied when there is  *)
(* no memory.                                                               *)
file_info_copy(Dest, Src) ==
  /\ ~crashed /\ Dest # Src
  /\ LET i == infos[Src]
         begun == [infos[Dest] EXCEPT !.TimeStamp = i.TimeStamp, !.UnpackedSize = i.UnpackedSize]
     IN  \/ /\ i.FileName = NoName
            /\ infos' = [infos EXCEPT ![Dest] = [i EXCEPT !.FileName = begun.FileName]]
            /\ UNCHANGED live
         \/ /\ i.FileName # NoName
            /\ infos' = [infos EXCEPT ![Dest] = [begun EXCEPT !.FileName = NoName]]
            /\ UNCHANGED live
         \/ /\ i.FileName # NoName
            /\ \E b \in Blocks :
                 /\ Allocated(b)
                 /\ infos' = [infos EXCEPT ![Dest] = [i EXCEPT !.FileName.block = b]]
  /\ UNCHANGED <<record, header, source, crashed>>

rec_clear ==
  /\ ~crashed
  /\ live' = live \ {record.block}
  /\ record' = ClearRecord /\ source' = Nothing
  /\ UNCHANGED <<infos, header, crashed>>

(* The allocation is not tested: a null pointer is written through.         *)
rec_from_archive_header ==
  /\ ~crashed
  /\ \/ crashed' = TRUE /\ UNCHANGED <<record, live, source>>
     \/ \E b \in Blocks :
          /\ Allocated(b)
          /\ record' = rec_fix([record EXCEPT !.HeadType = KCF_ARCHIVE_HEADER, !.DataSize = 2,
                                              !.Data = [at \in {0} |-> Field(2, header)],
                                              !.block = b])
          /\ source' = VersionOf(header)
          /\ UNCHANGED crashed
  /\ UNCHANGED <<infos, header>>

rec_to_archive_header ==
  /\ ~crashed /\ Accepts(record, KCF_ARCHIVE_HEADER)
  /\ header' = FieldAt(record.Data, record.DataSize, 0, 2)
  /\ UNCHANGED <<infos, record, live, source, crashed>>

ahdr_clear ==
  /\ ~crashed
  /\ header' = 0
  /\ UNCHANGED <<infos, record, live, source, crashed>>

(* The version is the one that KCF_write_archive_header sets, or another.   *)
Init ==
  /\ infos = [d \in Structs |-> ClearInfo] /\ record = ClearRecord
  /\ header \in Versions /\ live = {} /\ source = Nothing /\ crashed = FALSE

Next ==
  \/ Fill \/ rec_clear \/ rec_from_archive_header \/ rec_to_archive_header \/ ahdr_clear
  \/ \E d \in Structs :
       \/ record_to_file_info(d) \/ file_info_to_record(d) \/ file_info_clear(d)
       \/ \E s \in Structs : file_info_copy(d, s)

Spec == Init /\ [][Next]_vars

(***************************************************************************)
(* Properties.                                                              *)
(***************************************************************************)
Readable == Nat \cup {Garbage}

Names ==
  {NoName} \cup [block : Blocks, text : Readable, size : Readable]

Infos ==
  [Has : SUBSET Optional, TimeStamp : Readable, UnpackedSize : Readable, FileName : Names,
   FileCRC32 : Readable, CompressionInfo : Readable, FileType : {"none", "regular"}]

(* Structs hold values of their types; sizes of headers have 16 bits.       *)
TypeOK ==
  /\ infos \in [Structs -> Infos]
  /\ record.HeadType \in {"none", KCF_FILE_HEADER, KCF_ARCHIVE_HEADER}
  /\ record.HeadSize \in 0..(TwoTo16 - 1) /\ record.DataSize \in Readable
  /\ record.block \in Blocks \cup {NULL}
  /\ header \in 0..(TwoTo16 - 1)
  /\ live \subseteq Blocks /\ crashed \in BOOLEAN

HoldsFile == ~crashed /\ source.kind = KCF_FILE_HEADER

(* Whatever struct a file header is read into, used before or not, it then  *)
(* tells what the record was made from: the fields that are there, none     *)
(* that are not, and the name; sizes of four bytes and lengths of names cut *)
(* to their fields.  The type of the file is another matter.                *)
InfoReadBack ==
  HoldsFile => \A d \in Structs :
    LET got == InfoFrom(infos[d], record.Data, record.DataSize)
        was == source.info
    IN  /\ got.Has = was.Has
        /\ got.CompressionInfo = was.CompressionInfo
        /\ "UnpackedSize" \in was.Has =>
             got.UnpackedSize = Truncated(UnpackedWidth(was.Has), was.UnpackedSize)
        /\ "FileCRC32" \in was.Has => got.FileCRC32 = was.FileCRC32
        /\ "TimeStamp" \in was.Has => got.TimeStamp = was.TimeStamp
        /\ got.FileName.text = was.FileName.text
        /\ got.FileName.size = was.FileName.size % TwoTo16

(* The main data is filled to the last byte, no byte twice and none past    *)
(* the memory that was asked for: the size is computed in one function and  *)
(* used up in another, field by field.                                      *)
DataTiled == HoldsFile => Tiles(record.Data, record.DataSize)

(* A record is read as what it was last filled as: file headers and archive *)
(* headers by their own readers, and by neither a record whose filling has  *)
(* failed half-way, whatever it held before.                                *)
ReadAsFilled ==
  ~crashed => \A type \in {KCF_FILE_HEADER, KCF_ARCHIVE_HEADER} :
                Accepts(record, type) <=> source.kind = type

(* Every block that is referred to is allocated, and by one struct only:    *)
(* clearing one leaves the others their names, and nothing is freed twice.  *)
BlocksOwned ==
  LET Used == [d \in Structs |-> infos[d].FileName.block]
  IN  /\ \A d \in Structs : Used[d] \in live \cup {NULL} /\ Used[d] \in {NULL} \cup (Blocks \ {record.block})
      /\ record.block \in live \cup {NULL}
      /\ \A d, e \in Structs : d # e /\ Used[d] = Used[e] => Used[d] = NULL

(* spec.md:122: the file header has the type of the file, and the struct    *)
(* that it is read into has a field for it.                                 *)
FileTypeReadBack ==
  HoldsFile => \A d \in Structs : InfoFrom(infos[d], record.Data, record.DataSize).FileType = source.info.FileType
==============================================================================
