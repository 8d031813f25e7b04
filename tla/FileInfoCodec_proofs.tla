------------------------- MODULE FileInfoCodec_proofs -------------------------
(***************************************************************************)
(* Theorems about FileInfoCodec for all widths, values and heaps.           *)
(***************************************************************************)
EXTENDS FileInfoCodec, TLAPS

(***************************************************************************)
(* Structs that the calls can leave: all values have been read from where   *)
(* something was written, and eight bytes of size are a size.               *)
(***************************************************************************)
Sized(H) == "UnpackedSize8" \in H => "UnpackedSize" \in H

RawNames == [block : Blocks \cup {NULL}, text : Nat, size : Nat]

RawInfos ==
  [Has : SUBSET Optional, TimeStamp : Nat, UnpackedSize : Nat, FileName : RawNames,
   FileCRC32 : Nat, CompressionInfo : Nat, FileType : {"none", "regular"}]

GoodInfos ==
  {i \in RawInfos : /\ Sized(i.Has)
                    /\ i.FileName.block = NULL => i.FileName = NoName}

LEMMA ModBounds ==
  ASSUME NEW a \in Nat, NEW n \in Nat, n > 0
  PROVE  a % n \in 0..(n - 1) /\ a % n <= a
OBVIOUS

LEMMA Cut ==
  ASSUME NEW a \in Nat
  PROVE  /\ a % TwoTo16 \in Nat /\ a % TwoTo16 <= a /\ a % TwoTo16 \in 0..(TwoTo16 - 1)
         /\ \A w : Truncated(w, a) \in Nat
<1>1. TwoTo16 \in Nat /\ TwoTo16 > 0 /\ TwoTo32 \in Nat /\ TwoTo32 > 0
  BY FileInfoConstantsOK
<1>2. a % TwoTo16 \in 0..(TwoTo16 - 1) /\ a % TwoTo16 <= a
  BY <1>1, ModBounds
<1>3. a % TwoTo32 \in 0..(TwoTo32 - 1)
  BY <1>1, ModBounds
<1> QED
  BY <1>1, <1>2, <1>3 DEF Truncated

LEMMA Widths ==
  ASSUME NEW H \in SUBSET Optional
  PROVE  /\ UnpackedWidth(H) \in {0, 4, 8} /\ CRCWidth(H) \in {0, 4} /\ StampWidth(H) \in {0, 8}
         /\ "UnpackedSize" \in H <=> UnpackedWidth(H) > 0
         /\ "UnpackedSize8" \in H /\ Sized(H) <=> UnpackedWidth(H) = 8
         /\ "FileCRC32" \in H <=> CRCWidth(H) > 0
         /\ "TimeStamp" \in H <=> StampWidth(H) > 0
         /\ Sized(H) => FileFlags(H) = H /\ FlaggedWidth(H) = UnpackedWidth(H)
<1>1. /\ UnpackedWidth(H) \in {0, 4, 8} /\ CRCWidth(H) \in {0, 4} /\ StampWidth(H) \in {0, 8}
      /\ "UnpackedSize" \in H <=> UnpackedWidth(H) > 0
      /\ "UnpackedSize8" \in H /\ Sized(H) <=> UnpackedWidth(H) = 8
      /\ "FileCRC32" \in H <=> CRCWidth(H) > 0
      /\ "TimeStamp" \in H <=> StampWidth(H) > 0
  BY DEF UnpackedWidth, CRCWidth, StampWidth, Sized
<1>2. Sized(H) => FileFlags(H) = H /\ FlaggedWidth(H) = UnpackedWidth(H)
  BY DEF Sized, FileFlags, FlaggedWidth, UnpackedWidth
<1> QED
  BY <1>1, <1>2

(***************************************************************************)
(* The main data of a file header: where each field is, and that they fill  *)
(* it.                                                                      *)
(***************************************************************************)
LaidOut(i, w, c, t, D) ==
  /\ DOMAIN D = {0, 1, 2 + w + c, 6 + w + c + t, 8 + w + c + t}
                \cup (IF w > 0 THEN {2} ELSE {}) \cup (IF c > 0 THEN {2 + w} ELSE {})
                \cup (IF t > 0 THEN {6 + w + c} ELSE {})
  /\ D[0] = Field(1, FileFlags(i.Has)) /\ D[1] = Field(1, i.FileType)
  /\ D[2 + w + c] = Field(4, i.CompressionInfo)
  /\ D[6 + w + c + t] = Field(2, i.FileName.size % TwoTo16)
  /\ D[8 + w + c + t] = Field(i.FileName.size, i.FileName.text)
  /\ w > 0 => D[2] = Field(w, Truncated(w, i.UnpackedSize))
  /\ c > 0 => D[2 + w] = Field(4, i.FileCRC32)
  /\ t > 0 => D[6 + w + c] = Field(8, i.TimeStamp)

LEMMA Layout ==
  ASSUME NEW i \in GoodInfos
  PROVE  LaidOut(i, UnpackedWidth(i.Has), CRCWidth(i.Has), StampWidth(i.Has), FileData(i))
<1> DEFINE w == UnpackedWidth(i.Has)
           c == CRCWidth(i.Has)
           t == StampWidth(i.Has)
           D == FileData(i)
<1>1. w \in {0, 4, 8} /\ c \in {0, 4} /\ t \in {0, 8}
  BY Widths DEF GoodInfos, RawInfos
<1> DEFINE Offsets == {0, 1, 2 + w + c, 6 + w + c + t, 8 + w + c + t}
                      \cup (IF w > 0 THEN {2} ELSE {}) \cup (IF c > 0 THEN {2 + w} ELSE {})
                      \cup (IF t > 0 THEN {6 + w + c} ELSE {})
<1>2. 6 + w + c + t + 2 = 8 + w + c + t
  BY <1>1
<1>3. D = [at \in Offsets |->
             CASE at = 0 -> Field(1, FileFlags(i.Has))
               [] at = 1 -> Field(1, i.FileType)
               [] at = 2 + w + c -> Field(4, i.CompressionInfo)
               [] at = 6 + w + c + t -> Field(2, i.FileName.size % TwoTo16)
               [] at = 8 + w + c + t -> Field(i.FileName.size, i.FileName.text)
               [] at = 2 /\ w > 0 -> Field(w, Truncated(w, i.UnpackedSize))
               [] at = 2 + w /\ c > 0 -> Field(4, i.FileCRC32)
               [] OTHER -> Field(8, i.TimeStamp)]
  BY <1>2 DEF FileData, CRCAt, CompressionAt, StampAt, NameSizeAt
<1> HIDE DEF w, c, t, D
<1>4. DOMAIN D = Offsets
  BY <1>3
<1>5. D[0] = Field(1, FileFlags(i.Has)) /\ D[1] = Field(1, i.FileType)
  BY <1>1, <1>3
<1>6. /\ D[2 + w + c] = Field(4, i.CompressionInfo)
      /\ D[6 + w + c + t] = Field(2, i.FileName.size % TwoTo16)
      /\ D[8 + w + c + t] = Field(i.FileName.size, i.FileName.text)
  BY <1>1, <1>3
<1>7. ASSUME w > 0 PROVE D[2] = Field(w, Truncated(w, i.UnpackedSize))
  BY <1>1, <1>3, <1>7
<1>8. ASSUME c > 0 PROVE D[2 + w] = Field(4, i.FileCRC32)
  BY <1>1, <1>3, <1>8
<1>9. ASSUME t > 0 PROVE D[6 + w + c] = Field(8, i.TimeStamp)
  BY <1>1, <1>3, <1>9
<1> QED
  BY <1>4, <1>5, <1>6, <1>7, <1>8, <1>9 DEF LaidOut, w, c, t, D

LEMMA Filled ==
  ASSUME NEW i \in GoodInfos
  PROVE  Tiles(FileData(i), get_file_info_data_size(i))
<1> DEFINE w == UnpackedWidth(i.Has)
           c == CRCWidth(i.Has)
           t == StampWidth(i.Has)
           n == i.FileName.size
           D == FileData(i)
           size == 8 + w + c + t + n
<1>1. w \in {0, 4, 8} /\ c \in {0, 4} /\ t \in {0, 8} /\ n \in Nat
  BY Widths DEF GoodInfos, RawInfos, RawNames
<1>2. /\ DOMAIN D = {0, 1, 2 + w + c, 6 + w + c + t, 8 + w + c + t}
                    \cup (IF w > 0 THEN {2} ELSE {}) \cup (IF c > 0 THEN {2 + w} ELSE {})
                    \cup (IF t > 0 THEN {6 + w + c} ELSE {})
      /\ D[0].width = 1 /\ D[1].width = 1 /\ D[2 + w + c].width = 4
      /\ D[6 + w + c + t].width = 2 /\ D[8 + w + c + t].width = n
      /\ w > 0 => D[2].width = w
      /\ c > 0 => D[2 + w].width = 4
      /\ t > 0 => D[6 + w + c].width = 8
  <2>1. LaidOut(i, w, c, t, D)
    BY Layout
  <2> HIDE DEF w, c, t, D
  <2> QED
    BY <2>1 DEF LaidOut, Field
<1>3. get_file_info_data_size(i) = size
  BY <1>1 DEF get_file_info_data_size
<1> DEFINE Ends(at) ==
             LET end == at + D[at].width
             IN  /\ end = size \/ (at < end /\ end \in DOMAIN D)
                 /\ \A next \in DOMAIN D : at < next => end <= next
<1> HIDE DEF w, c, t, n, D
<1>4. Ends(0) /\ Ends(1) /\ Ends(2 + w + c) /\ Ends(6 + w + c + t)
  BY <1>1, <1>2
<1>5. Ends(8 + w + c + t)
  BY <1>1, <1>2
<1>6. w > 0 => Ends(2)
  BY <1>1, <1>2
<1>7. c > 0 => Ends(2 + w)
  BY <1>1, <1>2
<1>8. t > 0 => Ends(6 + w + c)
  BY <1>1, <1>2
<1>9. \A at \in DOMAIN D : Ends(at)
  <2> HIDE DEF Ends
  <2> QED
    BY <1>2, <1>4, <1>5, <1>6, <1>7, <1>8
<1>10. 0 \in DOMAIN D
  BY <1>2
<1> QED
  BY <1>3, <1>9, <1>10 DEF Tiles, D

InfoWith(old, H, u, k, z, s, n, x) ==
  [old EXCEPT !.Has = H, !.UnpackedSize = u, !.FileCRC32 = k, !.CompressionInfo = z,
              !.TimeStamp = s, !.FileName.size = n, !.FileName.text = x]

LEMMA Changed ==
  ASSUME NEW old \in RawInfos, NEW H \in SUBSET Optional, NEW u \in Nat, NEW k \in Nat, NEW z \in Nat,
         NEW s \in Nat, NEW n \in Nat, NEW x \in Nat
  PROVE  LET got == InfoWith(old, H, u, k, z, s, n, x)
         IN  /\ got \in RawInfos /\ got.Has = H /\ got.UnpackedSize = u /\ got.FileCRC32 = k
             /\ got.CompressionInfo = z /\ got.TimeStamp = s
             /\ got.FileName.size = n /\ got.FileName.text = x
<1> DEFINE got == InfoWith(old, H, u, k, z, s, n, x)
<1> DEFINE name == [old.FileName EXCEPT !.size = n, !.text = x]
<1>1. name \in RawNames /\ name.size = n /\ name.text = x
  BY DEF RawInfos, RawNames
<1>2. got = [old EXCEPT !.Has = H, !.UnpackedSize = u, !.FileCRC32 = k,
                        !.CompressionInfo = z, !.TimeStamp = s, !.FileName = name]
  BY DEF RawInfos, InfoWith
<1> HIDE DEF name, got
<1>3. /\ got \in RawInfos /\ got.Has = H /\ got.UnpackedSize = u /\ got.FileCRC32 = k
      /\ got.CompressionInfo = z /\ got.TimeStamp = s
      /\ got.FileName.size = n /\ got.FileName.text = x
  BY <1>1, <1>2 DEF RawInfos
<1> QED
  BY <1>3 DEF got

LEMMA ReadsBack ==
  ASSUME NEW i \in GoodInfos, NEW old \in RawInfos, NEW got,
         got = InfoFrom(old, FileData(i), get_file_info_data_size(i))
  PROVE  /\ got \in RawInfos /\ got.Has = i.Has /\ got.CompressionInfo = i.CompressionInfo
         /\ "UnpackedSize" \in i.Has =>
              got.UnpackedSize = Truncated(UnpackedWidth(i.Has), i.UnpackedSize)
         /\ "FileCRC32" \in i.Has => got.FileCRC32 = i.FileCRC32
         /\ "TimeStamp" \in i.Has => got.TimeStamp = i.TimeStamp
         /\ got.FileName.text = i.FileName.text
         /\ got.FileName.size = i.FileName.size % TwoTo16
<1> DEFINE w == UnpackedWidth(i.Has)
           c == CRCWidth(i.Has)
           t == StampWidth(i.Has)
           D == FileData(i)
           size == get_file_info_data_size(i)
           n == i.FileName.size % TwoTo16
           u == IF w > 0 THEN Truncated(w, i.UnpackedSize) ELSE old.UnpackedSize
           k == IF c > 0 THEN i.FileCRC32 ELSE old.FileCRC32
           s == IF t > 0 THEN i.TimeStamp ELSE old.TimeStamp
<1>1. /\ i.Has \in SUBSET Optional /\ Sized(i.Has) /\ i.FileName.size \in Nat
      /\ i.FileName.text \in Nat /\ i.CompressionInfo \in Nat
      /\ i.UnpackedSize \in Nat /\ i.FileCRC32 \in Nat /\ i.TimeStamp \in Nat
      /\ old.UnpackedSize \in Nat /\ old.FileCRC32 \in Nat /\ old.TimeStamp \in Nat
  BY DEF GoodInfos, RawInfos, RawNames
<1>2. n \in Nat /\ n <= i.FileName.size /\ u \in Nat /\ k \in Nat /\ s \in Nat
  BY <1>1, Cut
<1>3. /\ w \in {0, 4, 8} /\ c \in {0, 4} /\ t \in {0, 8}
      /\ "UnpackedSize" \in i.Has <=> w > 0
      /\ "UnpackedSize8" \in i.Has <=> w = 8
      /\ "FileCRC32" \in i.Has <=> c > 0
      /\ "TimeStamp" \in i.Has <=> t > 0
      /\ FileFlags(i.Has) = i.Has /\ FlaggedWidth(i.Has) = w
  BY <1>1, Widths
<1>4. LaidOut(i, w, c, t, D)
  BY Layout
<1>5. got = InfoFrom(old, D, size)
  OBVIOUS
<1>6. CRCWidth(i.Has) = c /\ StampWidth(i.Has) = t
  OBVIOUS
<1>7. (IF w = 8 THEN i.Has ELSE i.Has \ {"UnpackedSize8"}) = i.Has
  BY <1>3
<1>8. /\ w > 0 => u = Truncated(w, i.UnpackedSize)
      /\ c > 0 => k = i.FileCRC32
      /\ t > 0 => s = i.TimeStamp
      /\ ~(w > 0) => u = old.UnpackedSize
      /\ ~(c > 0) => k = old.FileCRC32
      /\ ~(t > 0) => s = old.TimeStamp
  OBVIOUS
<1>9. n = i.FileName.size % TwoTo16
  OBVIOUS
<1>10. size = 8 + w + c + t + i.FileName.size
  BY <1>1, <1>3 DEF get_file_info_data_size
<1> HIDE DEF w, c, t, D, n, u, k, s, size
<1>11. D[0].value = i.Has
  BY <1>3, <1>4 DEF LaidOut, Field
<1>12. FieldAt(D, size, NameSizeAt(w, c, t), 2) = n
  BY <1>1, <1>3, <1>4, <1>9, <1>10 DEF LaidOut, FieldAt, Field, NameSizeAt
<1>13. FieldAt(D, size, CompressionAt(w, c), 4) = i.CompressionInfo
  BY <1>1, <1>3, <1>4, <1>10 DEF LaidOut, FieldAt, Field, CompressionAt
<1>14. (IF w > 0 THEN FieldAt(D, size, 2, w) ELSE old.UnpackedSize) = u
  BY <1>1, <1>3, <1>4, <1>8, <1>10 DEF LaidOut, FieldAt, Field
<1>15. (IF c > 0 THEN FieldAt(D, size, CRCAt(w), 4) ELSE old.FileCRC32) = k
  BY <1>1, <1>3, <1>4, <1>8, <1>10 DEF LaidOut, FieldAt, Field, CRCAt
<1>16. (IF t > 0 THEN FieldAt(D, size, StampAt(w, c), 8) ELSE old.TimeStamp) = s
  BY <1>1, <1>3, <1>4, <1>8, <1>10 DEF LaidOut, FieldAt, Field, StampAt
<1>17. TextAt(D, NameSizeAt(w, c, t) + 2, n) = i.FileName.text
  <2>1. NameSizeAt(w, c, t) + 2 = 8 + w + c + t
    BY <1>3 DEF NameSizeAt
  <2>2. 8 + w + c + t \in DOMAIN D /\ D[8 + w + c + t] = Field(i.FileName.size, i.FileName.text)
    BY <1>4 DEF LaidOut
  <2> QED
    BY <2>1, <2>2, <1>2 DEF TextAt, Field
<1>18. got = InfoWith(old, i.Has, u, k, i.CompressionInfo, s, n, i.FileName.text)
  <2>1. got = [old EXCEPT
                 !.Has = IF w = 8 THEN i.Has ELSE i.Has \ {"UnpackedSize8"},
                 !.UnpackedSize = IF w > 0 THEN FieldAt(D, size, 2, w) ELSE old.UnpackedSize,
                 !.FileCRC32 = IF c > 0 THEN FieldAt(D, size, CRCAt(w), 4) ELSE old.FileCRC32,
                 !.CompressionInfo = FieldAt(D, size, CompressionAt(w, c), 4),
                 !.TimeStamp = IF t > 0 THEN FieldAt(D, size, StampAt(w, c), 8) ELSE old.TimeStamp,
                 !.FileName.size = n,
                 !.FileName.text = TextAt(D, NameSizeAt(w, c, t) + 2, n)]
    <3>1. FlaggedWidth(i.Has) = w
      BY <1>3
    <3> HIDE DEF D, w, c, t, n, size
    <3> QED
      BY ONLY <1>5, <1>6, <1>11, <1>12, <3>1, old \in RawInfos DEF InfoFrom, RawInfos
  <2> QED
    BY <2>1, <1>7, <1>13, <1>14, <1>15, <1>16, <1>17 DEF InfoWith
<1>19. /\ got \in RawInfos /\ got.Has = i.Has /\ got.UnpackedSize = u /\ got.FileCRC32 = k
       /\ got.CompressionInfo = i.CompressionInfo /\ got.TimeStamp = s
       /\ got.FileName.size = n /\ got.FileName.text = i.FileName.text
  BY <1>1, <1>2, <1>18, Changed
<1>20. UnpackedWidth(i.Has) = w
  BY DEF w
<1> QED
  BY <1>3, <1>8, <1>9, <1>19, <1>20

(***************************************************************************)
(* Records: the main data is something that was serialised, or nothing; the *)
(* checksum is that of a cleared record, or was computed over something.    *)
(***************************************************************************)
Versions16 == 0..(TwoTo16 - 1)

VersionData(v) == [at \in {0} |-> Field(2, v)]

Contents == {FileData(i) : i \in GoodInfos} \cup {VersionData(v) : v \in Versions16}

Types == {"none", KCF_FILE_HEADER, KCF_ARCHIVE_HEADER}

CRCs == {NoCRC} \cup [type : Types, size : Nat, data : Contents]

Records ==
  [HeadCRC : CRCs, HeadType : Types, HeadSize : 0..(TwoTo16 - 1),
   Data : Contents \cup {NoFields}, block : Blocks \cup {NULL}, DataSize : Nat]

LEMMA SomethingSerialised == NoFields \notin Contents
<1>1. DOMAIN NoFields = {}
  BY DEF NoFields
<1>2. ASSUME NEW v \in Versions16 PROVE 0 \in DOMAIN VersionData(v)
  BY DEF VersionData
<1>3. ASSUME NEW i \in GoodInfos PROVE 0 \in DOMAIN FileData(i)
  BY Layout DEF LaidOut
<1> QED
  BY <1>1, <1>2, <1>3 DEF Contents

(* A record with main data D of n bytes in block b, before it is fixed.      *)
Loaded(r, type, n, D, b) ==
  [r EXCEPT !.HeadType = type, !.DataSize = n, !.Data = D, !.block = b]

LEMMA LoadedType ==
  ASSUME NEW r \in Records, NEW type \in Types, NEW n \in Nat,
         NEW D \in Contents \cup {NoFields}, NEW b \in Blocks \cup {NULL}
  PROVE  LET q == Loaded(r, type, n, D, b)
         IN  /\ q \in Records /\ q.HeadType = type /\ q.DataSize = n /\ q.Data = D /\ q.block = b
             /\ q.HeadCRC = r.HeadCRC
BY DEF Loaded, Records

LEMMA FixType ==
  ASSUME NEW r \in Records, r.Data \in Contents
  PROVE  LET q == rec_fix(r)
         IN  /\ q \in Records /\ q.HeadType = r.HeadType /\ q.DataSize = r.DataSize
             /\ q.Data = r.Data /\ q.block = r.block
             /\ q.HeadSize = (6 + r.DataSize) % TwoTo16
             /\ q.HeadCRC = rec_calculate_CRC(q)
<1> DEFINE n == (6 + r.DataSize) % TwoTo16
           sized == [r EXCEPT !.HeadSize = n]
           c == rec_calculate_CRC(sized)
           q == [sized EXCEPT !.HeadCRC = c]
<1>1. n \in 0..(TwoTo16 - 1) /\ n \in Nat
  <2>1. 6 + r.DataSize \in Nat
    BY DEF Records
  <2> QED
    BY <2>1, Cut
<1> HIDE DEF n
<1>2. /\ sized \in Records /\ sized.HeadType = r.HeadType /\ sized.DataSize = r.DataSize
      /\ sized.Data = r.Data /\ sized.block = r.block /\ sized.HeadSize = n
  BY <1>1 DEF Records
<1> HIDE DEF sized
<1>3. c = [type |-> r.HeadType, size |-> n, data |-> r.Data]
  BY <1>2 DEF rec_calculate_CRC
<1>4. c \in CRCs
  BY <1>1, <1>3 DEF CRCs, Records
<1> HIDE DEF c
<1>5. /\ q \in Records /\ q.HeadType = r.HeadType /\ q.DataSize = r.DataSize
      /\ q.Data = r.Data /\ q.block = r.block /\ q.HeadSize = n /\ q.HeadCRC = c
  BY <1>2, <1>4 DEF Records
<1>6. rec_fix(r) = q
  BY DEF rec_fix, n, sized, c
<1> HIDE DEF q
<1>7. c = rec_calculate_CRC(q)
  BY <1>3, <1>5 DEF rec_calculate_CRC
<1> QED
  BY <1>5, <1>6, <1>7 DEF n

(***************************************************************************)
(* Structs.                                                                 *)
(***************************************************************************)
LEMMA ClearType == ClearInfo \in GoodInfos /\ ClearInfo.FileName.block = NULL
BY DEF ClearInfo, GoodInfos, RawInfos, RawNames, NoName, Sized

Unnamed(i) == [i EXCEPT !.FileName = NoName]
NamedIn(i, b) == [i EXCEPT !.FileName.block = b]

LEMMA UnnamedType ==
  ASSUME NEW i \in RawInfos, Sized(i.Has)
  PROVE  Unnamed(i) \in GoodInfos /\ Unnamed(i).FileName.block = NULL
<1>1. NoName \in RawNames /\ NoName.block = NULL
  BY DEF NoName, RawNames
<1> QED
  BY <1>1 DEF Unnamed, GoodInfos, RawInfos

LEMMA NamedType ==
  ASSUME NEW i \in RawInfos, Sized(i.Has), NEW b \in Blocks
  PROVE  NamedIn(i, b) \in GoodInfos /\ NamedIn(i, b).FileName.block = b
<1> DEFINE name == [i.FileName EXCEPT !.block = b]
<1>1. name \in RawNames /\ name.block = b
  BY DEF RawInfos, RawNames
<1>2. NamedIn(i, b) = [i EXCEPT !.FileName = name]
  BY DEF NamedIn, RawInfos
<1>3. b # NULL
  BY FileInfoConstantsOK
<1> HIDE DEF name
<1> QED
  BY <1>1, <1>2, <1>3 DEF GoodInfos, RawInfos

(***************************************************************************)
(* Who owns which block, as a relation between the values of variables.     *)
(***************************************************************************)
BlockOf(i) == i.FileName.block

Owned(I, r, L) ==
  /\ r.block \in L \cup {NULL}
  /\ \A d \in Structs : BlockOf(I[d]) \in (L \ {r.block}) \cup {NULL}
  /\ \A d, e \in Structs : d # e /\ BlockOf(I[d]) = BlockOf(I[e]) => BlockOf(I[d]) = NULL

LEMMA OwnedIs ==
  ASSUME live \subseteq Blocks
  PROVE  BlocksOwned <=> Owned(infos, record, live)
BY DEF BlocksOwned, Owned, BlockOf

LEMMA OwnedNew ==
  ASSUME NEW I \in [Structs -> GoodInfos], NEW r, NEW L \in SUBSET Blocks, Owned(I, r, L),
         NEW d \in Structs, NEW i, BlockOf(i) \in Blocks \ L
  PROVE  Owned([I EXCEPT ![d] = i], r, L \cup {BlockOf(i)})
<1>1. BlockOf(i) # NULL /\ BlockOf(i) # r.block
  BY FileInfoConstantsOK DEF Owned
<1>2. \A e \in Structs : [I EXCEPT ![d] = i][e] = IF e = d THEN i ELSE I[e]
  OBVIOUS
<1>3. \A e \in Structs : BlockOf(I[e]) # BlockOf(i)
  BY <1>1 DEF Owned
<1> QED
  BY <1>1, <1>2, <1>3 DEF Owned

LEMMA OwnedNone ==
  ASSUME NEW I \in [Structs -> GoodInfos], NEW r, NEW L \in SUBSET Blocks, Owned(I, r, L),
         NEW d \in Structs, NEW i, BlockOf(i) = NULL
  PROVE  /\ Owned([I EXCEPT ![d] = i], r, L)
         /\ Owned([I EXCEPT ![d] = i], r, L \ {BlockOf(I[d])})
<1>1. \A e \in Structs : [I EXCEPT ![d] = i][e] = IF e = d THEN i ELSE I[e]
  OBVIOUS
<1>2. \A e \in Structs : e # d => BlockOf(I[e]) # BlockOf(I[d]) \/ BlockOf(I[e]) = NULL
  BY DEF Owned
<1>3. BlockOf(I[d]) # r.block \/ r.block = NULL
  BY FileInfoConstantsOK DEF Owned
<1> QED
  BY <1>1, <1>2, <1>3 DEF Owned

LEMMA OwnedSame ==
  ASSUME NEW I \in [Structs -> GoodInfos], NEW r, NEW L \in SUBSET Blocks, Owned(I, r, L),
         NEW d \in Structs, NEW i, BlockOf(i) = BlockOf(I[d])
  PROVE  Owned([I EXCEPT ![d] = i], r, L)
<1>1. \A e \in Structs : BlockOf([I EXCEPT ![d] = i][e]) = BlockOf(I[e])
  OBVIOUS
<1> QED
  BY <1>1 DEF Owned

LEMMA OwnedRecord ==
  ASSUME NEW I \in [Structs -> GoodInfos], NEW r, NEW L \in SUBSET Blocks, Owned(I, r, L), NEW q
  PROVE  /\ q.block = NULL => Owned(I, q, L) /\ Owned(I, q, L \ {r.block})
         /\ q.block \in Blocks \ L => Owned(I, q, L \cup {q.block})
BY FileInfoConstantsOK DEF Owned

(***************************************************************************)
(* The inductive invariant.  The record holds what source says, and nothing *)
(* when it was filled half-way; then its checksum, whatever it was computed *)
(* over, is not that of what is there.                                      *)
(***************************************************************************)
Sources == {Nothing} \cup {FileOf(i) : i \in GoodInfos} \cup {VersionOf(v) : v \in Versions16}

Typed ==
  /\ infos \in [Structs -> GoodInfos] /\ header \in Versions16 /\ record \in Records
  /\ source \in Sources /\ live \in SUBSET Blocks /\ crashed \in BOOLEAN

HoldsInfo(r, i) ==
  /\ r.HeadType = KCF_FILE_HEADER /\ r.HeadCRC = rec_calculate_CRC(r)
  /\ r.Data = FileData(i) /\ r.DataSize = get_file_info_data_size(i)

HoldsVersion(r, v) ==
  /\ r.HeadType = KCF_ARCHIVE_HEADER /\ r.HeadCRC = rec_calculate_CRC(r)
  /\ r.HeadSize = 8 /\ r.Data = VersionData(v) /\ r.DataSize = 2

Holds(r, s) ==
  /\ s = Nothing => r.Data = NoFields
  /\ \A i \in GoodInfos : s = FileOf(i) => HoldsInfo(r, i)
  /\ \A v \in Versions16 : s = VersionOf(v) => HoldsVersion(r, v)

IInv ==
  /\ Typed
  /\ ~crashed => Holds(record, source)
  /\ Owned(infos, record, live)

LEMMA NothingHeld ==
  ASSUME NEW r, r.Data = NoFields
  PROVE  Holds(r, Nothing)
BY DEF Holds, Nothing, FileOf, VersionOf, KCF_FILE_HEADER, KCF_ARCHIVE_HEADER

LEMMA InfoHeld ==
  ASSUME NEW r, NEW i \in GoodInfos, HoldsInfo(r, i)
  PROVE  Holds(r, FileOf(i))
<1>1. FileOf(i) # Nothing /\ \A v : FileOf(i) # VersionOf(v)
  <2>1. FileOf(i).kind = "F" /\ Nothing.kind = "none" /\ \A v : VersionOf(v).kind = "A"
    BY DEF Nothing, FileOf, VersionOf, KCF_FILE_HEADER, KCF_ARCHIVE_HEADER
  <2> QED
    BY <2>1
<1>2. \A j \in GoodInfos : FileOf(i) = FileOf(j) => i = j
  <2>1. \A j : FileOf(j).info = j
    BY DEF FileOf
  <2> QED
    BY <2>1
<1>3. \A j \in GoodInfos : FileOf(i) = FileOf(j) => HoldsInfo(r, j)
  BY <1>2
<1> QED
  BY <1>1, <1>3 DEF Holds

LEMMA VersionHeld ==
  ASSUME NEW r, NEW v \in Versions16, HoldsVersion(r, v)
  PROVE  Holds(r, VersionOf(v))
<1>1. VersionOf(v) # Nothing /\ \A i : VersionOf(v) # FileOf(i)
  <2>1. VersionOf(v).kind = "A" /\ Nothing.kind = "none" /\ \A i : FileOf(i).kind = "F"
    BY DEF Nothing, FileOf, VersionOf, KCF_FILE_HEADER, KCF_ARCHIVE_HEADER
  <2> QED
    BY <2>1
<1>2. \A u \in Versions16 : VersionOf(v) = VersionOf(u) => v = u
  <2>1. \A u : VersionOf(u).version = u
    BY DEF VersionOf
  <2> QED
    BY <2>1
<1>3. \A u \in Versions16 : VersionOf(v) = VersionOf(u) => HoldsVersion(r, u)
  BY <1>2
<1> QED
  BY <1>1, <1>3 DEF Holds

(* What the readers accept is what source says.                             *)
LEMMA Accepted ==
  ASSUME IInv, ~crashed, NEW type \in {KCF_FILE_HEADER, KCF_ARCHIVE_HEADER}
  PROVE  Accepts(record, type) <=> source.kind = type
<1>1. record \in Records /\ Holds(record, source) /\ source \in Sources
  BY DEF IInv, Typed
<1>2. CASE source = Nothing
  <2>1. record.Data = NoFields
    BY <1>1, <1>2 DEF Holds
  <2>2. rec_calculate_CRC(record).type = record.HeadType /\ rec_calculate_CRC(record).data = NoFields
    BY <2>1 DEF rec_calculate_CRC
  <2>3. record.HeadCRC = NoCRC \/ record.HeadCRC.data \in Contents
    BY <1>1 DEF Records, CRCs
  <2>4. NoCRC.type = "none"
    BY DEF NoCRC
  <2>5. record.HeadCRC = rec_calculate_CRC(record) => record.HeadType = "none"
    BY <2>2, <2>3, <2>4, SomethingSerialised
  <2>6. source.kind = "none"
    BY <1>2 DEF Nothing
  <2> QED
    BY <2>5, <2>6 DEF Accepts, KCF_FILE_HEADER, KCF_ARCHIVE_HEADER
<1>3. CASE \E i \in GoodInfos : source = FileOf(i)
  <2>1. record.HeadType = KCF_FILE_HEADER /\ record.HeadCRC = rec_calculate_CRC(record)
    BY <1>1, <1>3 DEF Holds, HoldsInfo
  <2>2. source.kind = KCF_FILE_HEADER
    BY <1>3 DEF FileOf
  <2> QED
    BY <2>1, <2>2 DEF Accepts, KCF_FILE_HEADER, KCF_ARCHIVE_HEADER
<1>4. CASE \E v \in Versions16 : source = VersionOf(v)
  <2>1. /\ record.HeadType = KCF_ARCHIVE_HEADER /\ record.HeadCRC = rec_calculate_CRC(record)
        /\ record.HeadSize = 8
    BY <1>1, <1>4 DEF Holds, HoldsVersion
  <2>2. source.kind = KCF_ARCHIVE_HEADER
    BY <1>4 DEF VersionOf
  <2> QED
    BY <2>1, <2>2 DEF Accepts, KCF_FILE_HEADER, KCF_ARCHIVE_HEADER
<1> QED
  BY <1>1, <1>2, <1>3, <1>4 DEF Sources

LEMMA HeldInfo ==
  ASSUME IInv, ~crashed, source.kind = KCF_FILE_HEADER
  PROVE  source.info \in GoodInfos /\ HoldsInfo(record, source.info)
<1>1. source \in Sources /\ Holds(record, source)
  BY DEF IInv, Typed
<1>2. PICK i \in GoodInfos : source = FileOf(i)
  BY <1>1 DEF Sources, Nothing, VersionOf, KCF_FILE_HEADER, KCF_ARCHIVE_HEADER
<1>3. source.info = i
  BY <1>2 DEF FileOf
<1> QED
  BY <1>1, <1>2, <1>3 DEF Holds

LEMMA HeldVersion ==
  ASSUME IInv, ~crashed, source.kind = KCF_ARCHIVE_HEADER
  PROVE  FieldAt(record.Data, record.DataSize, 0, 2) \in Versions16
<1>1. source \in Sources /\ Holds(record, source)
  BY DEF IInv, Typed
<1>2. PICK v \in Versions16 : source = VersionOf(v)
  BY <1>1 DEF Sources, Nothing, FileOf, KCF_FILE_HEADER, KCF_ARCHIVE_HEADER
<1>3. record.Data = VersionData(v) /\ record.DataSize = 2
  BY <1>1, <1>2 DEF Holds, HoldsVersion
<1> QED
  BY <1>3 DEF VersionData, FieldAt, Field

(***************************************************************************)
(* The invariant holds at first and is kept by every call.                  *)
(***************************************************************************)
LEMMA ClearRecordType == ClearRecord \in Records /\ ClearRecord.block = NULL /\ ClearRecord.Data = NoFields
<1>1. TwoTo16 \in Nat /\ 0 < TwoTo16
  BY FileInfoConstantsOK
<1> QED
  BY <1>1 DEF ClearRecord, Records, CRCs, Types

LEMMA InitInv == Init => IInv
<1> SUFFICES ASSUME Init PROVE IInv
  OBVIOUS
<1>1. Typed
  <2>1. infos \in [Structs -> GoodInfos]
    BY ClearType DEF Init
  <2>2. header \in Versions16
    BY FileInfoConstantsOK DEF Init, Versions16
  <2> QED
    BY <2>1, <2>2, ClearRecordType DEF Init, Typed, Sources
<1>2. Holds(record, source)
  BY ClearRecordType, NothingHeld DEF Init
<1>3. Owned(infos, record, live)
  BY ClearType, ClearRecordType DEF Init, Owned, BlockOf
<1> QED
  BY <1>1, <1>2, <1>3 DEF IInv

(* A call that changes structs alone.                                       *)
LEMMA InfosChanged ==
  ASSUME IInv, NEW d \in Structs, NEW i \in GoodInfos, infos' = [infos EXCEPT ![d] = i],
         \/ BlockOf(i) = NULL /\ live' = live
         \/ BlockOf(i) = NULL /\ live' = live \ {BlockOf(infos[d])}
         \/ BlockOf(i) = BlockOf(infos[d]) /\ live' = live
         \/ BlockOf(i) \in Blocks \ live /\ live' = live \cup {BlockOf(i)},
         UNCHANGED <<record, header, source, crashed>>
  PROVE  IInv'
<1>1. infos \in [Structs -> GoodInfos] /\ live \in SUBSET Blocks /\ Owned(infos, record, live)
  BY DEF IInv, Typed
<1>2. infos' \in [Structs -> GoodInfos] /\ live' \in SUBSET Blocks
  BY <1>1
<1> DEFINE J == [infos EXCEPT ![d] = i]
<1>3. BlockOf(i) = NULL => Owned(J, record, live) /\ Owned(J, record, live \ {BlockOf(infos[d])})
  BY <1>1, OwnedNone
<1>4. BlockOf(i) = BlockOf(infos[d]) => Owned(J, record, live)
  BY <1>1, OwnedSame
<1>5. BlockOf(i) \in Blocks \ live => Owned(J, record, live \cup {BlockOf(i)})
  BY <1>1, OwnedNew
<1> HIDE DEF J
<1>6. infos' = J
  BY DEF J
<1>7. Owned(J, record, live')
  BY <1>3, <1>4, <1>5
<1> QED
  BY <1>2, <1>6, <1>7 DEF IInv, Typed

LEMMA FillInv ==
  ASSUME IInv, Fill
  PROVE  IInv'
<1>1. PICK H \in FlagSets, u \in UnpackedSizes, n \in NameSizes, v \in Values, b \in Blocks :
        /\ "UnpackedSize8" \in H => "UnpackedSize" \in H
        /\ b \in Blocks \ live /\ live' = live \cup {b}
        /\ infos' = [infos EXCEPT !["FileInfo"] =
             [Has |-> H, TimeStamp |-> v, UnpackedSize |-> u,
              FileName |-> [block |-> b, text |-> n, size |-> n],
              FileCRC32 |-> v + 1, CompressionInfo |-> v + 2, FileType |-> "regular"]]
  BY DEF Fill, Allocated
<1> DEFINE name == [block |-> b, text |-> n, size |-> n]
           i == [Has |-> H, TimeStamp |-> v, UnpackedSize |-> u, FileName |-> name,
                 FileCRC32 |-> v + 1, CompressionInfo |-> v + 2, FileType |-> "regular"]
<1>2. H \in SUBSET Optional /\ u \in Nat /\ n \in Nat /\ v \in Nat /\ b # NULL
  BY FileInfoConstantsOK
<1>3. i \in GoodInfos /\ BlockOf(i) = b
  BY <1>1, <1>2 DEF GoodInfos, RawInfos, RawNames, Sized, BlockOf
<1>4. infos' = [infos EXCEPT !["FileInfo"] = i] /\ "FileInfo" \in Structs
  BY <1>1 DEF Structs
<1> HIDE DEF i
<1> QED
  BY <1>1, <1>3, <1>4, InfosChanged DEF Fill

LEMMA ReadInv ==
  ASSUME IInv, NEW d \in Structs, file_info_to_record(d)
  PROVE  IInv'
<1> DEFINE read == InfoFrom(infos[d], record.Data, record.DataSize)
<1>1. /\ source.info \in GoodInfos /\ record.Data = FileData(source.info)
      /\ record.DataSize = get_file_info_data_size(source.info)
  BY Accepted, HeldInfo DEF file_info_to_record, HoldsInfo
<1>2. infos[d] \in RawInfos
  BY DEF IInv, Typed, GoodInfos
<1>3. read \in RawInfos /\ read.Has = source.info.Has
  BY <1>1, <1>2, ReadsBack
<1>4. Sized(read.Has)
  BY <1>1, <1>3 DEF GoodInfos
<1> HIDE DEF read
<1>5. \/ infos' = [infos EXCEPT ![d] = Unnamed(read)] /\ live' = live
      \/ \E b \in Blocks : /\ b \in Blocks \ live /\ live' = live \cup {b}
                           /\ infos' = [infos EXCEPT ![d] = NamedIn(read, b)]
  BY DEF file_info_to_record, Unnamed, NamedIn, Allocated, read
<1>6. CASE infos' = [infos EXCEPT ![d] = Unnamed(read)] /\ live' = live
  BY <1>3, <1>4, <1>6, UnnamedType, InfosChanged DEF file_info_to_record, BlockOf
<1>7. ASSUME NEW b \in Blocks \ live, live' = live \cup {b},
             infos' = [infos EXCEPT ![d] = NamedIn(read, b)]
      PROVE  IInv'
  BY <1>3, <1>4, <1>7, NamedType, InfosChanged DEF file_info_to_record, BlockOf
<1> QED
  BY <1>5, <1>6, <1>7

LEMMA ClearInv ==
  ASSUME IInv, NEW d \in Structs, file_info_clear(d)
  PROVE  IInv'
BY ClearType, InfosChanged DEF file_info_clear, BlockOf

LEMMA CopyInv ==
  ASSUME IInv, NEW d \in Structs, NEW e \in Structs, file_info_copy(d, e)
  PROVE  IInv'
<1> DEFINE i == infos[e]
           begun == [infos[d] EXCEPT !.TimeStamp = i.TimeStamp, !.UnpackedSize = i.UnpackedSize]
           kept == [i EXCEPT !.FileName = begun.FileName]
<1>1. infos[d] \in GoodInfos /\ i \in GoodInfos
  BY DEF IInv, Typed
<1>2. /\ begun \in RawInfos /\ Sized(begun.Has) /\ begun.FileName = infos[d].FileName
      /\ i \in RawInfos /\ Sized(i.Has)
  BY <1>1 DEF GoodInfos, RawInfos
<1>3. kept \in GoodInfos /\ BlockOf(kept) = BlockOf(infos[d])
  <2>1. kept.FileName = infos[d].FileName /\ kept.Has = i.Has /\ kept \in RawInfos
    BY <1>2 DEF RawInfos
  <2> HIDE DEF kept
  <2> QED
    BY <1>1, <1>2, <2>1 DEF GoodInfos, BlockOf
<1> HIDE DEF begun, kept
<1>4. \/ infos' = [infos EXCEPT ![d] = kept] /\ live' = live
      \/ infos' = [infos EXCEPT ![d] = Unnamed(begun)] /\ live' = live
      \/ \E b \in Blocks : /\ b \in Blocks \ live /\ live' = live \cup {b}
                           /\ infos' = [infos EXCEPT ![d] = NamedIn(i, b)]
  BY DEF file_info_copy, Unnamed, NamedIn, Allocated, begun, kept
<1>5. CASE infos' = [infos EXCEPT ![d] = kept] /\ live' = live
  BY <1>3, <1>5, InfosChanged DEF file_info_copy
<1>6. CASE infos' = [infos EXCEPT ![d] = Unnamed(begun)] /\ live' = live
  BY <1>2, <1>6, UnnamedType, InfosChanged DEF file_info_copy, BlockOf
<1>7. ASSUME NEW b \in Blocks \ live, live' = live \cup {b},
             infos' = [infos EXCEPT ![d] = NamedIn(i, b)]
      PROVE  IInv'
  BY <1>2, <1>7, NamedType, InfosChanged DEF file_info_copy, BlockOf
<1> QED
  BY <1>4, <1>5, <1>6, <1>7

(* A call that changes the record alone.                                    *)
LEMMA RecordChanged ==
  ASSUME IInv, NEW q \in Records, record' = q, NEW s \in Sources, source' = s,
         crashed' \in BOOLEAN, ~crashed' => Holds(q, s),
         \/ q.block = NULL /\ live' = live
         \/ q.block = NULL /\ live' = live \ {record.block}
         \/ q.block \in Blocks \ live /\ live' = live \cup {q.block},
         UNCHANGED <<infos, header>>
  PROVE  IInv'
<1>1. infos \in [Structs -> GoodInfos] /\ live \in SUBSET Blocks /\ Owned(infos, record, live)
  BY DEF IInv, Typed
<1>2. live' \in SUBSET Blocks
  BY <1>1
<1>3. Owned(infos, q, live')
  BY <1>1, OwnedRecord
<1> QED
  BY <1>2, <1>3 DEF IInv, Typed

LEMMA FillRecordInv ==
  ASSUME IInv, NEW d \in Structs, record_to_file_info(d)
  PROVE  IInv'
<1> DEFINE i == infos[d]
           typed == [record EXCEPT !.HeadType = KCF_FILE_HEADER, !.Data = NoFields, !.block = NULL]
           n == get_file_info_data_size(i)
<1>1. record \in Records /\ i \in GoodInfos /\ ~crashed /\ crashed \in BOOLEAN
  BY DEF IInv, Typed, record_to_file_info
<1>2. typed = Loaded(record, KCF_FILE_HEADER, record.DataSize, NoFields, NULL)
  BY <1>1 DEF Loaded, Records
<1>3. typed \in Records /\ typed.block = NULL /\ typed.Data = NoFields
  BY <1>1, <1>2, LoadedType DEF Types, Records
<1>4. n \in Nat
  <2>1. i.Has \in SUBSET Optional /\ i.FileName.size \in Nat
    BY <1>1 DEF GoodInfos, RawInfos, RawNames
  <2> QED
    BY <2>1, Widths DEF get_file_info_data_size
<1>5. CASE record' = typed /\ source' = Nothing /\ UNCHANGED <<live, crashed>>
  <2>1. Holds(typed, Nothing)
    BY <1>3, NothingHeld
  <2>2. Nothing \in Sources
    BY DEF Sources
  <2> HIDE DEF typed
  <2> QED
    BY <1>1, <1>3, <1>5, <2>1, <2>2, RecordChanged DEF record_to_file_info
<1>6. ASSUME NEW b \in Blocks \ live, live' = live \cup {b}, crashed' = (i.FileName = NoName),
             source' = FileOf(i),
             record' = rec_fix([typed EXCEPT !.DataSize = n, !.Data = FileData(i), !.block = b])
      PROVE  IInv'
  <2> DEFINE loaded == Loaded(record, KCF_FILE_HEADER, n, FileData(i), b)
             q == rec_fix(loaded)
  <2>1. [typed EXCEPT !.DataSize = n, !.Data = FileData(i), !.block = b] = loaded
    <3> HIDE DEF n
    <3> QED
      BY <1>1 DEF Loaded, Records
  <2>2. FileData(i) \in Contents
    BY <1>1 DEF Contents
  <2>3. /\ loaded \in Records /\ loaded.HeadType = KCF_FILE_HEADER /\ loaded.DataSize = n
        /\ loaded.Data = FileData(i) /\ loaded.block = b
    BY <1>1, <1>4, <2>2, LoadedType DEF Types
  <2> HIDE DEF loaded
  <2>4. /\ q \in Records /\ q.HeadType = KCF_FILE_HEADER /\ q.DataSize = n /\ q.Data = FileData(i)
        /\ q.block = b /\ q.HeadCRC = rec_calculate_CRC(q)
    BY <2>2, <2>3, FixType
  <2>5. record' = q
    BY <1>6, <2>1
  <2> HIDE DEF q
  <2>6. Holds(q, FileOf(i))
    BY <1>1, <2>4, InfoHeld DEF HoldsInfo
  <2>7. FileOf(i) \in Sources
    BY <1>1 DEF Sources
  <2>8. crashed' \in BOOLEAN
    BY <1>6
  <2>9. UNCHANGED <<infos, header>>
    BY DEF record_to_file_info
  <2> QED
    BY <1>6, <2>4, <2>5, <2>6, <2>7, <2>8, <2>9, RecordChanged
<1>7. \/ record' = typed /\ source' = Nothing /\ UNCHANGED <<live, crashed>>
      \/ \E b \in Blocks \ live :
           /\ live' = live \cup {b} /\ crashed' = (i.FileName = NoName) /\ source' = FileOf(i)
           /\ record' = rec_fix([typed EXCEPT !.DataSize = n, !.Data = FileData(i), !.block = b])
  BY DEF record_to_file_info, Allocated
<1> QED
  BY <1>5, <1>6, <1>7

LEMMA RecClearInv ==
  ASSUME IInv, rec_clear
  PROVE  IInv'
<1>1. Holds(ClearRecord, Nothing) /\ Nothing \in Sources /\ crashed \in BOOLEAN
  BY ClearRecordType, NothingHeld DEF Sources, IInv, Typed
<1> QED
  BY <1>1, ClearRecordType, RecordChanged DEF rec_clear

LEMMA FromHeaderInv ==
  ASSUME IInv, rec_from_archive_header
  PROVE  IInv'
<1>1. record \in Records /\ header \in Versions16 /\ ~crashed
  BY DEF IInv, Typed, rec_from_archive_header
<1>2. CASE crashed' = TRUE /\ UNCHANGED <<record, live, source>>
  BY <1>2 DEF IInv, Typed, rec_from_archive_header
<1>3. ASSUME NEW b \in Blocks \ live, live' = live \cup {b}, source' = VersionOf(header),
             UNCHANGED crashed,
             record' = rec_fix([record EXCEPT !.HeadType = KCF_ARCHIVE_HEADER, !.DataSize = 2,
                                              !.Data = [at \in {0} |-> Field(2, header)],
                                              !.block = b])
      PROVE  IInv'
  <2> DEFINE loaded == Loaded(record, KCF_ARCHIVE_HEADER, 2, VersionData(header), b)
             q == rec_fix(loaded)
  <2>1. VersionData(header) \in Contents
    BY <1>1 DEF Contents
  <2>2. /\ loaded \in Records /\ loaded.HeadType = KCF_ARCHIVE_HEADER /\ loaded.DataSize = 2
        /\ loaded.Data = VersionData(header) /\ loaded.block = b
    BY <1>1, <2>1, LoadedType DEF Types
  <2>3. record' = q
    BY <1>3 DEF Loaded, VersionData
  <2> HIDE DEF loaded
  <2>4. /\ q \in Records /\ q.HeadType = KCF_ARCHIVE_HEADER /\ q.Data = VersionData(header)
        /\ q.DataSize = 2 /\ q.block = b /\ q.HeadCRC = rec_calculate_CRC(q) /\ q.HeadSize = (6 + 2) % TwoTo16
    BY <2>1, <2>2, FixType
  <2>5. q.HeadSize = 8
    BY <2>4, FileInfoConstantsOK
  <2> HIDE DEF q
  <2>6. Holds(q, VersionOf(header))
    BY <1>1, <2>4, <2>5, VersionHeld DEF HoldsVersion
  <2>7. VersionOf(header) \in Sources
    BY <1>1 DEF Sources
  <2>8. crashed' \in BOOLEAN
    BY <1>3 DEF IInv, Typed
  <2>9. UNCHANGED <<infos, header>>
    BY DEF rec_from_archive_header
  <2> QED
    BY <1>3, <2>3, <2>4, <2>6, <2>7, <2>8, <2>9, RecordChanged
<1> QED
  BY <1>2, <1>3 DEF rec_from_archive_header, Allocated

LEMMA HeaderChanged ==
  ASSUME IInv, header' \in Versions16, UNCHANGED <<infos, record, live, source, crashed>>
  PROVE  IInv'
BY DEF IInv, Typed

LEMMA ToHeaderInv ==
  ASSUME IInv, rec_to_archive_header
  PROVE  IInv'
<1>1. FieldAt(record.Data, record.DataSize, 0, 2) \in Versions16
  BY Accepted, HeldVersion DEF rec_to_archive_header
<1> QED
  BY <1>1, HeaderChanged DEF rec_to_archive_header

LEMMA AhdrClearInv ==
  ASSUME IInv, ahdr_clear
  PROVE  IInv'
<1>1. 0 \in Versions16
  BY FileInfoConstantsOK DEF Versions16
<1> QED
  BY <1>1, HeaderChanged DEF ahdr_clear

LEMMA NextInv == IInv /\ [Next]_vars => IInv'
<1> SUFFICES ASSUME IInv, [Next]_vars PROVE IInv'
  OBVIOUS
<1>1. CASE UNCHANGED vars
  BY <1>1 DEF vars, IInv, Typed
<1>2. CASE Next
  BY <1>2, FillInv, RecClearInv, FromHeaderInv, ToHeaderInv, AhdrClearInv, FillRecordInv, ReadInv,
     ClearInv, CopyInv DEF Next
<1> QED
  BY <1>1, <1>2

(***************************************************************************)
(* What follows from it.                                                    *)
(***************************************************************************)
LEMMA InvType == IInv => TypeOK
<1> SUFFICES ASSUME IInv PROVE TypeOK
  OBVIOUS
<1>1. Nat \subseteq Readable
  BY DEF Readable
<1>2. GoodInfos \subseteq Infos
  <2> SUFFICES ASSUME NEW i \in GoodInfos PROVE i \in Infos
    OBVIOUS
  <2>1. i.FileName \in Names
    BY <1>1 DEF GoodInfos, RawInfos, RawNames, Names
  <2> QED
    BY <1>1, <2>1 DEF GoodInfos, RawInfos, Infos
<1>3. infos \in [Structs -> Infos]
  BY <1>2 DEF IInv, Typed
<1> QED
  BY <1>1, <1>3 DEF IInv, Typed, TypeOK, Records, Types, Versions16

LEMMA InvReadBack == IInv => InfoReadBack
<1> SUFFICES ASSUME IInv, ~crashed, source.kind = KCF_FILE_HEADER, NEW d \in Structs
             PROVE  LET got == InfoFrom(infos[d], record.Data, record.DataSize)
                        was == source.info
                    IN  /\ got.Has = was.Has
                        /\ got.CompressionInfo = was.CompressionInfo
                        /\ "UnpackedSize" \in was.Has =>
                             got.UnpackedSize = Truncated(UnpackedWidth(was.Has), was.UnpackedSize)
                        /\ "FileCRC32" \in was.Has => got.FileCRC32 = was.FileCRC32
                        /\ "TimeStamp" \in was.Has => got.TimeStamp = was.TimeStamp
                        /\ got.FileName.text = was.FileName.text
                        /\ got.FileName.size = was.FileName.size % TwoTo16
  BY DEF InfoReadBack, HoldsFile
<1>1. /\ source.info \in GoodInfos /\ record.Data = FileData(source.info)
      /\ record.DataSize = get_file_info_data_size(source.info)
  BY HeldInfo DEF HoldsInfo
<1>2. infos[d] \in RawInfos
  BY DEF IInv, Typed, GoodInfos
<1> QED
  BY <1>1, <1>2, ReadsBack

LEMMA InvTiled == IInv => DataTiled
<1> SUFFICES ASSUME IInv, ~crashed, source.kind = KCF_FILE_HEADER
             PROVE  Tiles(record.Data, record.DataSize)
  BY DEF DataTiled, HoldsFile
<1> QED
  BY HeldInfo, Filled DEF HoldsInfo

LEMMA InvAccepts == IInv => ReadAsFilled
BY Accepted DEF ReadAsFilled

LEMMA InvOwned == IInv => BlocksOwned
BY OwnedIs DEF IInv, Typed

THEOREM IInvHolds == Spec => []IInv
BY InitInv, NextInv, PTL DEF Spec

(* Fields keep their types and HeadSize its 16 bits, for all widths, values *)
(* and heaps: in particular, what is read from records of this library is   *)
(* never Garbage.                                                           *)
THEOREM FileInfoTypeCorrect == Spec => []TypeOK
BY IInvHolds, InvType, PTL

(* A file header is read as the struct it was made from, for all of them    *)
(* and whatever it is read into.                                            *)
THEOREM InfoIsReadBack == Spec => []InfoReadBack
BY IInvHolds, InvReadBack, PTL

(* The two functions that compute and fill main data agree on its size.     *)
THEOREM DataIsTiled == Spec => []DataTiled
BY IInvHolds, InvTiled, PTL

(* A record filled half-way is taken for nothing.                           *)
THEOREM HalfFilledRefused == Spec => []ReadAsFilled
BY IInvHolds, InvAccepts, PTL

(* No block has two owners, and none that is owned has been freed.          *)
THEOREM NamesOwned == Spec => []BlocksOwned
BY IInvHolds, InvOwned, PTL
==============================================================================
