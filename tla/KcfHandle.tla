------------------------------ MODULE KcfHandle ------------------------------
(***************************************************************************)
(* A KCF archive handle (struct kcf_st, kcf/kcf_impl.h) over one IO stream: *)
(* the parser state machine of kcf/archive.c, the record reader of          *)
(* kcf/read.c, the record writer and its backpatching of kcf/write.c, and   *)
(* the marker of kcf/marker.c.                                              *)
(*                                                                          *)
(* The stream is a sequence of cells: the marker, one cell per record       *)
(* header (fixed fields and main data together) and one cell per byte of    *)
(* added data.  Its position lies between two cells or, when reading has     *)
(* failed or gone astray, somewhere within a cell of several bytes.  Data    *)
(* that is read where no data is takes any cell for a byte.                 *)
(*                                                                          *)
(* A CRC32C is modelled by the sequence of bytes it was        *)
(* computed over, and crc32c(c, buf) appends buf to it.  That a patched      *)
(* header fits where it was is shown in RecordCodec.                        *)
(*                                                                          *)
(* marker.c and read.c:224 still use the names ParserState had before it    *)
(* was introduced (ReaderState, WriterState, KCF_RDSTATE_x, KCF_WRSTATE_x); *)
(* they are read here as ParserState and its corresponding values.          *)
(***************************************************************************)
EXTENDS Integers, Sequences

CONSTANTS
  Bytes,          \* values of a byte of added data
  Payloads,       \* head type and main data of a record, as one value
  NoPayload,      \* those of a cleared record
  Marker,         \* the cell of the marker "KC!\x1A\6\0"
  Torn,           \* what a partly written header leaves in the stream
  InitialStreams, \* contents of the file a first handle is created on
  Faults,         \* which I/O and allocation failures may happen
  Habits,         \* which liberties the caller takes
  Announced,      \* added sizes a caller puts in a record before its data
  MaxChunk,       \* most bytes passed to one write or read of added data
  SkipBuffer,     \* size of the buffer IO_skip reads into
  MaxLen          \* bound on the length of the stream

FaultKinds == {"read", "write", "short", "tell", "seek", "seekback", "flush", "alloc",
               "readonly"}    \* the stream was not opened for writing
HabitKinds == {"overwrite",    \* starts writing at a cell, not at the end
               "after_data",   \* starts writing right after reading added data
               "underfill",    \* ends a record before its announced size
               "implicit_end", \* begins a record without ending the open one
               "carry_on",     \* calls again after a call has failed
               "damaged",      \* starts writing on a file whose records are not whole
               "abandon"}      \* closes the handle inside a record

ASSUME ConstantsOK ==
  /\ Faults \subseteq FaultKinds /\ Habits \subseteq HabitKinds
  /\ Announced \subseteq Nat /\ MaxChunk \in Nat /\ MaxLen \in Nat
  /\ SkipBuffer \in Nat \ {0}
  /\ Marker # Torn /\ Marker \notin Bytes /\ Torn \notin Bytes

VARIABLES
  kcf,      \* the fields of struct kcf_st
  io,       \* the stream: cells, position (cells before it, and whether within
            \* the next), writability
  skipLeft, \* "remaining" of a KCF_skip_record in progress, or -1
  call,     \* the last call and what it returned; whether any failed on this handle
  acked     \* history: cells the caller was told are complete records

vars == <<kcf, io, skipLeft, call, acked>>

(***************************************************************************)
(* Cells, records and the handle.                                           *)
(***************************************************************************)
Symbols == Bytes \cup {Marker, Torn}

IsHeader(c) == c \notin Symbols

(* What a CRC can be computed over: a header can lie, and a record can be   *)
(* read where a header was expected to hold bytes.                          *)
Data == Seq(Bytes \cup {Torn})

RecordOf(P, Size, Crc) ==
  [payload : P, hasSize : BOOLEAN, hasCRC : BOOLEAN,
   AddedSize : Size, AddedDataCRC32 : Crc]

ZeroRecord ==
  [payload |-> NoPayload, hasSize |-> FALSE, hasCRC |-> FALSE,
   AddedSize |-> 0, AddedDataCRC32 |-> <<>>]

Headers == RecordOf(Payloads \cup {NoPayload}, Nat, Data)

(* A header in a stream: one without the size field has no size.            *)
HeaderCells == {h \in Headers : ~h.hasSize => h.AddedSize = 0}

(* What a caller may pass to KCF_write_record: the size is looked at only   *)
(* with the flag.                                                           *)
NewRecords ==
  {r \in RecordOf(Payloads, Announced \cup {0}, {<<>>}) : ~r.hasSize => r.AddedSize = 0}

Chunks == UNION {[1..n -> Bytes] : n \in 0..MaxChunk}

ParserStates ==
  {"NEUTRAL",
   "READING", "READ_MARKER", "READ_RECORD_HEADER", "READ_RECORD_DATA", "READ_ADDED_DATA",
   "WRITING", "WRITE_MARKER", "WRITE_RECORD", "WRITE_ADDED_DATA"}

IsWritingState(p) == p \in {"WRITING", "WRITE_MARKER", "WRITE_RECORD", "WRITE_ADDED_DATA"}

(* The struct as calloc leaves it.  The unions of the struct are one field  *)
(* each; IsWriting is declared and tested but assigned nowhere.             *)
NewHandle ==
  [ParserState            |-> "NEUTRAL",
   AvailableOrToBeWritten |-> 0,     \* AvailableAddedData, AddedDataToBeWritten
   ReadOrWritten          |-> 0,     \* AddedDataAlreadyRead, WrittenAddedData
   AddedDataCRC32         |-> <<>>,
   ActualAddedDataCRC32   |-> <<>>,
   RecordOffset           |-> 0,
   LastRecord             |-> ZeroRecord,
   HasAddedDataCRC32      |-> FALSE,
   IsWriting              |-> FALSE,
   PackerOrUnpackerState  |-> 0]     \* IDLE, VALIDATING_FORMAT

When(p, S) == IF p THEN S ELSE {}

Result(k, s, e) == [kcf |-> k, io |-> s, ret |-> e]

Refuse(k, s) == {Result(k, s, "INVALID_STATE")}

AtLeast(i, j) == IF i <= j THEN j ELSE i
AtMost(i, j)  == IF i <= j THEN i ELSE j

Handles ==
  [ParserState : ParserStates, AvailableOrToBeWritten : Nat, ReadOrWritten : Nat,
   AddedDataCRC32 : Data, ActualAddedDataCRC32 : Data, RecordOffset : Nat \cup {-1},
   LastRecord : Headers, HasAddedDataCRC32 : BOOLEAN, IsWriting : {FALSE},
   PackerOrUnpackerState : {0}]

Streams ==
  [cells : Seq(Symbols \cup HeaderCells), pos : Nat, within : BOOLEAN, writable : BOOLEAN]

Failures == {"READ", "WRITE", "OUT_OF_MEMORY", "UNKNOWN"}

Errors == Failures \cup {"OK", "INVALID_STATE", "INVALID_FORMAT", "CRASHED"}

ASSUME StreamsOK == \A cells \in InitialStreams : cells \in Seq(Symbols \cup HeaderCells)

StartsRecord(c) == c = Marker \/ IsHeader(c)

DataLen(c) == IF IsHeader(c) THEN IF c.hasSize THEN c.AddedSize ELSE 0 ELSE 0

(* The first n cells are a marker and whole records: after each header as   *)
(* many bytes as it says, with the CRC it says, and then the next header.   *)
CompleteRecords(cells, n) ==
  /\ n > 0 => cells[1] = Marker
  /\ \A i \in 1..n : StartsRecord(cells[i]) =>
       LET last == i + DataLen(cells[i])
       IN  /\ last <= n
           /\ \A j \in (i + 1)..last : cells[j] \in Bytes
           /\ last < n => StartsRecord(cells[last + 1])
           /\ IsHeader(cells[i]) /\ cells[i].hasCRC =>
                cells[i].AddedDataCRC32 = SubSeq(cells, i + 1, last)

(***************************************************************************)
(* The stream.                                                              *)
(***************************************************************************)
Put(cells, pos, x) ==
  [i \in 1..AtLeast(Len(cells), pos + Len(x)) |->
     IF i \in (pos + 1)..(pos + Len(x)) THEN x[i - pos] ELSE cells[i]]

Seek(s, p) == [s EXCEPT !.pos = p, !.within = FALSE]

Stored(s, x) == [Seek(s, s.pos + Len(x)) EXCEPT !.cells = Put(s.cells, s.pos, x)]

Remainder(s) == Len(s.cells) - s.pos

(* n bytes of data on.                                                      *)
Ahead(s, n) == IF n = 0 THEN s ELSE Seek(s, s.pos + n)

(* How many of n bytes a read yields when it does not fail: all that are    *)
(* there, unless it falls short.                                            *)
Yield(s, n) ==
  LET all == AtMost(n, Remainder(s))
  IN  {all} \cup When("short" \in Faults, 0..all)

(* What a write of x leaves behind when only part of it is taken: some of   *)
(* the bytes, or nothing or a torn header.                                  *)
PartsOf(x) ==
  IF Len(x) = 1 /\ IsHeader(x[1]) THEN {<<>>, <<Torn>>}
  ELSE {SubSeq(x, 1, n) : n \in 0..(Len(x) - 1)}

(* Added data may be written in several chunks (fd.c), the last of which    *)
(* fails; a header is shorter than a chunk.                                 *)
ChunksOf(x) == When(\A i \in DOMAIN x : x[i] \in Bytes, PartsOf(x))

(* ok is the only thing the callers test: a result that is not negative.    *)
IO_write(s, x) ==
  When(s.writable, {[io |-> Stored(s, x), ok |-> TRUE]})
  \cup When("write" \in Faults \/ ~s.writable, {[io |-> s, ok |-> FALSE]})
  \cup When("write" \in Faults /\ s.writable, {[io |-> Stored(s, y), ok |-> FALSE] : y \in ChunksOf(x)})
  \cup When("short" \in Faults /\ s.writable, {[io |-> Stored(s, y), ok |-> TRUE] : y \in PartsOf(x)})

IO_tell(s) == {s.pos} \cup When("tell" \in Faults, {-1})

(* Mutants: the position is not put back after a backpatch, or is put back  *)
(* one too far.                                                             *)
SeekBackNever(s, p) == {s}
SeekBackPast(s, p) == {Seek(s, p + 1)}

(* Putting the position back after a backpatch, whose result is not looked  *)
(* at: s if the seek fails, or if IO_tell had not found the position.       *)
SeekBack(s, p) ==
  {Seek(s, p)} \cup When(Faults \cap {"seekback", "tell"} # {}, {s})

(***************************************************************************)
(* Writing.  Each operator is a function of the library: the set of its     *)
(* possible results, from handle k and stream s.                            *)
(***************************************************************************)
(* Mutant: the checksum goes on from record to record.                      *)
CleanedButCRC(k) ==
  [k EXCEPT !.LastRecord = ZeroRecord, !.RecordOffset = 0,
            !.ReadOrWritten = 0, !.AvailableOrToBeWritten = 0,
            !.HasAddedDataCRC32 = FALSE, !.ParserState = "WRITE_RECORD"]

Cleaned(k) ==
  [k EXCEPT !.LastRecord = ZeroRecord, !.RecordOffset = 0,
            !.ReadOrWritten = 0, !.AvailableOrToBeWritten = 0,
            !.AddedDataCRC32 = <<>>, !.HasAddedDataCRC32 = FALSE,
            !.ParserState = "WRITE_RECORD"]

(* The header cell of record r: optional fields that are absent are not     *)
(* serialised.                                                              *)
rec_to_buffer(r) ==
  [r EXCEPT !.AddedSize = IF r.hasSize THEN r.AddedSize ELSE 0,
            !.AddedDataCRC32 = IF r.hasCRC THEN r.AddedDataCRC32 ELSE <<>>]

(* A record whose main data could not be copied when it was written is      *)
(* serialised from a null pointer.                                          *)
Backpatch(k, s) ==
  LET patched == [k EXCEPT !.LastRecord.AddedSize = k.ReadOrWritten,
                           !.LastRecord.AddedDataCRC32 = k.AddedDataCRC32]
      there   == Seek(s, k.RecordOffset)
      Rewritten(w) ==
        IF w.ok THEN {Result(Cleaned(patched), b, "OK") : b \in SeekBack(w.io, s.pos)}
                ELSE {Result(patched, w.io, "WRITE")}
  IN  When(k.RecordOffset < 0 \/ "seek" \in Faults, {Result(k, s, "WRITE")})
      \cup When(k.RecordOffset >= 0,
             When("alloc" \in Faults, {Result(patched, there, "OUT_OF_MEMORY")})
             \cup (IF k.LastRecord.payload = NoPayload THEN {Result(patched, there, "CRASHED")}
                   ELSE UNION {Rewritten(w) :
                               w \in IO_write(there, <<rec_to_buffer(patched.LastRecord)>>)}))

(* Mutant: a size known in advance is taken to leave nothing to patch.      *)
FinishedIfSized(k, s) ==
  IF k.ParserState # "WRITE_ADDED_DATA" THEN Refuse(k, s)
  ELSE IF k.AvailableOrToBeWritten > 0 THEN {Result(Cleaned(k), s, "OK")}
  ELSE Backpatch(k, s)

KCF_finish_added_data(k, s) ==
  IF k.ParserState # "WRITE_ADDED_DATA"
  THEN Refuse(k, s)
  ELSE IF k.AvailableOrToBeWritten > 0 /\ ~k.HasAddedDataCRC32
  THEN {Result(Cleaned(k), s, "OK")}
  ELSE Backpatch(k, s)

(* What every record written does first.  The error of the call that        *)
(* finishes the previous record is thrown away.                             *)
PreviousFinished(k, s) ==
  LET k1 == [k EXCEPT !.ParserState = IF @ = "WRITING" THEN "WRITE_RECORD" ELSE @]
  IN  IF k1.ParserState = "WRITE_ADDED_DATA" THEN KCF_finish_added_data(k1, s)
                                             ELSE {Result(k1, s, "OK")}

MayWriteRecord(k) == IsWritingState(k.ParserState) /\ k.ParserState # "WRITE_MARKER"

(* Whether a record was finished by a call that came back.                  *)
Survives(f) == f.ret # "CRASHED"

(* The copy of a record that is kept for backpatching: rec_copy may fail to *)
(* allocate the main data, and its result is not looked at.                 *)
CopiesOf(r) == {r} \cup When("alloc" \in Faults, {[r EXCEPT !.payload = NoPayload]})

OpenRecord(k, r) ==
  IF r.hasSize
  THEN [k EXCEPT !.HasAddedDataCRC32 = r.hasCRC, !.LastRecord = r,
                 !.AvailableOrToBeWritten = r.AddedSize,
                 !.ParserState = "WRITE_ADDED_DATA"]
  ELSE [k EXCEPT !.HasAddedDataCRC32 = r.hasCRC]

(* Mutant: the record is opened whether or not its header was written.      *)
WriteHeaderUnchecked(k, s, r) ==
  LET At(o) == [k EXCEPT !.RecordOffset = o]
      Written(o, w) == {Result(OpenRecord(At(o), c), w.io, IF w.ok THEN "OK" ELSE "WRITE")
                        : c \in CopiesOf(r)}
  IN  UNION {UNION {Written(o, w) : w \in IO_write(s, <<rec_to_buffer(r)>>)} : o \in IO_tell(s)}

WriteHeader(k, s, r) ==
  LET At(o) == [k EXCEPT !.RecordOffset = o]
      Written(o, w) == IF w.ok THEN {Result(OpenRecord(At(o), c), w.io, "OK") : c \in CopiesOf(r)}
                               ELSE {Result(At(o), w.io, "WRITE")}
  IN  When("alloc" \in Faults, {Result(k, s, "OUT_OF_MEMORY")})
      \cup UNION {UNION {Written(o, w) : w \in IO_write(s, <<rec_to_buffer(r)>>)} : o \in IO_tell(s)}

KCF_write_record(k, s, r) ==
  IF ~MayWriteRecord(k) THEN Refuse(k, s)
  ELSE UNION {IF Survives(f) THEN WriteHeader(f.kcf, f.io, r) ELSE {f} : f \in PreviousFinished(k, s)}

(* Mutant: the size is set and its flag is not.                             *)
WithoutSizeFlag(r, x) ==
  [r EXCEPT !.AddedSize = Len(x), !.AddedDataCRC32 = IF r.hasCRC THEN x ELSE @]

(* Flags and size of record r adjusted to the data that is passed with it.  *)
WithAddedData(r, x) ==
  IF x # <<>> THEN [r EXCEPT !.hasSize = TRUE, !.AddedSize = Len(x),
                             !.AddedDataCRC32 = IF r.hasCRC THEN x ELSE @]
  ELSE [r EXCEPT !.hasSize = FALSE, !.hasCRC = FALSE, !.AddedSize = 0, !.AddedDataCRC32 = <<>>]

HeaderAndData(k, s, r, x) ==
  LET After(w) == IF ~w.ok THEN {Result(k, w.io, "WRITE")}
                  ELSE {Result(k, d.io, IF d.ok THEN "OK" ELSE "WRITE") : d \in IO_write(w.io, x)}
  IN  When("alloc" \in Faults, {Result(k, s, "OUT_OF_MEMORY")})
      \cup UNION {After(w) : w \in IO_write(s, <<rec_to_buffer(WithAddedData(r, x))>>)}

KCF_write_record_with_added_data(k, s, r, x) ==
  IF ~MayWriteRecord(k) THEN Refuse(k, s)
  ELSE UNION {IF Survives(f) THEN HeaderAndData(f.kcf, f.io, r, x) ELSE {f} :
              f \in PreviousFinished(k, s)}

(* Mutant: more may be written than was announced.                          *)
WholeChunk(k, x) == x

(* Size clipped to what is left of a size known in advance.  The            *)
(* subtraction is of unsigned numbers: with more written than announced it  *)
(* wraps to a value no Size reaches.                                        *)
Clipped(k, x) ==
  LET left == k.AvailableOrToBeWritten - k.ReadOrWritten
  IN  IF k.AvailableOrToBeWritten > 0 /\ left >= 0 THEN SubSeq(x, 1, AtMost(Len(x), left)) ELSE x

KCF_write_added_data(k, s, x) ==
  LET y == Clipped(k, x)
      Counted == [k EXCEPT !.ReadOrWritten = @ + Len(y),
                           !.AddedDataCRC32 = IF k.HasAddedDataCRC32 THEN @ \o y ELSE @]
  IN  IF k.ParserState # "WRITE_ADDED_DATA" THEN Refuse(k, s)
      ELSE IF k.AvailableOrToBeWritten > 0 /\ k.AvailableOrToBeWritten = k.ReadOrWritten
      THEN {Result(k, s, "OK")}
      ELSE {IF w.ok THEN Result(Counted, w.io, "OK") ELSE Result(k, w.io, "WRITE") : w \in IO_write(s, y)}

KCF_write_marker(k, s) ==
  IF ~k.IsWriting \/ k.ParserState # "WRITE_MARKER" THEN Refuse(k, s)
  ELSE {IF w.ok THEN Result([k EXCEPT !.ParserState = "WRITE_RECORD"], w.io, "OK")
                ELSE Result(k, w.io, "WRITE") : w \in IO_write(s, <<Marker>>)}

(***************************************************************************)
(* Reading.                                                                 *)
(***************************************************************************)
(* A header read where no header cell is: past the end the buffer stays     *)
(* zero, the marker reads as a record without added data, and anything else *)
(* as whatever its bytes happen to say.                                     *)
GarbageHeaders ==
  {h \in RecordOf({NoPayload}, 0..MaxLen, {<<>>, <<Torn>>}) :
     (~h.hasSize => h.AddedSize = 0) /\ (~h.hasCRC => h.AddedDataCRC32 = <<>>)}

AtEnd(s) == s.pos = Len(s.cells)

(* At the first byte of the marker or of a header.                          *)
AtRecord(s) == ~AtEnd(s) /\ ~s.within /\ StartsRecord(s.cells[s.pos + 1])

HeadersAt(s) ==
  IF AtEnd(s) THEN {ZeroRecord}
  ELSE IF ~AtRecord(s) THEN GarbageHeaders
  ELSE IF IsHeader(s.cells[s.pos + 1]) THEN {s.cells[s.pos + 1]} ELSE {ZeroRecord}

(* Whether HeadSize - HeaderSize, an unsigned difference, is below zero: no *)
(* memory block is that large, and malloc refuses it.                       *)
BodyUnderflows(s) ==
  IF AtEnd(s) THEN {TRUE} ELSE IF AtRecord(s) THEN {FALSE} ELSE BOOLEAN

(* From s, or anywhere after it: within a cell, if it has several bytes.    *)
Within(s, p) == [s EXCEPT !.pos = p, !.within = TRUE]

Onwards(s) ==
  {s} \cup {Seek(s, p) : p \in (s.pos + 1)..Len(s.cells)}
      \cup {Within(s, p - 1) : p \in {q \in (s.pos + 1)..Len(s.cells) : s.cells[q] \notin Bytes}}

(* Where a header, with its main data, ends: it has no length that could be *)
(* relied on, but some length, unless it is one.                            *)
HeaderEnds(s) ==
  IF AtEnd(s) THEN {s}
  ELSE IF AtRecord(s) THEN {Seek(s, s.pos + 1)}
  ELSE {t \in Onwards(s) : t # s \/ s.within}

(* Where reading one may break off, between two of its fields or inside one.*)
BreaksOff(s) == {t \in Onwards(s) : AtRecord(s) => t.pos = s.pos \/ t = Seek(s, s.pos + 1)}

Header(k, s, e, h, u) == [kcf |-> k, io |-> s, ret |-> e, header |-> h, underflows |-> u]

Parsed(k, h) ==
  [k EXCEPT !.AddedDataCRC32 = IF h.hasCRC THEN h.AddedDataCRC32 ELSE <<>>,
            !.ParserState = "READ_RECORD_DATA"]

(* Some header is found that ends somewhere.                                *)
Found(k, H, T, U) == {Header(Parsed(k, h), t, "OK", h, u) : h \in H, t \in T, u \in U}

(* What falls short is zero, or left from the fields before it, and the     *)
(* rest of the header is taken for what comes next.                         *)
read_record_header(k, s) ==
  Found(k, HeadersAt(s), HeaderEnds(s), BodyUnderflows(s))
  \cup When("short" \in Faults, Found(k, GarbageHeaders, BreaksOff(s), BOOLEAN))
  \cup When("read" \in Faults, {Header(k, t, "READ", ZeroRecord, FALSE) : t \in BreaksOff(s)})

(* Mutant: the next header is expected whatever the record carries.         *)
ReadBodyOnly(hd) ==
  {Result([hd.kcf EXCEPT !.ParserState = "READ_RECORD_HEADER"], hd.io, "OK")}

(* Where the main data that could not be read leaves the stream does not     *)
(* matter: nothing is read or written any more.                             *)
ReadBody(hd) ==
  LET next == [hd.kcf EXCEPT !.ParserState = IF hd.header.hasSize THEN "READ_ADDED_DATA"
                                                                  ELSE "READ_RECORD_HEADER",
                             !.AvailableOrToBeWritten = hd.header.AddedSize]
  IN  IF hd.ret # "OK" THEN {Result(hd.kcf, hd.io, hd.ret)}
      ELSE IF hd.underflows THEN {Result(hd.kcf, hd.io, "OUT_OF_MEMORY")}
      ELSE {Result(next, hd.io, "OK")}
           \cup When("alloc" \in Faults, {Result(hd.kcf, hd.io, "OUT_OF_MEMORY")})
           \cup When("read" \in Faults, {Result(hd.kcf, hd.io, "READ")})

(* Mutant: nothing is reset before a record is read.                        *)
ReadRecordWithoutReset(k, s) ==
  IF k.ParserState # "READ_RECORD_HEADER" THEN Refuse(k, s)
  ELSE UNION {ReadBody(hd) : hd \in read_record_header(k, s)}

(* Mutant: the reset comes before the test of the state.                    *)
ReadRecordResetFirst(k, s) ==
  LET k0 == [k EXCEPT !.ReadOrWritten = 0, !.AvailableOrToBeWritten = 0,
                      !.AddedDataCRC32 = <<>>, !.ActualAddedDataCRC32 = <<>>]
  IN  IF k.ParserState # "READ_RECORD_HEADER" THEN Refuse(k0, s)
      ELSE UNION {ReadBody(hd) : hd \in read_record_header(k0, s)}

KCF_read_record(k, s) ==
  LET k0 == [k EXCEPT !.ReadOrWritten = 0, !.AvailableOrToBeWritten = 0,
                      !.AddedDataCRC32 = <<>>, !.ActualAddedDataCRC32 = <<>>]
  IN  IF k.ParserState # "READ_RECORD_HEADER" THEN Refuse(k, s)
      ELSE UNION {ReadBody(hd) : hd \in read_record_header(k0, s)}

ByteOf(c) == IF c \in Bytes THEN c ELSE Torn

BytesAt(s, n) == [i \in 1..n |-> ByteOf(s.cells[s.pos + i])]

(* A negative result of IO_read is compared with a size_t.  Where that has  *)
(* 64 bits it passes for a full read, and the CRC runs over 2^64-1 bytes:   *)
(* the process dies.  Where it has 32, the error is seen.                   *)
KCF_read_added_data(k, s, n) ==
  LET m    == AtMost(n, k.AvailableOrToBeWritten)
      Read == [k EXCEPT !.AvailableOrToBeWritten = @ - m,
                        !.ActualAddedDataCRC32 = @ \o BytesAt(s, m),
                        !.ReadOrWritten = @ + m,
                        !.ParserState = IF k.AvailableOrToBeWritten = m THEN "READ_RECORD_HEADER" ELSE @]
  IN  IF k.ParserState # "READ_ADDED_DATA" THEN Refuse(k, s)
      ELSE IF k.AvailableOrToBeWritten = 0
      THEN {Result([k EXCEPT !.ParserState = "READ_RECORD_HEADER"], s, "OK")}
      ELSE {IF got < m THEN Result(k, Ahead(s, got), "READ") ELSE Result(Read, Ahead(s, m), "OK")
            : got \in Yield(s, m)}
           \cup When("read" \in Faults,
                  {Result(k, s, "CRASHED")}
                  \cup {Result(k, Ahead(s, got), "READ") : got \in 0..AtMost(m, Remainder(s))})

MarkersAhead(s) == {i \in (s.pos + 1)..Len(s.cells) : s.cells[i] = Marker}

(* A scan whose reading fails inside the marker has passed it.              *)
KCF_find_marker(k, s) ==
  LET ahead   == MarkersAhead(s)
      nearest == {i \in ahead : \A j \in ahead : i <= j}
      before  == {p \in s.pos..Len(s.cells) : \A j \in ahead : p <= j}
      At(p)   == Seek(s, p)
  IN  IF k.IsWriting \/ k.ParserState # "READ_MARKER" THEN Refuse(k, s)
      ELSE {Result([k EXCEPT !.ParserState = "READ_RECORD_HEADER"], At(i), "OK") : i \in nearest}
           \cup When(ahead = {}, {Result(k, At(Len(s.cells)), "INVALID_FORMAT")})
           \cup When("read" \in Faults, {Result(k, At(p), "READ") : p \in before})

(***************************************************************************)
(* Switching between reading and writing.                                   *)
(***************************************************************************)
Flushed(k, s) ==
  {Result([k EXCEPT !.ParserState = "READ_RECORD_HEADER"], s, "OK")}
  \cup When("flush" \in Faults, {Result(k, s, "UNKNOWN")})

KCF_start_reading(k, s) ==
  LET To(p) == {Result([k EXCEPT !.ParserState = p], s, "OK")}
      AfterFinish(f) == IF f.ret = "OK" THEN Flushed(f.kcf, f.io) ELSE {f}
  IN  CASE k.ParserState \in {"NEUTRAL", "READING"} -> To("READ_MARKER")
        [] k.ParserState = "WRITE_MARKER" -> To("READING")
        [] k.ParserState = "WRITE_ADDED_DATA" -> UNION {AfterFinish(f) : f \in KCF_finish_added_data(k, s)}
        [] k.ParserState = "WRITE_RECORD" -> Flushed(k, s)
        [] OTHER -> {Result(k, s, "OK")}

(* Mutant: any reading state gives way to writing.                          *)
StartWritingAnyway(k, s) ==
  LET Into(p) == [k EXCEPT !.ParserState = p]
  IN  CASE k.ParserState \in {"NEUTRAL", "READING", "WRITING", "READ_MARKER"} ->
             KCF_write_marker(Into("WRITE_MARKER"), s)
        [] k.ParserState \in {"READ_RECORD_HEADER", "READ_ADDED_DATA", "READ_RECORD_DATA"} ->
             {Result(Into("WRITE_RECORD"), s, "OK")}
        [] OTHER -> {Result(k, s, "OK")}

KCF_start_writing(k, s) ==
  LET Into(p) == [k EXCEPT !.ParserState = p]
  IN  CASE k.ParserState \in {"NEUTRAL", "READING", "WRITING", "READ_MARKER"} ->
             KCF_write_marker(Into("WRITE_MARKER"), s)
        [] k.ParserState = "READ_RECORD_HEADER" -> {Result(Into("WRITE_RECORD"), s, "OK")}
        [] k.ParserState \in {"READ_ADDED_DATA", "READ_RECORD_DATA"} -> Refuse(k, s)
        [] OTHER -> {Result(k, s, "OK")}

(* The archive header is a record without added data; p is its payload, for *)
(* which memory is asked and the answer not looked at.                      *)
KCF_write_archive_header(k, s, p) ==
  KCF_write_record(k, s, [ZeroRecord EXCEPT !.payload = p])
  \cup When("alloc" \in Faults, {Result(k, s, "CRASHED")})

KCF_init_archive(k, s, p) ==
  UNION {IF f.ret = "OK" THEN KCF_write_archive_header(f.kcf, f.io, p) ELSE {f}
         : f \in KCF_start_writing(k, s)}

(***************************************************************************)
(* The file layer.  Of each call no more is reached than the following,     *)
(* because nothing sets IsWriting, and PackerState and UnpackerState, which *)
(* share storage, only past guards that test them.                          *)
(***************************************************************************)
(* KCF_begin_file, KCF_insert_file_data and KCF_end_file want IsWriting,    *)
(* KCF_extract and KCF_get_current_file_info another state.                 *)
FileCallRefused(k, s) ==
  When(~k.IsWriting, Refuse(k, s)) \cup When(k.PackerOrUnpackerState = 0, Refuse(k, s))

(* A record is read before the state is looked at, and then refused.        *)
KCF_skip_file(k, s) ==
  IF k.IsWriting THEN Refuse(k, s)
  ELSE {IF f.ret = "OK" /\ k.PackerOrUnpackerState = 0 THEN Result(f.kcf, f.io, "INVALID_STATE") ELSE f
        : f \in KCF_read_record(k, s)}

(***************************************************************************)
(* The calls.  A caller makes one call at a time on a handle and waits for  *)
(* its result; KCF_skip_record, whose loop may not end, takes many steps.   *)
(***************************************************************************)
Operations ==
  {"create", "start_reading", "start_writing", "init_archive", "find_marker", "write_marker",
   "read_record", "read_added_data", "skip_record", "write_record",
   "write_record_with_added_data", "write_added_data", "finish_added_data",
   "file_call", "skip_file"}

Idle == skipLeft = -1

Calls == [op : Operations, ret : Errors, handle : {"sound", "failed"}]

Returned(op, e) ==
  [op |-> op, ret |-> e,
   handle |-> IF e \in Failures \cup {"CRASHED"} THEN "failed" ELSE call.handle]

MayCall ==
  /\ Idle /\ call.ret # "CRASHED"
  /\ "carry_on" \in Habits \/ call.handle = "sound"

(* Ending the record being written, unless that leaves it short of the size *)
(* its header already announces for good.                                   *)
MayEndRecord ==
  \/ "underfill" \in Habits
  \/ ~ /\ kcf.ParserState = "WRITE_ADDED_DATA" /\ ~kcf.HasAddedDataCRC32
       /\ kcf.ReadOrWritten < kcf.AvailableOrToBeWritten

(* Beginning a record, possibly where another is open, which the library    *)
(* then ends.                                                               *)
MayBeginRecord ==
  MayEndRecord /\ ("implicit_end" \in Habits \/ kcf.ParserState # "WRITE_ADDED_DATA")

(* Going from reading to writing: at the end of the archive, with no added  *)
(* data read since the last call of KCF_read_record, and on whole records.  *)
MayStartWriting ==
  kcf.ParserState = "READ_RECORD_HEADER" =>
    /\ AtEnd(io) \/ ("overwrite" \in Habits /\ ~io.within)
    /\ "after_data" \in Habits \/ (kcf.ReadOrWritten = 0 /\ kcf.AddedDataCRC32 = <<>>)
    /\ "damaged" \in Habits \/ CompleteRecords(io.cells, Len(io.cells))

Room(n) == io.pos + n <= MaxLen

(* The cells a successful call tells the caller are complete records: what  *)
(* precedes the record it has opened, or all there is, or nothing new.      *)
AckedBy(ack, o) ==
  IF o.ret # "OK" THEN acked
  ELSE CASE ack = "before" -> AtLeast(acked, o.kcf.RecordOffset)
         [] ack = "all"    -> Len(o.io.cells)
         [] OTHER          -> acked

Return(op, outcomes, ack) ==
  /\ MayCall
  /\ \E o \in outcomes :
       /\ kcf' = o.kcf /\ io' = o.io
       /\ call' = Returned(op, o.ret)
       /\ acked' = AckedBy(ack, o)
  /\ UNCHANGED skipLeft

StartReading ==
  /\ MayEndRecord
  /\ Return("start_reading", KCF_start_reading(kcf, io),
            IF kcf.ParserState = "WRITE_ADDED_DATA" THEN "all" ELSE "none")

StartWriting ==
  MayStartWriting /\ Return("start_writing", KCF_start_writing(kcf, io), "none")

InitArchive ==
  /\ MayStartWriting /\ MayBeginRecord /\ Room(1)
  /\ \E p \in Payloads : Return("init_archive", KCF_init_archive(kcf, io, p), "all")

FindMarker == Return("find_marker", KCF_find_marker(kcf, io), "none")

WriteMarker == Return("write_marker", KCF_write_marker(kcf, io), "none")

ReadRecord == Return("read_record", KCF_read_record(kcf, io), "none")

ReadAddedData ==
  \E n \in 0..MaxChunk : Return("read_added_data", KCF_read_added_data(kcf, io, n), "none")

WriteRecord ==
  /\ MayBeginRecord /\ Room(1)
  /\ \E r \in NewRecords :
       Return("write_record", KCF_write_record(kcf, io, r), IF r.hasSize THEN "before" ELSE "all")

(* The size in the record is replaced, whatever it is.                      *)
WriteRecordWithAddedData ==
  /\ MayBeginRecord
  /\ \E r \in NewRecords, x \in Chunks :
       /\ r.AddedSize = 0 /\ Room(1 + Len(x))
       /\ Return("write_record_with_added_data",
                 KCF_write_record_with_added_data(kcf, io, r, x), "all")

WriteAddedData ==
  \E x \in Chunks :
    /\ Room(Len(x)) /\ kcf.ReadOrWritten + Len(x) <= MaxLen
    /\ Return("write_added_data", KCF_write_added_data(kcf, io, x), "none")

FinishAddedData ==
  MayEndRecord /\ Return("finish_added_data", KCF_finish_added_data(kcf, io), "all")

FileCall == Return("file_call", FileCallRefused(kcf, io), "none")

SkipFile == Return("skip_file", KCF_skip_file(kcf, io), "none")

(***************************************************************************)
(* KCF_skip_record, a step for each turn of the loop of IO_skip.            *)
(***************************************************************************)
(* IO_skip returns ret, which nothing but its declaration assigns.          *)
IO_skip_ret == 0

SkipDone(k, s) ==
  /\ io' = s /\ skipLeft' = -1
  /\ IF IO_skip_ret = 0
     THEN kcf' = k /\ call' = Returned("skip_record", "READ")
     ELSE /\ kcf' = [k EXCEPT !.ParserState = "READ_RECORD_HEADER"]
          /\ call' = Returned("skip_record", "OK")

SkipBegins(k, s, n) ==
  /\ kcf' = k /\ io' = s /\ skipLeft' = n
  /\ UNCHANGED call

SkipReturns(k, s, e) ==
  /\ kcf' = k /\ io' = s /\ call' = Returned("skip_record", e)
  /\ UNCHANGED skipLeft

(* A size that underflows is negative as an int64_t: the loop asks for as   *)
(* many bytes once, which past the end gives none and elsewhere overruns    *)
(* the buffer.                                                              *)
SkipFromHeader(hd) ==
  \/ hd.ret # "OK" /\ SkipReturns(hd.kcf, hd.io, hd.ret)
  \/ hd.ret = "OK" /\ SkipBegins(hd.kcf, hd.io, hd.header.AddedSize)
  \/ hd.ret = "OK" /\ hd.underflows /\ ~AtEnd(io) /\ SkipReturns(hd.kcf, hd.io, "CRASHED")

KCF_skip_record ==
  /\ MayCall
  /\ \/ /\ kcf.ParserState = "READ_RECORD_HEADER"
        /\ \E hd \in read_record_header(kcf, io) : SkipFromHeader(hd)
     \/ /\ kcf.ParserState = "READ_ADDED_DATA"
        /\ SkipBegins(kcf, io, kcf.AvailableOrToBeWritten)
     \/ /\ kcf.ParserState \notin {"READ_RECORD_HEADER", "READ_ADDED_DATA"}
        /\ SkipReturns(kcf, io, "INVALID_STATE")
  /\ UNCHANGED acked

(* Mutant: what has been read is not taken off what remains.                *)
SkipStepWithoutCount ==
  /\ ~Idle
  /\ LET n == AtMost(AtMost(SkipBuffer, skipLeft), Remainder(io))
         past == Ahead(io, n)
     IN  \/ skipLeft > 0 /\ kcf' = kcf /\ io' = past /\ skipLeft' = skipLeft /\ call' = call
         \/ skipLeft = 0 /\ SkipDone(kcf, past)
  /\ UNCHANGED acked

SkipStep ==
  /\ ~Idle
  /\ \/ \E n \in Yield(io, AtMost(SkipBuffer, skipLeft)) :
          \/ /\ skipLeft - n > 0
             /\ kcf' = kcf /\ io' = Ahead(io, n) /\ skipLeft' = skipLeft - n /\ call' = call
          \/ skipLeft - n <= 0 /\ SkipDone(kcf, Ahead(io, n))
     \/ "read" \in Faults /\ SkipDone(kcf, io)
  /\ UNCHANGED acked

(***************************************************************************)
(* KCF_close, which frees the handle and nothing more, and KCF_create on    *)
(* the same file opened again: how a caller goes on after a failure.        *)
(***************************************************************************)
Created == [op |-> "create", ret |-> "OK", handle |-> "sound"]

Reopen ==
  /\ Idle
  /\ \/ "abandon" \in Habits \/ kcf.ParserState # "WRITE_ADDED_DATA"
     \/ call.ret \in Failures \cup {"CRASHED"}
  /\ kcf' = NewHandle /\ io' = Seek(io, 0)
  /\ call' = Created
  /\ UNCHANGED <<skipLeft, acked>>

Init ==
  /\ kcf = NewHandle
  /\ io \in [cells : InitialStreams, pos : {0}, within : {FALSE},
             writable : {TRUE} \cup When("readonly" \in Faults, {FALSE})]
  /\ skipLeft = -1
  /\ call = Created
  /\ acked = 0

Next ==
  \/ StartReading \/ StartWriting \/ InitArchive
  \/ FindMarker \/ ReadRecord \/ ReadAddedData \/ KCF_skip_record \/ SkipStep
  \/ WriteMarker \/ WriteRecord \/ WriteRecordWithAddedData
  \/ WriteAddedData \/ FinishAddedData
  \/ FileCall \/ SkipFile
  \/ Reopen

Spec == Init /\ [][Next]_vars

(* A skip that has begun is a loop of the library: it is not left alone.    *)
FairSpec == Spec /\ WF_vars(SkipStep)

(***************************************************************************)
(* Properties.                                                              *)
(***************************************************************************)
(* The fields of the handle and of the stream keep their types; neither the *)
(* position nor the place kept for backpatching passes the end of the       *)
(* stream, so that no write leaves a hole in it, whatever fails.            *)
TypeOK ==
  /\ kcf \in Handles
  /\ io \in Streams
  /\ io.pos <= Len(io.cells) /\ (io.within => ~AtEnd(io)) /\ kcf.RecordOffset <= Len(io.cells)
  /\ skipLeft \in Nat \cup {-1}
  /\ call \in Calls
  /\ acked \in Nat

(* Cells that precede the record being written.                             *)
Settled ==
  IF kcf.ParserState = "WRITE_ADDED_DATA" THEN kcf.RecordOffset ELSE Len(io.cells)

(* The archive is a sequence of whole records, up to the record whose added *)
(* data KCF_write_added_data is still writing (write.h, spec.md): none of   *)
(* the ways in which a record can end (finish, the next record, a switch to *)
(* reading) leaves a header that disagrees with what follows it.            *)
ArchiveWellFormed == CompleteRecords(io.cells, Settled)

(* What the handle remembers about the record being written is what is in   *)
(* the stream: its header at RecordOffset, as many bytes after it as are    *)
(* counted, and the CRC of exactly those bytes; and between records nothing *)
(* of the previous record is left in the counters.                          *)
WriterInSync ==
  /\ kcf.ParserState = "WRITE_ADDED_DATA" =>
       LET at == kcf.RecordOffset + 1
       IN  /\ at \in 1..io.pos /\ AtEnd(io)
           /\ io.cells[at] = rec_to_buffer(kcf.LastRecord)
           /\ kcf.LastRecord.hasSize
           /\ kcf.LastRecord.hasCRC = kcf.HasAddedDataCRC32
           /\ kcf.AvailableOrToBeWritten = kcf.LastRecord.AddedSize
           /\ kcf.ReadOrWritten = io.pos - at
           /\ \A j \in (at + 1)..io.pos : io.cells[j] \in Bytes
           /\ kcf.AddedDataCRC32 =
                IF kcf.HasAddedDataCRC32 THEN SubSeq(io.cells, at + 1, io.pos) ELSE <<>>
           /\ kcf.AvailableOrToBeWritten > 0 => kcf.ReadOrWritten <= kcf.AvailableOrToBeWritten
  /\ kcf.ParserState = "WRITE_RECORD" =>
       AtEnd(io) /\ kcf.ReadOrWritten = 0 /\ kcf.AddedDataCRC32 = <<>>

KCF_is_added_data_available(k) == k.AvailableOrToBeWritten > 0

(* A reader that has met no error stands at a header or at the end when it  *)
(* expects a header, and inside the data of the record it read when it      *)
(* expects data, with the rest of it to come and the CRC of what it got;    *)
(* added data is reported available only there.                             *)
ReaderInSync ==
  Idle /\ call.handle = "sound" =>
    /\ kcf.ParserState = "READ_RECORD_HEADER" =>
         /\ AtEnd(io) \/ AtRecord(io)
         /\ ~KCF_is_added_data_available(kcf)
    /\ kcf.ParserState = "READ_ADDED_DATA" =>
         LET at == io.pos - kcf.ReadOrWritten
         IN  /\ ~io.within /\ at \in 1..io.pos /\ StartsRecord(io.cells[at])
             /\ DataLen(io.cells[at]) = kcf.ReadOrWritten + kcf.AvailableOrToBeWritten
             /\ kcf.ActualAddedDataCRC32 = SubSeq(io.cells, at + 1, io.pos)

(* What is left of a skip, on a handle on which no call has failed, ends    *)
(* where the record does, from wherever in it and in turns of whatever      *)
(* length: the loop never asks for bytes that are not there, although       *)
(* nothing in it tests for the end (read.c:142).                            *)
SkipOnTrack ==
  ~Idle /\ call.handle = "sound" =>
    LET end == io.pos + skipLeft
    IN  /\ ~io.within
        /\ end <= Len(io.cells) /\ (end = Len(io.cells) \/ StartsRecord(io.cells[end + 1]))

(* Whoever reads all the added data of a record has computed the checksum   *)
(* that the record announced, so a caller that compares the two, as         *)
(* KCF_extract does not, never rejects an archive this library wrote.       *)
ChecksumsAgree ==
  kcf.ParserState = "READ_RECORD_HEADER" /\ Idle /\ call.ret = "OK" /\ call.handle = "sound"
    /\ kcf.ReadOrWritten > 0 /\ kcf.AddedDataCRC32 # <<>>
  => kcf.ActualAddedDataCRC32 = kcf.AddedDataCRC32

(* Records that the caller was told are complete are never changed.         *)
AckedRecordsIntact ==
  [][\A i \in 1..acked : i <= Len(io'.cells) /\ io'.cells[i] = io.cells[i]]_vars

(* ... and they are complete.                                               *)
AckedRecordsComplete == CompleteRecords(io.cells, acked)

(* So long as no call has failed, the archive that is being written is one  *)
(* of whole records.                                                        *)
WholeUntilFailure ==
  call.handle = "sound" /\ kcf.ParserState \in {"WRITE_RECORD", "WRITE_ADDED_DATA"}
  => ArchiveWellFormed

(* A call of KCF_skip_record returns, if no call on the handle has failed   *)
(* before: to skip again after the failure that it reports when all went    *)
(* well may be to wait at the end of the archive for ever.                  *)
SkipTerminates == ~Idle /\ call.handle = "sound" ~> Idle

(* Once the body of a record could not be read, or a skip has failed, no    *)
(* call brings the handle back to records: it can only be closed.           *)
FailedReadIsFinal ==
  [][Idle /\ kcf.ParserState = "READ_RECORD_DATA" /\ call'.op # "create"
     => kcf'.ParserState = "READ_RECORD_DATA"]_vars

(* A call that refuses because of the state has changed nothing, neither    *)
(* the handle nor the stream, and may be followed by the right one.  Two    *)
(* operations are no such calls: the switch to writing, which stays in      *)
(* WRITE_MARKER, and KCF_skip_file, which has read a record by then.        *)
RefusedCallsChangeNothing ==
  [][Idle /\ Idle' /\ call'.ret = "INVALID_STATE"
       /\ call'.op \notin {"start_writing", "init_archive", "skip_file"}
     => UNCHANGED <<kcf, io>>]_vars

(* What the headers say of the library, and the code does not do.           *)

(* archive.h:35-38: on a stream that can be written, a new handle can       *)
(* initialize an archive.                                                   *)
InitArchiveWorks ==
  [][kcf.ParserState = "NEUTRAL" /\ call'.op = "init_archive" /\ io.writable
     => call'.ret = "OK"]_vars

(* read.h:24-29: a skip over data that is there goes to the next record.    *)
SkipGoesToNextRecord ==
  [][skipLeft > 0 /\ Idle' => call'.ret = "OK" /\ kcf'.ParserState = "READ_RECORD_HEADER"]_vars

=============================================================================
