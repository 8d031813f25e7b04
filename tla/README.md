# A verification of KCF

KCF is a C library and a command for an archive format: a marker, then records,
each with a header (sizes, flags, checksums, main data) and, optionally, *added
data* after it. This directory models the library in TLA+, checks the models
with TLC and proves theorems about them with TLAPS.

Contents: [the system](#the-system), [modules](#modules), [runs](#runs),
[bounds and fairness](#bounds-and-fairness), [proofs](#proofs),
[where code and documentation differ](#where-code-and-documentation-differ),
[what is not modelled](#what-is-not-modelled), [plan](#plan).

## The system

### Parts

| part | source | state | operations |
|---|---|---|---|
| archive handle and modes | `kcf/archive.c`, `kcf/kcf_impl.h`, `include/kcf/archive.h` | `struct kcf_st`: `ParserState`, two unions of counters and two of checksums that reader and writer share, `RecordOffset`, `LastRecord`, `IsWriting` | `KCF_create`, `KCF_close`, `KCF_start_reading`, `KCF_start_writing`, `KCF_init_archive` |
| record writer | `kcf/write.c` | the writing half of the handle, the position of the stream | `KCF_write_record`, `KCF_write_added_data`, `KCF_finish_added_data`, `KCF_write_record_with_added_data` |
| record reader | `kcf/read.c` | the reading half of the handle, the position | `KCF_read_record`, `KCF_read_added_data`, `KCF_skip_record`, `KCF_is_added_data_available` |
| marker | `kcf/marker.c` | a window of six bytes; the position | `KCF_find_marker`, `KCF_write_marker` |
| record codec | `kcf/record.c`, `kcf/record.h`, `kcf/bytepack.c`, `kcf/archhdr.c` | the caller's `struct KcfRecord` | `rec_fix`, `rec_to_buffer`, `rec_validate`, `rec_copy`, `rec_clear`, packing of integers; `rec_from_archive_header`, `rec_to_archive_header` |
| IO streams | `io/io.c`, `io/cfile.c`, `io/fd.c`, `io/win32.c` | position, mode, error flag of the file below | `IO_read`, `IO_write`, `IO_seek`, `IO_tell`, `IO_flush`, opening and closing |
| file layer | `kcf/insert.c`, `kcf/extract.c`, `kcf/files.c` | `PackerState`, `UnpackerState`, `CurrentFile`; structs `KcfFileInfo` that own their names | `KCF_begin_file`, `KCF_insert_file_data`, `KCF_end_file`, `KCF_extract`, `KCF_skip_file`, `KCF_get_current_file_info`; `record_to_file_info`, `file_info_to_record`, `file_info_copy`, `file_info_clear` |
| command | `cmd/kcf/main.c` | none of its own | pack, unpack, list |
| errors, CRC32C, UTF-8 | `kcf/errors.c`, `kcf/crc32c.c`, `kcf/msapi_utf8.h` | tables | |

### How they interact

Everything runs in the caller's thread. A caller makes one call on a handle and
waits for its result; the library calls the stream of the handle through the
function pointers of an `IO`, and the stream's position is the second half of
the handle's state. There are no callbacks, threads or messages. What varies is
the order of the calls, what the file holds, and which of the calls below the
library fail.

Reading and writing are modes of one handle, and share storage:
`AddedDataAlreadyRead` *is* `WrittenAddedData`, `AvailableAddedData` *is*
`AddedDataToBeWritten` (`kcf_impl.h:50-61`).

### What is hard

* **Backpatching.** The size and the checksum of added data that comes in pieces
  are known when it ends; `KCF_finish_added_data` seeks back to the header,
  writes it again and seeks to the end. A record ends in four ways: it is
  finished, the next one begins, the handle switches to reading, or it is closed
  (which does not finish it). The handle must remember exactly what the stream
  holds, and leave nothing of it for the next record.
* **Partial failure.** Every call of the library makes several calls of the
  stream and of the allocator; the result of some is not looked at
  (`write.c:25`, `:43`, `:175`).
* **Sequences of calls.** Any order of reading, skipping, writing and switching,
  in the middle of a record too, from any state. A refused call must leave alone
  the counters that the open record needs.
* **Structs used again.** A record and a `KcfFileInfo` serve one file after another;
  a header lacks optional fields, a function fails half-way, and what was there
  before stays. Copies share no names.
* **The end of the stream.** `IO_read` gives fewer bytes there, or none, and that
  is not an error; loops must end (`read.c:142`, `marker.c:21`) and headers read
  there must not be taken for records.
* **Widths.** `HeadSize` has 16 bits, an added size 32 or 64 by a flag that is
  chosen before the size is known, and differences are unsigned.

### What makes each part correct

* writer: the archive is a sequence of whole records whatever the order of calls;
  records acknowledged as complete are never changed by a later call.
* reader: it stands on record boundaries; it hands out the data that is there and
  computes the checksum that the record announces; skipping returns.
* marker: the first marker is found, none is missed, the scan ends.
* codec: a header is read back as it was written; patching does not move data.
* file layer: a file header tells what it was made from, whatever it is read into;
  its main data is exactly as long as it was computed to be; every name has one owner.
* streams: a call reports how much it did, and returns.

### How the source is read

The commit is in the middle of a change of names. `marker.c` and `read.c:224`
still use `ReaderState`, `WriterState`, `KCF_RDSTATE_x` and `KCF_WRSTATE_x`,
which no longer exist; they are read as `ParserState` and the values that took
their place. `IsWriting` exists, is tested in `marker.c` and `insert.c`, and is
assigned nowhere; it is modelled as it is, and its consequences are in the
models: `KCF_write_marker` always refuses, and so do the functions of `insert.c`.
`UnpackerState` never leaves its first value, with the same effect on `extract.c`.
In `files.c` the names of two functions are the wrong way round and kept:
`record_to_file_info` fills the record, `file_info_to_record` the struct.

## Modules

| module | models | |
|---|---|---|
| `KcfHandle` | handle, modes, reader, writer, marker, the calls of the file layer, over a stream that may fail | the core |
| `ArchiveLog` | what the writer promises: an append-only log of records | abstract |
| `FallibleLog` | the same when calls fail: what may be left of a record in progress | abstract |
| `KcfLog` | the mappings from `KcfHandle` to `ArchiveLog` and to `FallibleLog` | refinement |
| `MarkerScan` | `KCF_find_marker`, byte by byte | |
| `MarkerSearch` | what callers take `KCF_find_marker` for | abstract; `MarkerScan` maps to it |
| `RecordCodec` | headers field by field: sizes, flags, checksums, patching, reading back | |
| `Fields` | what `bytepack.c` puts at an offset, a width and a value, and reads from a buffer of some size | used by both codecs |
| `FileInfoCodec` | `files.c` and `archhdr.c`: file headers and archive headers, and who owns which block | |
| `IoStream` | a stream over its three backends: stdio, descriptors, Windows handles | |
| `ByteStream` | what the library takes a stream for | abstract; `IoStream` maps to it |
| `MCKcfHandle`, `MCMarkerScan`, `MCRecordCodec`, `MCFileInfoCodec`, `MCIoStream` | instances for TLC | |
| `MCReadWrite`, `MCFailStop` | `MCKcfHandle`, with the premises of the theorems about these runs as assumptions | TLC evaluates them |
| `KcfHandle_proofs` | theorems: types, and lemmas about each function that the next three cite | |
| `KcfCalls_proofs` | theorems about calls that are refused or fail: under any faults, and for callers that give up; what a diligent caller may rely on | |
| `KcfSync_proofs`, `KcfLog_proofs` | theorems: handle and stream agree; the refinements of `ArchiveLog` and `FallibleLog` | |
| `MarkerScan_proofs`, `RecordCodec_proofs`, `FileInfoCodec_proofs`, `IoStream_proofs` | theorems | |

**KcfHandle.** `kcf` is a record with the fields of `struct kcf_st`, the members
of a union being one field. `io` is the stream: a sequence of *cells* and the
number of cells before the position. A cell is the marker, a header (fixed
fields and main data together), a byte of added data, or what a header written
in part leaves behind (`Torn`). A cell of several bytes can be stopped inside of
(`within`): a header that cannot be read to its end leaves the stream between two of
its fields, or inside one (`BreaksOff`), and what is read from there is whatever the
bytes happen to say, ending wherever that says (`GarbageHeaders`, `HeaderEnds`). A CRC is the sequence of bytes it was computed
over, so that two are equal only when the data is.

Each function of the library is an operator of the same name from handle and
stream to the set of its possible results (handle, stream, error code), in the
order of the code: early returns, which fields are already assigned when a call
below fails, what is ignored. The actions (`WriteRecord`, `StartReading`, ...)
are the calls a caller makes. `KCF_skip_record` has a loop whose end is in
question, and is the one call that takes several steps (`SkipStep`, one per turn
of `IO_skip`); no other call begins before it returns.

Where the library uses what it should not, the process is taken to end (`CRASHED`): the
null pointer of an archive header for which there was no memory, the checksum over
2^64-1 bytes after a failed read of added data (`read.c:234`). The latter needs a
`size_t` of 64 bits; with one of 32 the failure is seen, and the model has that too.

The functions of the file layer are calls like the others: `FileCall` are the five
that refuse because of `IsWriting` or `UnpackerState` (`insert.c:13`, `:42`, `:68`,
`extract.c:23`, `:79`), `SkipFile` is `KCF_skip_file`, which reads a record, by
`KCF_read_record` and with all its failures, before it looks at its state and refuses.

Two sets describe the surroundings. `Faults` is what may fail: reads, writes,
reads and writes that fall short unnoticed, tell, seek, the seek back after a
backpatch, flush, allocation, and a stream not open for writing. A write of added data that fails may leave some
of it in the file, as one in several chunks does (`fd.c:113`); a header is shorter
than a chunk, and is written or not. `Habits` is what the caller may do: `overwrite`
(start writing elsewhere than at the end), `after_data` (start writing right
after reading added data), `underfill` (end a record before its announced size),
`implicit_end` (begin a record while one is open), `carry_on` (call again after
an error), `damaged` (start writing on a file whose records are not all whole),
`abandon` (close inside a record). A run grants the ones its question
is about. `acked` is a history variable: how many cells the caller was told are
complete records; `call.handle` says whether any call has failed on this handle
(it is `sound` until then). `Reopen` closes the handle and makes a new one on the same
file, which is how a program goes on after an error or a restart.

**ArchiveLog and KcfLog.** `ArchiveLog` has the complete records, the header
asked for and the data of the open one; its actions append whole records. Under
the mapping, the complete records are the cells before the open record, the
header is `LastRecord`, the data the cells after the header. It knows nothing of
positions, backpatching, counters or modes.

**FallibleLog** adds one action to it, `Break`: a call fails, or the file is closed with
a record open. What had been written of that record then stays at the end of the
archive and nothing is open any more: the header as it was asked for, the data it had
got and some more that was passed to it (`BreakOpen`), or of a record passed at once its
header and some of its data (`BreakAtOnce`), or nothing. Nothing that was appended before is touched. In
the mapping a record is open only while no call on the handle has failed
(`HoldsRecord`), and its header is the one in the stream: the copy in `LastRecord`
may be without its main data, when the copy found no memory and `write.c:43` did not
look (`HeaderHeld`). The backpatch of such a copy uses a null pointer (`CRASHED`).

**MarkerScan.** The window starts with zeros, slides by a byte per turn and is
compared with the marker; `EndOfStream` keeps the last byte, as the code's `c`
does. A scan that failed may be called again (`CallAgain`). `KcfHandle` takes the
scan as one step to the nearest marker; **MarkerSearch** is that step, over bytes, and
`MarkerScan` maps to it: the position moves when the call returns.

**RecordCodec.** A header is a function from the offset of a field to its width
and value, a record a struct whose `HeadSize` is kept modulo 2^16 and whose added
size is serialised modulo 2^32 or whole. The checksum of a header is what it is
computed over. The caller fills in a record, new or used before, and writes it in
one of the two ways, with any flags and any size, also one that its field is too
short for; `KCF_finish_added_data` patches. `announced` is a history variable: the size
the record was written with, by which `SizesReadBack` says exactly what is read once the
record has ended: what was written, or the announced size where the header is not
rewritten, whole in eight bytes and modulo 2^32 in four. A header and main data of 2^16
bytes or more overrun the buffer that was allocated by their truncated size; the
model ends there (`crashed`). The properties of headers are about those that fit, and
`OverrunsAtOnce` says which do not: records too long for `HeadSize`, when they are first
written, and never one that is rewritten. What the memory holds after an overrun is not
modelled.

**FileInfoCodec.** Two structs `KcfFileInfo`, the program's and the one in the handle,
one record and one archive header serve for everything, as in `main.c`. Main data is
a function from offsets to fields, with the offsets computed as the source does:
once for the size (`get_file_info_data_size`), once when writing, once when reading
by the flags read. Names and main data are blocks of a heap; an allocation succeeds
while there is a block, or fails. `source` is a history variable: what the record
was last filled from, or nothing. `rec_from_archive_header` and `strlen` of a name
that is not there use a null pointer; the model ends there (`crashed`).

**IoStream.** The backend and the platform are chosen at the beginning: 32 or 64
bits, POSIX or Windows, Windows handles on Windows only. `IO_read` and `IO_write`
begin a transfer; each *turn* is one call of the system, and a build that can
ask for at most `INT32_MAX` bytes at once (`Narrow`) makes several when there are
more (`Chunked`). What `fread`, `read`, `ReadFile` and their counterparts may do is
external (`Reads`, `Writes`): move all, move less, fail. The three differ in what
they take for a failure (`Refused`: stdio looks at `ferror`, which stays set, and
only in chunks; the others at each result) and in when their loops end
(`LoopEnds`: only the Windows loops end when nothing was moved). Bytes are
numbered by their position; contents are not modelled. `off_t` has 64 bits
everywhere, as `xmake.lua` asks for.

**ByteStream.** One step per call: a transfer moves some of the bytes asked for
and returns how many, or something negative. In the mapping a transfer happens
when it returns. Positions that the stream has no number for are a parameter of
the specification (`unspoken`): a Windows handle reports those from 2 to 4 GiB as
negative numbers, because the low half of a position is a signed `LONG`
(`win32.c:134`). `IO_tell` then looks failed, and so does a seek that has succeeded.
`ByteStream` allows this to Windows handles and to nobody else.

## Runs

All with the configuration of the same name.

| run | question | faults; habits | distinct states |
|---|---|---|---|
| `read_write` | under any mixture of reading, skipping, switching and writing, on new files and on archives, when reads and flushes fail or the file is open for reading alone: is the archive always a sequence of whole records (`ArchiveWellFormed`), does the handle remember what the stream holds (`WriterInSync`), does it implement the log (`ImplementsLog`)? Does the reader stay on record boundaries (`ReaderInSync`), compute the announced checksums (`ChecksumsAgree`), skip to the end of the record and no further (`SkipOnTrack`), return from every skip (`SkipTerminates`)? Is a handle with an unread body done for (`FailedReadIsFinal`), has a refused call changed nothing (`RefusedCallsChangeNothing`)? | read, flush, readonly; `implicit_end`, `carry_on` | 907 thousand |
| `fail_stop` | a diligent caller is one who gives up a handle after a failure, starts to write on whole records and fills what it announces. Is every record it was told is complete, complete (`AckedRecordsComplete`), and never lost (`AckedRecordsIntact`)? Does it ever write behind what an earlier handle left unfinished (`WholeUntilFailure`)? Is the file what `FallibleLog` allows (`ImplementsFallibleLog`)? Do the position and the backpatch position stay inside the stream (`TypeOK`)? | read, write, seek, flush, alloc, readonly; `abandon` | 380 thousand |
| `find_marker` | is the first marker found (`FoundIsFirst`), none missed (`NothingMissed`), does the scan end (`ScanEnds`)? Is a call one search, also when reading fails (`ImplementsSearch`)? | failing reads | 62 thousand |
| `codec` | are headers read back as written (`HeadersValidate`), with the size of the data or what its field holds of it (`SizesReadBack`), and patched in place (`BackpatchFits`)? Is a buffer overrun by records that are too long only, and at once (`OverrunsAtOnce`)? | none | 273 thousand |
| `file_info` | is a struct read from a file header what the record was made from (`InfoReadBack`), its main data filled exactly (`DataTiled`), a record filled half-way accepted as nothing (`ReadAsFilled`), and has every name one owner (`BlocksOwned`)? | allocations | 1125 thousand |
| `io_stream` | does every backend do what `ByteStream` says (`ImplementsByteStream`), never moving more than it was asked to (`TypeOK`), is a transfer in chunks whole or failed (`ChunkedIsWhole`), does it return (`TransferReturns`)? | system calls may move less and fail | 358 thousand |

They pass. Six more runs each show a property violated that the documentation
states: see [below](#where-code-and-documentation-differ).

Every property of a passing run has a *mutant*: a definition of the model changed
as a bug in the code would change it, under which TLC finds the property
violated. The mutants are operators marked as such, right before what they
replace: a checksum that goes on from record to record (`CleanedButCRC`), a chunk
not cut off at the announced size (`WholeChunk`), a size without its flag
(`WithoutSizeFlag`), a reader that does not go to the data (`ReadBodyOnly`), does
not reset its counters (`ReadRecordWithoutReset`) or resets them before it refuses
(`ReadRecordResetFirst`), a skip that does not count
(`SkipStepWithoutCount`), a position not put back (`SeekBackNever`) or put back
too far (`SeekBackPast`), a record with an announced size taken to leave nothing to
patch (`FinishedIfSized`), a header that is not looked at when its write fails
(`WriteHeaderUnchecked`), writing started from any state (`StartWritingAnyway`), a
window that slides by two (`ShiftedTwice`), a comparison that stops early
(`MatchButLast`), an end seen too early or not at all (`EndOfStreamEarly`,
`EndOfStreamIgnored`), a scan that goes on after a failure (`ReadFailsUnnoticed`), a header read with the wrong layout (`ReadWithShortSize`), a
patch that forgets the size (`PatchedChecksum`) or changes the flags
(`PatchedWithFlag`), a header size of unlimited width (`FixWide`, in both codecs), a
name looked for where the time stamp is (`InfoWithoutStamp`), eight bytes counted as
four (`ShortDataSize`), a record accepted by its type alone (`AcceptsUnchecked`), a
struct cleared but for its name (`ClearedButName`), a chunk not cut
to what is left (`WholeChunks`), a loop over chunks that ends at the first short one
(`LoopEndsAtShort`) or only when nothing is left (`LoopEndsWhenDone`), a result that
counts the last chunk alone (`LastMoved`).

What the runs do *not* claim, because it is false: with the faults `write` or
`alloc` and the habit `carry_on`, or with `short`, `tell` or `seekback` even for a
caller that stops at the first error, acknowledged records can be overwritten; and
with short writes, acknowledged records can be incomplete, because every caller
of `IO_write` tests only for a negative result. The premises of `fail_stop` are
tight: with any one of the faults `short`, `tell`, `seekback` or of the habits
`overwrite`, `after_data`, `underfill`, `implicit_end`, `carry_on`, `damaged` added
to it, TLC finds a record that the caller was told is complete and is not. `KCF_start_writing` on a stream
that is not open for writing succeeds (once the handle has read), contrary to
`archive.h:24-25`; the first record written then fails.

Two loops do not end. `SkipTerminates` is false of an archive that ends inside a
record: at the end of the stream `IO_read` returns 0, which the loop of `IO_skip`
(`read.c:142`) neither takes for an end nor can count off. The archives of
`read_write` are whole, and its property is about handles on which no call has
failed: a caller that believes the error of the first skip (`skip_record` below) and
tries again may wait at the end for ever. And a read in chunks by stdio or a descriptor
that reaches the end of the file asks for the rest for ever (`cfile.c:54`,
`fd.c:73`); `TransferReturns` names this case and says that there is no other.

## Bounds and fairness

`MaxLen` bounds the cells of a stream and, with `MaxChunk`, the data of a call;
`Room` and the guard of `WriteAddedData` apply it. Four cells, in `read_write`, are a
marker, a record with a byte and another record, or three records without
data: enough for a record to follow one that was backpatched, to be damaged
by it and to take over what it left. `fail_stop` has a fifth, for data in both records. `MaxChunk = 2` lets a piece be longer than what is left of an announced
size, and a write of a piece fail half-way. `Announced = {0, 1}` has the two meanings of an added size, unknown and
known. `MixedFiles` are a file that is empty, one with a marker only, and archives
whose records have two bytes of data, one byte twice, with and without a checksum,
and none. One value of a byte and one payload are enough where only lengths and
order matter, and a CRC of one byte differs from that of two; the theorems are
about all bytes and payloads. `SkipBuffer = 1` makes every skip of more than a byte
take several turns of the loop.

`file_info` has 6 bits in the place of 16 and 4 in that of 32: a name that is longer
than its size field tells, and a size of a file that needs eight bytes. Three blocks
are a name in each of two structs and the main data of a record, and fewer than a
program without leaks would need when one leaks. Blocks are alike, and TLC is told
so (`BlocksAlike`).

`find_marker` has every stream put together from at most three pieces, each a
prefix of the marker (the whole of it included), a zero, or another byte, and
every start in it: partial matches, markers that follow them and markers at the
end.

`codec` keeps 2^16 and has 16 and 32 in the place of 2^31 and 2^32, so that added
sizes go past both; main data is two bytes, 2^16 - 19 (nearly the longest that
fits whatever the flags) and 2^16 - 11 (which fits with four bytes of size and
overruns with more). The theorems are about all of these numbers.

`io_stream` has 4 and 8 in the place of 2^31 and 2^32 and chunks of 2 in that of
2^30, so that a transfer of 5 takes three chunks, the last of them half a chunk,
and one of 3 is the largest that is made at once. Positions up to 9 go past what 31 bits and what
32 bits hold; seeks go there without writing. The theorems are about all sizes.

Fairness is assumed of loops of the library only: `SkipStep` in `KcfHandle`, the
turns of `MarkerScan` in which reading does not fail, and the turns of `IoStream`
in which the system does not (it is under no obligation to fail), weakly. They run in the caller's thread, and nothing but
their own conditions ends them. A caller is under no obligation to call.

Deadlock is checked in all runs of `KcfHandle`: a caller can always do something,
if only close the handle. In `find_marker` the scan really ends when it has found
the marker, in `codec` when a buffer has been overrun, in `file_info` when a null pointer has been used, and in `io_stream` when
the stream has been closed.

## Proofs

| theorem | says, for every value of the constants |
|---|---|
| `KcfHandle_proofs!TypeCorrect` | `Spec => []TypeOK`: fields keep their types, and neither the position nor the place kept for backpatching passes the end of the stream, whatever fails and whatever the caller does |
| `MarkerScan_proofs!ScanCorrect` | `Spec => []ScanInv`: the window holds the last bytes read, and no marker was passed |
| `MarkerScan_proofs!FirstMarkerFound`, `NoMarkerMissed` | what the callers of `KCF_find_marker` rely on |
| `MarkerScan_proofs!ScanImplementsSearch` | `Spec => ImplementsSearch`: each call is one step of `MarkerSearch`, whatever the marker, the stream and the failures |
| `RecordCodec_proofs!CodecTypeCorrect` | records keep the widths of their fields |
| `RecordCodec_proofs!HeadersAccepted` | every header that fits its buffer is read as a valid record |
| `RecordCodec_proofs!HeadersPatchedInPlace` | a patched header ends where the first did |
| `RecordCodec_proofs!SizesKept` | the header of an ended record tells the checksum of its data and its size, or the announced one, which is no less, where it is not rewritten: whole in eight bytes, modulo 2^32 in four |
| `RecordCodec_proofs!OverrunsOnlyAtOnce` | no record that fits `HeadSize` overruns its buffer, and no header that is rewritten does |
| `IoStream_proofs!StreamTypeCorrect` | no backend moves more than it was asked to |
| `IoStream_proofs!ChunksAreWhole` | `Spec => ChunkedIsWhole`: a transfer in chunks returns the whole size, an error, or, on Windows, less because a turn moved nothing |
| `IoStream_proofs!TransferAdvances` | every turn of a transfer but the last leaves less of it, unless `AsksForMore`: stdio or descriptors, asked for more than the file has |
| `IoStream_proofs!BackendsImplementStream` | `Spec => ImplementsByteStream`: each call is one step of `ByteStream` |
| `FileInfoCodec_proofs!FileInfoTypeCorrect` | fields keep their widths; nothing read from a record of this library is `Garbage` |
| `FileInfoCodec_proofs!InfoIsReadBack`, `DataIsTiled` | file headers tell what they were made from, and fill their data exactly, for every set of optional fields and every length of the name |
| `FileInfoCodec_proofs!HalfFilledRefused`, `NamesOwned` | the two properties about failures and ownership, for every heap |
| `KcfCalls_proofs!RefusedCallsAreClean` | `Spec => RefusedCallsChangeNothing`, whatever fails and whatever the caller does |
| `KcfCalls_proofs!FailedReadStays` | `Spec => FailedReadIsFinal`, likewise |
| `KcfCalls_proofs!RecordsOutliveFailures` | `GivesUp` implies `Spec => AckedRecordsIntact`: no acknowledged record is lost, whichever reads, writes, seeks, flushes and allocations fail |
| `KcfCalls_proofs!SuccessMeansComplete` | `Diligent` implies `Spec => []AckedRecordsComplete`: whatever the file held and whichever reads, writes, seeks, flushes and allocations fail, what the caller was told is complete has the size and the checksum that its header says |
| `KcfCalls_proofs!WholeWhileSound` | `Diligent` implies `Spec => []WholeUntilFailure` |
| `KcfSync_proofs!ArchiveStaysWhole`, `WriterKeepsCount`, `ReaderKeepsPlace`, `ReaderAgreesWithWriter` | `Undisturbed` implies `Spec => []P` for `ArchiveWellFormed`, `WriterInSync`, `ReaderInSync`, `ChecksumsAgree` |
| `KcfSync_proofs!SkipKeepsTrack` | likewise for `SkipOnTrack`: what is left of a skip always ends where the record does |
| `KcfSync_proofs!SkipAdvances` | `Undisturbed` implies that every turn of a skip but the last leaves less to skip |
| `KcfSync_proofs!SkipArrives` | when no read fails either, the last turn leaves the stream before a header or at the end of the archive |
| `KcfLog_proofs!HandleImplementsLog` | `Loggable` implies `Spec => ImplementsLog`: the handle, with its modes, counters and backpatching, is an append-only log of records, when reads and flushes fail too |
| `KcfLog_proofs!HandleImplementsFallibleLog` | `Diligent` implies `Spec => ImplementsFallibleLog`: a failure, or a handle given up, leaves at most what had been written of one record at the end, and loses nothing |

Assumptions: `ConstantsOK` and `StreamsOK` (faults and habits are the ones
defined, sizes are natural numbers, marker and torn header are not bytes),
`ScanConstantsOK`, `MarkerStartsNonzero` (the marker does not begin with the byte
the window is filled with; `'K'` is not 0, and the scan would be wrong
otherwise), `CodecConstantsOK` (the limits are ordered and larger than a header
without data), `StreamConstantsOK` (the limits are ordered, a chunk is smaller than the
lower one and not empty), `FileInfoConstantsOK` (a header with every optional field and
no name fits 16 bits, `NULL` is no block). TLC evaluates them in every run.

The theorems about the writer have premises on what may fail and what callers do. They
build on one another:

| premise | says |
|---|---|
| `Steady` | a transfer is whole or reported as failed, positions are found and put back (no `short`, `tell`, `seekback`); cells of different kinds differ |
| `Harmless` | `Steady`, and neither writes nor seeks nor allocations fail; reads and flushes may, and a file may be open for reading alone |
| `Undisturbed` | `Harmless`; callers have at most the habits `implicit_end`, `carry_on` and `damaged`; the files are archives of whole records, or empty |
| `Loggable` | `Undisturbed`, and the value for "no record open" is not a header |
| `GivesUp` | no `short`, `tell`, `seekback`; the caller writes at the end, ends a record before it begins the next and calls no more after a failure (no `overwrite`, `implicit_end`, `carry_on`). It may underfill records and write on any file, so `RecordsOutliveFailures` needs less than `fail_stop` has |
| `Diligent` | `Steady` and `GivesUp`; the caller also starts to write on whole records, not right after added data, and fills what it announces (no `damaged`, `after_data`, `underfill`). The file may hold anything to begin with |

TLC evaluates them on the instances it checks: `MCReadWrite` assumes `Loggable` and
`MCFailStop` assumes `Diligent`, and a run whose instance did not meet the premise
would stop there. So each theorem about the writer speaks of the behaviours that the
run beside it goes through, on files, payloads and lengths without bound.

Each is needed: the runs `append_after_data`, `swallowed_finish` and `retried_finish`
are what happens without the habits and faults that they exclude, and what `Diligent`
excludes is needed one by one (see [runs](#runs)). `Undisturbed` and `Diligent` are two answers to the same
question: without failures that reach the writer, callers may carry on after errors and begin
a record while one is open; with such failures, they have to stop. Both refinements take
it that the value for "no record open" is not a header.

*TypeCorrect.* `TypeOK` is inductive: it says that the position is at most the
length, which is what makes writing at the position extend the stream without a
hole, and that the backpatch position, to which the stream will be set, is too.
Each operator of the library has a lemma: from a well-typed handle and stream it
yields well-typed results and never a shorter stream. That the stream never
shrinks is what keeps an old `RecordOffset` valid.

*KcfCalls.* Every call but `start_writing`, `init_archive` and `skip_file`
looks at the state before it assigns anything, in the functions it calls too; that is
one lemma per function. `READ_RECORD_DATA` is left by no call but the body of the
`KCF_read_record` that entered it. For `RecordsOutliveFailures` the invariant is
`KInv`: while no call on the handle has failed, the stream of a handle that is writing
stands at its end, and the header of an open record begins where the acknowledged cells
end, or later (`Placed`). Then a write at the position, and one on that header, leave
the acknowledged cells alone (`Kept`); after a
failure nothing is known of the position, and nothing is called but `KCF_close`.

`SuccessMeansComplete` adds `AckedRecordsComplete` itself and `Tidy` to it (`NInv`). `Tidy`
is the half of `Sync` (below) that a caller builds up alone: nothing is known of what
the file held until `KCF_start_writing` is called on whole records at its end, by a
reader that has read no added data since the last header; from then on counter, checksum
and stream agree, until a call fails or the handle is closed. A record is acknowledged
by the call that ends it, and at that moment the argument of *KcfSync* says that it is complete; from
then on `KInv` says that no call, failing or not, touches it. `CompleteRecords` speaks of
a prefix of the stream, which is why the two combine: a prefix that is complete and does
not change stays complete whatever comes behind it.

*KcfSync.* None of the first four properties is inductive. `IInv` is `TypeOK`, `Sync`, and
on a handle on which no call has failed `SoundSync`. `Sync` says what holds of a
handle and its stream whatever has happened: the cells up to `SettledAt` are whole
records; in `WRITE_ADDED_DATA` the stream stands at its end, the header at `RecordOffset`
is `LastRecord` as asked for, the counter and the checksum are those of the cells after
it; in `WRITE_RECORD` counter and checksum are clean; a handle that has not seen a marker
is as it was made. `SoundSync` places the reader: before a header or at the end, or
inside the data of the record it has read with as much to come as its header says. It
does not survive a failed call, which may leave the reader anywhere, and does not have
to: by then the states from which writing can start are out of reach, which is the
fourth conjunct. Each function has a lemma for each half, and one that says what it may
leave in the stream when it fails (`WroteSome`: a prefix of what it was to write), which
under `Harmless` is nothing.

`SkipOnTrack` is inductive together with `IInv`: a skip begins with the size that `SoundSync`
knows to be before the reader, from the header or from anywhere in the data, and a turn takes
as much off that as it moves the stream. So there is always something to read while something
is left to skip, a turn moves at least one cell, and the number of turns is
bounded by the size: `SkipAdvances` is the measure by which `SkipTerminates` holds. That
reads may fail does not matter for it, since a skip that fails is over; `SkipArrives` needs
that they do not.

*KcfLog.* The log's variables are views of handle and stream (`ArchiveOf`, `OpenOf`,
`DataOf`). By `IInv` the cells after the header of the open record are the data that
the log has. Each function then does one step of the log or leaves the views alone; that
`KCF_finish_added_data` puts into the header what `Complete` computes from the data is the
heart of it (`End`), and every other way to end a record contains it. That the runs' and
the proof's premises allow `implicit_end` matters: `Begin`, `Append1` and `AppendBare`
close the open record in the same step.

For `FallibleLog` the views are others while the handle is sound (`OnFile` for
`LastRecord`) and end with the first failure: then the archive is the file. Each function has a
lemma (`...Moves`) that its result is one step of the log from an open record (`OpenStep`) or
from none (`ShutStep`). A call that succeeds does a step of `ArchiveLog`, by the argument
above; one that fails has written a prefix of what it was to write behind the header and the data that
the log has (`BrokenMoves`), or nothing (`FailedMoves`), and both are `Break`. The failed
backpatch is the same case as closing the handle inside a record (`ReopenMoves`): the
header is not written, and the file holds the placeholders and the data.

*ScanCorrect.* `FoundIsFirst` is not inductive; `Window` is added, which says what
the six bytes are in terms of the stream, zeros before its start. A match that
used a filling zero is impossible because the marker's first byte is not zero. With that invariant the markers
ahead of the call are those ahead of the position, at every turn, and the turn that
ends the loop is the whole search; the others stutter.

*RecordCodec.* `CodecInv` adds that a header in the stream is the serialisation of
a record sized by `rec_fix` that fits, that the copy in the handle is that record
while it is open, that no more is written than was announced, and that once it has ended
the field of the size holds what it should (`Tells`). `ReadsAsWritten`
says that reading undoes serialising, in buffers of the sizes that `read.c` reads; with it
each property follows.

*FileInfoCodec.* The invariant adds that the main data of a record with a source is the
one made from it (`FileData`), checksum included, and that a name in a struct is as
long as its size. The offsets that the writer and the reader compute agree because both
are sums of the same three widths; that fields do not overlap is arithmetic about them.

*IoStream.* `IoInv` adds that the position is where the transfer began plus what
was moved (`MovedInOrder`) and that the length of the file follows from that before the
transfer (`LengthKept`). With these the last turn of a transfer is one `Read` or
`Write` of `ByteStream` from its beginning, whatever the turns before; they stutter.
`ChunksAreWhole` needs that what was moved and what is left add up to the size: a call
that reports less has something left, so its loop ended on a turn that moved nothing.
`TransferAdvances`: a turn that moves nothing has failed or is at the end of the file
(`NothingMoved`), and both end the loop on Windows, the first ends it everywhere.

Only model-checked: liveness (`SkipTerminates`, `ScanEnds`, `TransferReturns`), which
is out of the prover's reach. What makes the loops end is proved, `SkipAdvances` and
`TransferAdvances`: a natural number that each turn lowers. That the turns are taken
is the fairness of the runs; for `ScanEnds` the
measure is how much of the stream is left, which each `Slide` lowers by definition.
Every other property of a passing run is the conclusion of a theorem.

## Where code and documentation differ

| run | the code | the documentation |
|---|---|---|
| `init_archive` | `KCF_write_marker` wants `IsWriting`, which is never set: `KCF_init_archive` fails on every new handle (`marker.c:49`) | `archive.h:36-37` |
| `skip_record` | `IO_skip` returns 0 whatever it did and its caller takes 0 for failure: `KCF_skip_record` reports `READ` after skipping everything (`read.c:182`) | `read.h:23` |
| `append_after_data` | counters and checksum of the reader are taken over by the writer, through the unions, and go into the header (`write.c:39`) | `spec.md:23-24` |
| `swallowed_finish` | `KCF_write_record` ignores that the previous record could not be finished, and succeeds (`write.c:25`) | `write.h:30-31` |
| `file_type` | `file_info_to_record` reads the byte of the type into a variable that it drops, and never assigns `FileType` (`files.c:72`) | `spec.md:122`, `archive.h:54` |
| `retried_finish` | after a failed backpatch the next call finishes the record at the wrong position, succeeds, and later records overwrite complete ones (`write.c:173`) | `write.h:53-55` |

Found while reading, and in no run's property:

* a regular file is `'R'` in `archive.h:44` and `'F'` in `spec.md:124`;
* `write.h:39` sets the limit of four-byte sizes at 2^31 - 1, and says that a checksum
  flag is respected and a size flag always set; a record without data loses them all
  (`write.c:85`), in the caller's struct. `ArchiveLog!Flagged` promises what the code does, not
  what the header says: the two refinements show nothing about this difference;
* `record_to_file_info` writes the flags of an eight-byte size, and no size, when
  `HasUnpackedSize8` is set alone (`files.c:136`, `:141`); `Fill` does not do this;
* `rec_from_archive_header` does not test what `malloc` returned (`archhdr.c:35`), and
  `record_to_file_info` passes a name that is not there to `strlen` (`files.c:150`):
  `crashed` in `FileInfoCodec`;
* main data that a record had is not freed when it is filled again (`files.c:124`,
  `archhdr.c:35`), nor is a `FILE` when `IO_create_fp` finds no memory (`cfile.c:202`);
  the model's blocks stay allocated;
* `fread` and `fwrite` that fail outside of chunks give fewer bytes and nothing negative
  (`cfile.c:57`), which is all that callers test for. `IoStream` has it so;
* in code that cannot be reached, the size of every piece inserted is an uninitialised
  variable (`insert.c:53`), and the last fragment of a file is not extracted
  (`extract.c:115`).

## What is not modelled

* Of the **file layer**, what is behind its guards: `IsWriting` and `UnpackerState` are
  assigned nowhere (but in the unreachable code itself), so that no execution gets
  there. A model would need a state that the program cannot be in.
* Of the **streams**: opening a file by its name; what was written but not flushed; that
  stdio wants a seek or a flush between reading and writing (`archive.c:76`), which is
  undefined for one backend of three, and taken to work.
* That what `KcfHandle` assumes of a stream is a `ByteStream`. A call of the library is
  one step in `KcfHandle` and several of a stream, and a cell stands for a header of
  many bytes; there is no mapping of states, step by step, between the two. Both say
  the same of each operation: a transfer at the position, a prefix of it when it fails.
* The **command**: `main.c` does not compile at this commit (`HKCF`, `CreateArchive` and
  others are declared nowhere), and has no behaviour to model.
* **CRC32C**, **UTF-8** and the **error tables**: vendored, or without state. The
  sequence that stands for a CRC has no collisions.
* The **tests**, which are for an earlier interface.
* In `KcfHandle`, the value of `HeadCRC` (the library computes it and never checks
  it when reading) and main data, which is one value with the type. Both are in
  `RecordCodec` and `FileInfoCodec`.

## Plan

Done, in this order: the handle with its reader and writer, the marker, the codec, the
streams, file headers, the calls of the file layer; then the invariants of the handle
and the refinement of the log as theorems; then what callers may rely on when calls
fail, the log that may break, and the scan as one search. What is left waits for the source:

1. `FileLayer`, when `IsWriting` and `UnpackerState` are set by the modes: the packing
   and unpacking state machines over `ArchiveLog`, with the fragments of a file.
2. `PackCommand`, when `main.c` compiles: the calls it makes, which results it ignores.
3. A stream of bytes under `KcfHandle`, with `ByteStream` as its steps, so that a header
   can be written in part inside the model and not by the cell `Torn`.
