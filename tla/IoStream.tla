------------------------------- MODULE IoStream -------------------------------
(***************************************************************************)
(* An IO stream (io/io.c) and its three backends: stdio (io/cfile.c), file  *)
(* descriptors (io/fd.c) and Windows handles (io/win32.c).  A transfer that *)
(* is larger than a build can ask the system for is a loop over chunks, one *)
(* step per turn here.  Bytes are numbered: only how many are moved, and    *)
(* from where, matters.                                                     *)
(***************************************************************************)
EXTENDS Integers

CONSTANTS
  TwoTo31, TwoTo32,  \* limits of 32-bit numbers
  CHUNK_SIZE,        \* bytes moved by one turn of a loop
  Lengths,           \* what the length of the file may be at first
  Sizes,             \* numbers of bytes asked for
  Offsets,           \* distances to seek
  MaxLen             \* bound on positions

ASSUME StreamConstantsOK ==
  /\ TwoTo31 \in Nat /\ TwoTo32 \in Nat /\ 0 < TwoTo31 /\ TwoTo31 < TwoTo32
  /\ CHUNK_SIZE \in Nat \ {0} /\ CHUNK_SIZE < TwoTo31
  /\ Lengths \subseteq Nat /\ Sizes \subseteq Nat /\ Offsets \subseteq Int /\ MaxLen \in Nat

VARIABLES
  method,    \* the backend
  platform,  \* what the library was built for
  flags,     \* whether the stream closes its file
  pos, len,  \* position in the file and length of the file
  ferror,    \* the error indicator of a FILE
  open,      \* whether the stream and its file are open
  xfer,      \* the transfer in progress
  call       \* the last call and what it returned

vars == <<method, platform, flags, pos, len, ferror, open, xfer, call>>

IO_FLAG_CLOSE == "IO_FLAG_CLOSE"

Methods == {"IO_CFILE", "IO_POSIX", "IO_WIN32"}
Platforms == {"posix64", "posix32", "windows64", "windows32"}

Windows == {"windows64", "windows32"}

(* A program cannot have a Windows handle elsewhere: IO_create_handle       *)
(* returns NULL.                                                            *)
Builds == {b \in Methods \X Platforms : b[1] = "IO_WIN32" => b[2] \in Windows}

(* Builds that cannot ask for more than INT32_MAX bytes at once: where      *)
(* size_t has four bytes, and where the system takes an int or a DWORD.     *)
Narrow ==
  CASE method = "IO_CFILE" -> platform \in {"posix32", "windows32"}
    [] method = "IO_POSIX" -> platform # "posix64"
    [] method = "IO_WIN32" -> TRUE

NoTransfer == [op |-> "none", size |-> 0, left |-> 0, moved |-> 0, from |-> 0, fromLen |-> 0]

Idle == xfer = NoTransfer

INT32_MAX == TwoTo31 - 1

Chunked == Narrow /\ xfer.size > INT32_MAX

(***************************************************************************)
(* What the system does when it is asked for n bytes.                       *)
(***************************************************************************)
Outcome(moved, failed) == [moved |-> moved, failed |-> failed]

Available == IF pos < len THEN len - pos ELSE 0

Fewer(a, b) == IF a < b THEN a ELSE b

(* fread goes on until it has all, the end or an error; read and ReadFile   *)
(* give what there is, or part of it, and nothing only at the end.          *)
Reads(n) ==
  LET most == Fewer(n, Available)
  IN  IF method = "IO_CFILE"
      THEN {Outcome(most, FALSE)} \cup {Outcome(m, TRUE) : m \in {k \in 0..most : k < n}}
      ELSE {Outcome(m, FALSE) : m \in {k \in 0..most : k > 0 \/ most = 0}} \cup {Outcome(0, TRUE)}

(* fwrite writes all or meets an error; write and WriteFile may write less. *)
(* WriteFile may write nothing.                                             *)
Writes(n) ==
  IF method = "IO_CFILE"
  THEN {Outcome(n, FALSE)} \cup {Outcome(m, TRUE) : m \in {k \in 0..n : k < n}}
  ELSE {Outcome(m, FALSE) : m \in {k \in 0..n : k > 0 \/ n = 0 \/ method = "IO_WIN32"}}
       \cup {Outcome(0, TRUE)}

Outcomes(n) == IF xfer.op = "read" THEN Reads(n) ELSE Writes(n)

(***************************************************************************)
(* IO_read and IO_write.                                                    *)
(***************************************************************************)
Begin(op, size) ==
  /\ open /\ Idle
  /\ op = "write" => pos + size <= MaxLen
  /\ xfer' = [op |-> op, size |-> size, left |-> size, moved |-> 0, from |-> pos, fromLen |-> len]
  /\ UNCHANGED <<method, platform, flags, pos, len, ferror, open, call>>

IO_read == \E size \in Sizes : Begin("read", size)
IO_write == \E size \in Sizes : Begin("write", size)

(* Mutant: a chunk is not cut to what is left.                              *)
WholeChunks == IF Chunked THEN CHUNK_SIZE ELSE xfer.left

Asked == IF Chunked /\ CHUNK_SIZE < xfer.left THEN CHUNK_SIZE ELSE xfer.left

(* Whether the backend takes a call of the system for failed: stdio is      *)
(* asked only inside the loop, and says so for any earlier call as well.    *)
Refused(o) == IF method = "IO_CFILE" THEN Chunked /\ ferror' ELSE o.failed

(* Mutants: the loop ends when a chunk comes short; it ends only when       *)
(* nothing is left.                                                         *)
LoopEndsAtShort(o) == ~Chunked \/ xfer.left = o.moved \/ o.moved < Asked
LoopEndsWhenDone(o) == ~Chunked \/ xfer.left = o.moved

(* Whether the call returns after this turn, if it was not refused.         *)
LoopEnds(o) ==
  \/ ~Chunked
  \/ xfer.left = o.moved
  \/ method = "IO_WIN32" /\ o.moved = 0

Finish(ret) ==
  /\ xfer' = NoTransfer
  /\ call' = [op |-> xfer.op, arg |-> xfer.size, ret |-> ret]

(* Mutant: what earlier chunks moved is not reported.                       *)
LastMoved(o) == o.moved

Reported(o) == xfer.moved + o.moved

Moved(o) ==
  /\ pos' = pos + o.moved
  /\ len' = IF xfer.op = "write" /\ o.moved > 0 /\ len < pos' THEN pos' ELSE len
  /\ ferror' = (ferror \/ (method = "IO_CFILE" /\ o.failed))
  /\ UNCHANGED <<method, platform, flags, open>>

Turn(o) ==
  /\ Moved(o)
  /\ IF Refused(o) THEN Finish(-1)
     ELSE IF LoopEnds(o) THEN Finish(Reported(o))
     ELSE /\ xfer' = [xfer EXCEPT !.left = @ - o.moved, !.moved = @ + o.moved]
          /\ UNCHANGED call

TurnSucceeds == ~Idle /\ \E o \in Outcomes(Asked) : ~o.failed /\ Turn(o)
TurnFails    == ~Idle /\ \E o \in Outcomes(Asked) : o.failed /\ Turn(o)

(***************************************************************************)
(* IO_seek, IO_tell, IO_flush and IO_close.                                 *)
(***************************************************************************)
(* What _w32_seek makes of a position: SetFilePointer gives its halves, of  *)
(* which the low one, a LONG, is the result when the high one is zero.      *)
w32_number(p) ==
  IF p < TwoTo32 /\ p >= TwoTo31 THEN p - TwoTo32 ELSE p

Base(whence) ==
  CASE whence = "IO_SEEK_SET" -> 0 [] whence = "IO_SEEK_CUR" -> pos [] whence = "IO_SEEK_END" -> len

SeekResult(p) ==
  CASE method = "IO_CFILE" -> 0 [] method = "IO_POSIX" -> p [] method = "IO_WIN32" -> w32_number(p)

Ret(op, n, ret) ==
  /\ call' = [op |-> op, arg |-> n, ret |-> ret]
  /\ UNCHANGED <<method, platform, flags, len, ferror, xfer>>

(* Where seeking is impossible, or goes before the beginning, it fails.     *)
IO_seek ==
  /\ open /\ Idle
  /\ \E whence \in {"IO_SEEK_SET", "IO_SEEK_CUR", "IO_SEEK_END"}, offset \in Offsets :
       LET target == Base(whence) + offset
       IN  \/ /\ target \in 0..MaxLen
              /\ pos' = target /\ Ret("seek", offset, SeekResult(target))
           \/ pos' = pos /\ Ret("seek", offset, -1)
  /\ UNCHANGED open

TellResult == IF method = "IO_WIN32" THEN w32_number(pos) ELSE pos

IO_tell ==
  /\ open /\ Idle
  /\ \E ret \in {TellResult, -1} : Ret("tell", 0, ret)
  /\ UNCHANGED <<pos, open>>

(* Only stdio has anything to flush.                                        *)
IO_flush ==
  /\ open /\ Idle
  /\ \E ret \in IF method = "IO_CFILE" THEN {0, -1} ELSE {0} : Ret("flush", 0, ret)
  /\ UNCHANGED <<pos, open>>

(* The stream is freed whatever becomes of its file.                        *)
IO_close ==
  /\ open /\ Idle
  /\ open' = FALSE
  /\ \E ret \in IF flags = {IO_FLAG_CLOSE} THEN {0, -1} ELSE {0} : Ret("close", 0, ret)
  /\ UNCHANGED pos

Init ==
  /\ \E b \in Builds : method = b[1] /\ platform = b[2]
  /\ flags \in SUBSET {IO_FLAG_CLOSE}
  /\ pos = 0 /\ len \in Lengths
  /\ ferror = FALSE /\ open = TRUE
  /\ xfer = NoTransfer
  /\ call = [op |-> "create", arg |-> 0, ret |-> 0]

Next ==
  \/ IO_read \/ IO_write \/ TurnSucceeds \/ TurnFails
  \/ IO_seek \/ IO_tell \/ IO_flush \/ IO_close

Spec == Init /\ [][Next]_vars

(* The loops run in the caller's thread; the system is under no obligation  *)
(* to fail.                                                                 *)
FairSpec == Spec /\ WF_vars(TurnSucceeds)

(***************************************************************************)
(* Properties.                                                              *)
(***************************************************************************)
(* Nothing is moved that was not asked for, so no chunk reaches past the    *)
(* caller's buffer; and an error indicator is one of stdio.                 *)
TypeOK ==
  /\ <<method, platform>> \in Builds /\ flags \in SUBSET {IO_FLAG_CLOSE}
  /\ pos \in Nat /\ len \in Nat
  /\ ferror \in BOOLEAN /\ open \in BOOLEAN
  /\ xfer.left \in Nat /\ xfer.moved \in Nat /\ xfer.from \in Nat /\ xfer.fromLen \in Nat
  /\ call.ret \in Int

(* The bytes a transfer has moved so far are those between where it began   *)
(* and the position, and with what is left make up what was asked for.      *)
MovedInOrder ==
  ~Idle => pos = xfer.from + xfer.moved /\ xfer.moved + xfer.left = xfer.size

(* A transfer in chunks is there to be whole: it returns what was asked for,*)
(* or an error, or, of a Windows handle only, less because there is no more.*)
ChunkedIsWhole ==
  [][~Idle /\ Idle' /\ Chunked /\ call'.ret < xfer.size /\ call'.ret # -1
     => method = "IO_WIN32" /\ pos' = pos]_vars

(* A transfer returns, except a read in chunks that stdio or a descriptor   *)
(* has brought to the end of the file: it asks for the rest for ever.       *)
TransferReturns ==
  ~Idle ~> Idle \/ (method # "IO_WIN32" /\ Chunked /\ xfer.op = "read" /\ Available = 0)

(* To its caller a transfer happens when it returns.                        *)
PosAtCall == IF Idle THEN pos ELSE xfer.from
LenAtCall == IF Idle THEN len ELSE xfer.fromLen

(* A Windows handle has no number for positions from 2 to 4 GiB.            *)
Unspoken == IF method = "IO_WIN32" THEN TwoTo31..(TwoTo32 - 1) ELSE {}

Abstract ==
  INSTANCE ByteStream WITH pos <- PosAtCall, len <- LenAtCall, unspoken <- Unspoken

(* Whatever the backend and however many chunks it takes, a call does what  *)
(* ByteStream says, in one step at its return.                              *)
ImplementsByteStream == Abstract!Spec
===============================================================================
