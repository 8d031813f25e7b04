--------------------------- MODULE IoStream_proofs ---------------------------
(***************************************************************************)
(* Theorems about IoStream, for all sizes of numbers and chunks.            *)
(***************************************************************************)
EXTENDS IoStream, TLAPS

Transfers ==
  [op : {"none", "read", "write"}, size : Nat, left : Nat, moved : Nat, from : Nat, fromLen : Nat]

(* The length of the file during a transfer follows from that before it.    *)
LengthKept ==
  CASE xfer.op = "read"  -> len = xfer.fromLen /\ (xfer.moved > 0 => pos <= len)
    [] xfer.op = "write" -> len = IF xfer.moved > 0 /\ xfer.fromLen < pos THEN pos ELSE xfer.fromLen
    [] OTHER             -> FALSE

(* The inductive invariant.                                                 *)
IoInv ==
  /\ TypeOK
  /\ xfer \in Transfers
  /\ ~Idle => xfer.op # "none" /\ xfer.size \in Sizes
  /\ MovedInOrder
  /\ ~Idle => LengthKept

LEMMA InitInv == Init => IoInv
<1> SUFFICES ASSUME Init PROVE IoInv
  OBVIOUS
<1>1. PICK b \in Builds : method = b[1] /\ platform = b[2]
  BY DEF Init
<1>2. <<method, platform>> \in Builds
  BY <1>1 DEF Builds
<1>3. Idle /\ xfer \in Transfers
  BY DEF Init, Idle, NoTransfer, Transfers
<1>4. pos \in Nat /\ len \in Nat /\ call.ret \in Int
  BY StreamConstantsOK DEF Init
<1>5. flags \in SUBSET {IO_FLAG_CLOSE} /\ open \in BOOLEAN /\ ferror \in BOOLEAN
  BY Zenon DEF Init
<1>6. TypeOK
  BY <1>2, <1>3, <1>4, <1>5 DEF TypeOK, Transfers
<1> QED
  BY <1>3, <1>6 DEF IoInv, MovedInOrder

LEMMA OutcomeFields ==
  ASSUME NEW m
  PROVE  Outcome(m, TRUE).moved = m /\ Outcome(m, FALSE).moved = m
BY DEF Outcome

(* What the system may do.                                                  *)
LEMMA OutcomeTypes ==
  ASSUME NEW n \in Nat, pos \in Nat, len \in Nat, NEW o \in Outcomes(n)
  PROVE  /\ o.moved \in 0..n
         /\ xfer.op = "read" /\ o.moved > 0 => pos + o.moved <= len
<1>1. Available \in Nat /\ (Available > 0 => Available = len - pos)
  BY DEF Available
<1>2. Fewer(n, Available) \in Nat /\ Fewer(n, Available) <= n /\ Fewer(n, Available) <= Available
  BY <1>1 DEF Fewer
<1>3. CASE xfer.op = "read"
  <2> DEFINE most == Fewer(n, Available)
  <2>1. o \in Reads(n)
    BY <1>3 DEF Outcomes
  <2>2. o.moved \in 0..most
    <3> HIDE DEF most
    <3>1. most \in Nat
      BY <1>2 DEF most
    <3>2. CASE method = "IO_CFILE"
      <4>1. o = Outcome(most, FALSE) \/ \E m \in {k \in 0..most : k < n} : o = Outcome(m, TRUE)
        BY <2>1, <3>2, Zenon DEF Reads, most
      <4>2. o.moved = most \/ \E m \in {k \in 0..most : k < n} : o.moved = m
        BY <4>1, OutcomeFields, Zenon
      <4> QED
        BY <3>1, <4>2
    <3>3. CASE method # "IO_CFILE"
      <4>1. \/ \E m \in {k \in 0..most : k > 0 \/ most = 0} : o = Outcome(m, FALSE)
            \/ o = Outcome(0, TRUE)
        BY <2>1, <3>3, Zenon DEF Reads, most
      <4>2. o.moved = 0 \/ \E m \in {k \in 0..most : k > 0 \/ most = 0} : o.moved = m
        BY <4>1, OutcomeFields, Zenon
      <4> QED
        BY <3>1, <4>2
    <3> QED
      BY <3>2, <3>3
  <2> QED
    BY <1>1, <1>2, <2>2
<1>4. CASE xfer.op # "read"
  <2>1. o \in Writes(n)
    BY <1>4 DEF Outcomes
  <2>2. CASE method = "IO_CFILE"
    <3>1. o = Outcome(n, FALSE) \/ \E m \in {k \in 0..n : k < n} : o = Outcome(m, TRUE)
      BY <2>1, <2>2, Zenon DEF Writes
    <3>2. o.moved = n \/ \E m \in {k \in 0..n : k < n} : o.moved = m
      BY <3>1, OutcomeFields, Zenon
    <3>3. o.moved \in 0..n
      BY <3>2
    <3> QED
      BY <1>4, <3>3
  <2>3. CASE method # "IO_CFILE"
    <3>1. \/ \E m \in {k \in 0..n : k > 0 \/ n = 0 \/ method = "IO_WIN32"} : o = Outcome(m, FALSE)
          \/ o = Outcome(0, TRUE)
      BY <2>1, <2>3, Zenon DEF Writes
    <3>2. \/ o.moved = 0
          \/ \E m \in {k \in 0..n : k > 0 \/ n = 0 \/ method = "IO_WIN32"} : o.moved = m
      BY <3>1, OutcomeFields, Zenon
    <3>3. o.moved \in 0..n
      BY <3>2
    <3> QED
      BY <1>4, <3>3
  <2> QED
    BY <2>2, <2>3
<1> QED
  BY <1>3, <1>4

LEMMA AskedType ==
  ASSUME IoInv
  PROVE  Asked \in Nat /\ Asked <= xfer.left
BY StreamConstantsOK DEF Asked, IoInv, Transfers

LEMMA BeginStep ==
  ASSUME IoInv, NEW op \in {"read", "write"}, NEW size \in Sizes, Begin(op, size)
  PROVE  IoInv'
<1>1. /\ xfer' = [op |-> op, size |-> size, left |-> size, moved |-> 0, from |-> pos,
                  fromLen |-> len]
      /\ UNCHANGED <<method, platform, flags, pos, len, ferror, open, call>>
  BY DEF Begin
<1>2. pos \in Nat /\ len \in Nat /\ size \in Nat
  BY StreamConstantsOK DEF IoInv, TypeOK
<1>3. xfer' \in Transfers /\ xfer'.op = op /\ xfer'.size = size
  BY <1>1, <1>2 DEF Transfers
<1>4. TypeOK'
  BY <1>1, <1>2 DEF IoInv, TypeOK
<1>5. MovedInOrder' /\ LengthKept'
  BY <1>1, <1>2 DEF MovedInOrder, LengthKept
<1> QED
  BY <1>3, <1>4, <1>5 DEF IoInv

(* What a turn leaves of the transfer, if it is not over.                   *)
LEMMA TurnStep ==
  ASSUME IoInv, ~Idle, NEW o \in Outcomes(Asked), Turn(o)
  PROVE  IoInv'
<1>1. /\ pos \in Nat /\ len \in Nat /\ xfer \in Transfers /\ xfer.op \in {"read", "write"}
      /\ xfer.left \in Nat /\ xfer.moved \in Nat /\ xfer.from \in Nat /\ xfer.fromLen \in Nat
      /\ xfer.size \in Sizes /\ xfer.size \in Nat
      /\ pos = xfer.from + xfer.moved /\ xfer.moved + xfer.left = xfer.size
      /\ LengthKept
  BY DEF IoInv, TypeOK, Transfers, MovedInOrder
<1>2. /\ o.moved \in Nat /\ o.moved <= xfer.left
      /\ xfer.op = "read" /\ o.moved > 0 => pos + o.moved <= len
  BY <1>1, AskedType, OutcomeTypes
<1>3. /\ pos' = pos + o.moved
      /\ len' = IF xfer.op = "write" /\ o.moved > 0 /\ len < pos' THEN pos' ELSE len
      /\ ferror' = (ferror \/ (method = "IO_CFILE" /\ o.failed))
      /\ UNCHANGED <<method, platform, flags, open>>
  BY DEF Turn, Moved
<1>4. /\ pos' \in Nat /\ len' \in Nat /\ ferror' \in BOOLEAN /\ open' \in BOOLEAN
      /\ <<method, platform>>' \in Builds /\ flags' \in SUBSET {IO_FLAG_CLOSE}
  BY <1>1, <1>2, <1>3 DEF IoInv, TypeOK
<1>5. CASE xfer' = NoTransfer /\ call'.ret \in Int
  <2>1. xfer' \in Transfers /\ Idle'
    BY <1>5 DEF NoTransfer, Transfers, Idle
  <2>2. TypeOK'
    BY <1>4, <1>5, <2>1 DEF TypeOK, Transfers
  <2> QED
    BY <2>1, <2>2 DEF IoInv, MovedInOrder
<1>6. CASE xfer' = [xfer EXCEPT !.left = @ - o.moved, !.moved = @ + o.moved] /\ call' = call
  <2>1. /\ xfer' \in Transfers /\ xfer'.op = xfer.op /\ xfer'.size = xfer.size
        /\ xfer'.left = xfer.left - o.moved /\ xfer'.moved = xfer.moved + o.moved
        /\ xfer'.from = xfer.from /\ xfer'.fromLen = xfer.fromLen
    <3> DEFINE l == xfer.left - o.moved
               m == xfer.moved + o.moved
    <3>1. l \in Nat /\ m \in Nat
      BY <1>1, <1>2
    <3>2. xfer' = [xfer EXCEPT !.left = l, !.moved = m]
      BY <1>6
    <3> HIDE DEF l, m
    <3>3. /\ xfer' \in Transfers /\ xfer'.op = xfer.op /\ xfer'.size = xfer.size
          /\ xfer'.left = l /\ xfer'.moved = m
          /\ xfer'.from = xfer.from /\ xfer'.fromLen = xfer.fromLen
      BY <1>1, <3>1, <3>2 DEF Transfers
    <3> QED
      BY <3>3 DEF l, m
  <2>2. TypeOK'
    BY <1>4, <1>6, <2>1 DEF IoInv, TypeOK, Transfers
  <2>3. MovedInOrder'
    BY <1>1, <1>2, <1>3, <2>1 DEF MovedInOrder
  <2>4. LengthKept'
    <3>1. CASE xfer.op = "read"
      BY <1>1, <1>2, <1>3, <2>1, <3>1 DEF LengthKept
    <3>2. CASE xfer.op = "write"
      <4>1. len = IF xfer.moved > 0 /\ xfer.fromLen < pos THEN pos ELSE xfer.fromLen
        BY <1>1, <3>2 DEF LengthKept
      <4>2. len' = IF o.moved > 0 /\ len < pos' THEN pos' ELSE len
        BY <1>3, <3>2
      <4>3. len' = IF xfer'.moved > 0 /\ xfer'.fromLen < pos' THEN pos' ELSE xfer'.fromLen
        BY <1>1, <1>2, <1>3, <2>1, <4>1, <4>2
      <4> QED
        BY <2>1, <3>2, <4>3 DEF LengthKept
    <3> QED
      BY <1>1, <3>1, <3>2
  <2> QED
    BY <1>1, <2>1, <2>2, <2>3, <2>4 DEF IoInv
<1>7. \/ xfer' = NoTransfer /\ call'.ret \in Int
      \/ xfer' = [xfer EXCEPT !.left = @ - o.moved, !.moved = @ + o.moved] /\ call' = call
  BY <1>1, <1>2 DEF Turn, Finish, Reported
<1> QED
  BY <1>5, <1>6, <1>7

LEMMA NumberType == ASSUME NEW p \in Nat PROVE w32_number(p) \in Int
BY StreamConstantsOK DEF w32_number

(* The calls that do not move bytes.                                        *)
LEMMA OtherStep ==
  ASSUME IoInv, Idle, xfer' = xfer, pos' \in Nat, len' = len, call'.ret \in Int,
         open' \in BOOLEAN, UNCHANGED <<method, platform, flags, ferror>>
  PROVE  IoInv'
BY DEF IoInv, TypeOK, MovedInOrder, Idle

LEMMA SeekStep == IoInv /\ IO_seek => IoInv'
<1> SUFFICES ASSUME IoInv, IO_seek PROVE IoInv'
  OBVIOUS
<1>1. PICK whence \in {"IO_SEEK_SET", "IO_SEEK_CUR", "IO_SEEK_END"}, offset \in Offsets :
        \/ /\ Base(whence) + offset \in 0..MaxLen
           /\ pos' = Base(whence) + offset
           /\ Ret("seek", offset, SeekResult(Base(whence) + offset))
        \/ pos' = pos /\ Ret("seek", offset, -1)
  BY DEF IO_seek
<1>2. pos' \in Nat
  BY <1>1, StreamConstantsOK DEF IoInv, TypeOK
<1>3. method \in Methods
  BY DEF IoInv, TypeOK, Builds
<1>4. call'.ret \in Int
  <2>1. CASE pos' = Base(whence) + offset /\ Ret("seek", offset, SeekResult(Base(whence) + offset))
    <3>1. SeekResult(pos') \in Int
      BY <1>2, <1>3, NumberType DEF SeekResult, Methods
    <3> QED
      BY <2>1, <3>1 DEF Ret
  <2>2. CASE Ret("seek", offset, -1)
    BY <2>2 DEF Ret
  <2> QED
    BY <1>1, <2>1, <2>2
<1>5. UNCHANGED <<method, platform, flags, len, ferror, xfer, open>> /\ Idle
  BY <1>1 DEF Ret, IO_seek
<1> QED
  BY <1>2, <1>4, <1>5, OtherStep DEF IoInv, TypeOK

LEMMA TellStep == IoInv /\ IO_tell => IoInv'
<1> SUFFICES ASSUME IoInv, IO_tell PROVE IoInv'
  OBVIOUS
<1>1. TellResult \in Int /\ pos \in Nat /\ open \in BOOLEAN
  BY NumberType DEF TellResult, IoInv, TypeOK
<1> QED
  BY <1>1, OtherStep DEF IO_tell, Ret

LEMMA FlushStep == IoInv /\ IO_flush => IoInv'
BY OtherStep DEF IO_flush, Ret, IoInv, TypeOK

LEMMA CloseStep == IoInv /\ IO_close => IoInv'
<1> SUFFICES ASSUME IoInv, IO_close PROVE IoInv'
  OBVIOUS
<1>1. call'.ret \in Int
  BY DEF IO_close, Ret
<1>2. open' \in BOOLEAN
  BY Zenon DEF IO_close
<1> QED
  BY <1>1, <1>2, OtherStep DEF IO_close, Ret, IoInv, TypeOK

LEMMA IoInvariant == Spec => []IoInv
<1>1. IoInv /\ [Next]_vars => IoInv'
  <2> SUFFICES ASSUME IoInv, [Next]_vars PROVE IoInv'
    OBVIOUS
  <2>1. CASE IO_read
    BY <2>1, BeginStep DEF IO_read
  <2>2. CASE IO_write
    BY <2>2, BeginStep DEF IO_write
  <2>3. CASE TurnSucceeds
    BY <2>3, TurnStep DEF TurnSucceeds
  <2>4. CASE TurnFails
    BY <2>4, TurnStep DEF TurnFails
  <2>5. CASE IO_seek
    BY <2>5, SeekStep
  <2>6. CASE IO_tell
    BY <2>6, TellStep
  <2>7. CASE IO_flush
    BY <2>7, FlushStep
  <2>8. CASE IO_close
    BY <2>8, CloseStep
  <2>9. CASE UNCHANGED vars
    BY <2>9 DEF vars, IoInv, TypeOK, MovedInOrder, LengthKept, Idle
  <2> QED
    BY <2>1, <2>2, <2>3, <2>4, <2>5, <2>6, <2>7, <2>8, <2>9 DEF Next
<1> QED
  BY <1>1, InitInv, PTL DEF Spec

(* A transfer by any backend, in one piece or in chunks, keeps the counts of *)
(* its loop natural numbers: it never moves more than it was asked to.       *)
THEOREM StreamTypeCorrect == Spec => []TypeOK
<1>1. IoInv => TypeOK
  BY DEF IoInv
<1> QED
  BY <1>1, IoInvariant, PTL

(* A transfer in chunks returns what it was asked for, an error, or, of a   *)
(* Windows handle only, less after a turn that moved nothing: the counts of *)
(* its loop add up to the size when nothing is left.                        *)
THEOREM ChunksAreWhole == Spec => ChunkedIsWhole
<1> DEFINE Short == ~Idle /\ Idle' /\ Chunked /\ call'.ret < xfer.size /\ call'.ret # -1
<1>1. ASSUME IoInv, ~Idle, NEW o \in Outcomes(Asked), Turn(o), Short
      PROVE  method = "IO_WIN32" /\ pos' = pos
  <2>1. /\ pos \in Nat /\ xfer.left \in Nat /\ xfer.moved \in Nat /\ xfer.op # "none"
        /\ xfer.moved + xfer.left = xfer.size /\ xfer \in Transfers
    BY <1>1 DEF IoInv, TypeOK, MovedInOrder
  <2>2. o.moved \in Nat
    BY <1>1, AskedType, OutcomeTypes DEF IoInv, TypeOK
  <2>3. pos' = pos + o.moved
    BY <1>1 DEF Turn, Moved
  <2>4. CASE Finish(-1)
    BY <1>1, <2>4 DEF Finish
  <2>5. CASE LoopEnds(o) /\ Finish(Reported(o))
    <3>1. call'.ret = xfer.moved + o.moved
      BY <2>5 DEF Finish, Reported
    <3>2. xfer.left # o.moved
      BY <1>1, <2>1, <2>2, <3>1
    <3> QED
      BY <1>1, <2>1, <2>3, <2>5, <3>2 DEF LoopEnds
  <2>6. CASE xfer' = [xfer EXCEPT !.left = @ - o.moved, !.moved = @ + o.moved]
    <3>1. xfer'.op = xfer.op
      BY <2>1, <2>6 DEF Transfers
    <3>2. ~Idle'
      BY <2>1, <3>1 DEF Idle, NoTransfer
    <3> QED
      BY <1>1, <3>2
  <2> QED
    BY <1>1, <2>4, <2>5, <2>6 DEF Turn
<1>2. ASSUME IoInv, [Next]_vars, Short
      PROVE  method = "IO_WIN32" /\ pos' = pos
  <2>1. ~Idle
    BY <1>2
  <2>2. CASE TurnSucceeds
    BY <1>1, <1>2, <2>1, <2>2 DEF TurnSucceeds
  <2>3. CASE TurnFails
    BY <1>1, <1>2, <2>1, <2>3 DEF TurnFails
  <2>4. CASE UNCHANGED vars
    BY <1>2, <2>4 DEF vars, Idle
  <2> QED
    BY <1>2, <2>1, <2>2, <2>3, <2>4
    DEF Next, IO_read, IO_write, Begin, IO_seek, IO_tell, IO_flush, IO_close
<1>3. IoInv /\ [Next]_vars => [Short => method = "IO_WIN32" /\ pos' = pos]_vars
  BY <1>2 DEF Short
<1> QED
  BY <1>3, IoInvariant, PTL DEF Spec, ChunkedIsWhole, Short

(***************************************************************************)
(* The loop of a transfer.                                                  *)
(***************************************************************************)
(* stdio and descriptors, asked for more than the file has: that a turn got *)
(* nothing does not end the loops of cfile.c:42-54 and fd.c:60-73.          *)
AsksForMore == method # "IO_WIN32" /\ Chunked /\ xfer.op = "read" /\ Available = 0

(* What moves nothing has failed, is at the end of the file, or is Windows. *)
LEMMA NothingMoved ==
  ASSUME NEW n \in Nat \ {0}, len \in Nat, pos \in Nat, method # "IO_WIN32",
         NEW o \in Outcomes(n), o.moved = 0
  PROVE  o.failed \/ (xfer.op = "read" /\ Available = 0)
<1>1. Available \in Nat
  BY DEF Available
<1>2. CASE xfer.op = "read"
  <2> DEFINE most == Fewer(n, Available)
  <2>1. o \in Reads(n)
    BY <1>2 DEF Outcomes
  <2>2. most \in Nat /\ (most = 0 => Available = 0)
    BY <1>1 DEF Fewer
  <2>3. \/ o = Outcome(most, FALSE) \/ \E m : o = Outcome(m, TRUE)
        \/ \E m \in {k \in 0..most : k > 0 \/ most = 0} : o = Outcome(m, FALSE)
    BY <2>1 DEF Reads
  <2> HIDE DEF most
  <2>4. CASE \E m : o = Outcome(m, TRUE)
    BY <2>4 DEF Outcome
  <2>5. CASE \/ o = Outcome(most, FALSE)
             \/ \E m \in {k \in 0..most : k > 0 \/ most = 0} : o = Outcome(m, FALSE)
    <3>1. \/ Outcome(most, FALSE).moved = 0
          \/ \E m \in 0..most : (m > 0 \/ most = 0) /\ Outcome(m, FALSE).moved = 0
      BY <2>5
    <3>2. ASSUME NEW m \in 0..most, m > 0 \/ most = 0, Outcome(m, FALSE).moved = 0
          PROVE  most = 0
      BY <3>2 DEF Outcome
    <3>3. Outcome(most, FALSE).moved = most
      BY OutcomeFields
    <3>4. most = 0
      BY <3>1, <3>2, <3>3
    <3> QED
      BY <1>2, <2>2, <3>4
  <2> QED
    BY <2>3, <2>4, <2>5
<1>3. CASE xfer.op # "read"
  <2>1. o \in Writes(n)
    BY <1>3 DEF Outcomes
  <2>2. \/ o = Outcome(n, FALSE) \/ \E m : o = Outcome(m, TRUE)
        \/ \E m \in {k \in 0..n : k > 0} : o = Outcome(m, FALSE)
    BY <2>1 DEF Writes
  <2>3. CASE \E m : o = Outcome(m, TRUE)
    BY <2>3 DEF Outcome
  <2>4. CASE o = Outcome(n, FALSE) \/ \E m \in {k \in 0..n : k > 0} : o = Outcome(m, FALSE)
    <3>1. o.moved = n \/ \E m \in {k \in 0..n : k > 0} : o.moved = m
      BY <2>4, OutcomeFields, Zenon
    <3> QED
      BY <3>1
  <2> QED
    BY <2>2, <2>3, <2>4
<1> QED
  BY <1>2, <1>3

LEMMA TurnAdvances ==
  ASSUME IoInv, ~Idle, NEW o \in Outcomes(Asked), Turn(o), ~Idle'
  PROVE  AsksForMore \/ (xfer'.left \in Nat /\ xfer'.left < xfer.left)
<1>1. /\ pos \in Nat /\ len \in Nat /\ xfer \in Transfers /\ xfer.left \in Nat
      /\ xfer.op \in {"read", "write"} /\ Asked \in Nat /\ Asked <= xfer.left
  BY AskedType DEF IoInv, TypeOK, Transfers
<1>2. o.moved \in Nat /\ o.moved <= xfer.left
  BY <1>1, OutcomeTypes
<1>3. \A ret : ~Finish(ret)
  BY DEF Finish, Idle
<1>4. /\ ~Refused(o) /\ ~LoopEnds(o)
      /\ xfer' = [xfer EXCEPT !.left = @ - o.moved, !.moved = @ + o.moved]
  BY <1>3 DEF Turn
<1>5. xfer'.left = xfer.left - o.moved
  BY <1>1, <1>4 DEF Transfers
<1>6. Chunked /\ xfer.left # o.moved /\ (method = "IO_WIN32" => o.moved # 0)
  BY <1>4 DEF LoopEnds
<1>7. xfer.left > 0 /\ Asked \in Nat \ {0}
  BY <1>1, <1>2, <1>6, StreamConstantsOK DEF Asked
<1>8. ~o.failed
  <2>1. ferror' = (ferror \/ (method = "IO_CFILE" /\ o.failed))
    BY DEF Turn, Moved
  <2> QED
    BY <1>4, <1>6, <2>1 DEF Refused
<1>9. CASE o.moved # 0
  BY <1>1, <1>2, <1>5, <1>6, <1>9
<1>10. CASE o.moved = 0
  BY <1>1, <1>6, <1>7, <1>8, <1>10, NothingMoved DEF AsksForMore
<1> QED
  BY <1>9, <1>10

(* Every turn of a transfer but the last leaves less than it found, except  *)
(* where AsksForMore holds: the measure by which TransferReturns holds for  *)
(* sizes and chunks without bound.                                          *)
THEOREM TransferAdvances ==
  Spec => [][~Idle => \/ Idle' \/ AsksForMore
                      \/ xfer'.left \in Nat /\ xfer'.left < xfer.left]_vars
<1>1. ASSUME IoInv, Next, ~Idle, ~Idle'
      PROVE  AsksForMore \/ (xfer'.left \in Nat /\ xfer'.left < xfer.left)
  <2>1. TurnSucceeds \/ TurnFails
    BY <1>1 DEF Next, IO_read, IO_write, Begin, IO_seek, IO_tell, IO_flush, IO_close
  <2> QED
    BY <1>1, <2>1, TurnAdvances DEF TurnSucceeds, TurnFails
<1>2. IoInv /\ [Next]_vars
      => [~Idle => \/ Idle' \/ AsksForMore
                   \/ xfer'.left \in Nat /\ xfer'.left < xfer.left]_vars
  BY <1>1
<1> QED
  BY <1>2, IoInvariant, PTL DEF Spec

(***************************************************************************)
(* The refinement: every call is one step of ByteStream, at its return, and *)
(* the turns of a loop before the last are none.                            *)
(***************************************************************************)
Quiet == UNCHANGED <<PosAtCall, LenAtCall, Unspoken, call>>

LEMMA BeginIsQuiet ==
  ASSUME IoInv, NEW op \in {"read", "write"}, NEW size \in Sizes, Begin(op, size)
  PROVE  Quiet
<1>1. /\ xfer'.op = op /\ xfer'.from = pos /\ xfer'.fromLen = len
      /\ UNCHANGED <<method, pos, len, call>> /\ Idle
  BY DEF Begin
<1>2. ~Idle'
  BY <1>1 DEF Idle, NoTransfer
<1> QED
  BY <1>1, <1>2 DEF Quiet, PosAtCall, LenAtCall, Unspoken

(* The last turn is the whole transfer.                                     *)
LEMMA FinishIsTransfer ==
  ASSUME IoInv, ~Idle, NEW o \in Outcomes(Asked), Turn(o), NEW ret \in {-1, Reported(o)},
         Finish(ret)
  PROVE  Abstract!Read(xfer.size) \/ Abstract!Write(xfer.size)
<1> DEFINE moved == xfer.moved + o.moved
<1>1. /\ pos \in Nat /\ len \in Nat /\ xfer \in Transfers /\ xfer.op \in {"read", "write"}
      /\ xfer.left \in Nat /\ xfer.moved \in Nat /\ xfer.from \in Nat /\ xfer.fromLen \in Nat
      /\ xfer.size \in Nat
      /\ pos = xfer.from + xfer.moved /\ xfer.moved + xfer.left = xfer.size
      /\ LengthKept
  BY DEF IoInv, TypeOK, Transfers, MovedInOrder
<1>2. /\ o.moved \in Nat /\ o.moved <= xfer.left
      /\ xfer.op = "read" /\ o.moved > 0 => pos + o.moved <= len
  BY <1>1, AskedType, OutcomeTypes
<1>3. /\ pos' = pos + o.moved
      /\ len' = IF xfer.op = "write" /\ o.moved > 0 /\ len < pos' THEN pos' ELSE len
      /\ method' = method
  BY DEF Turn, Moved
<1>4. /\ PosAtCall = xfer.from /\ LenAtCall = xfer.fromLen
      /\ PosAtCall' = pos' /\ LenAtCall' = len' /\ Unspoken' = Unspoken
  BY <1>3 DEF Finish, Idle, PosAtCall, LenAtCall, Unspoken
<1>5. moved \in 0..xfer.size /\ pos' = xfer.from + moved
  BY <1>1, <1>2, <1>3
<1>6. call' = [op |-> xfer.op, arg |-> xfer.size, ret |-> ret] /\ ret \in {moved, -1}
  BY DEF Finish, Reported
<1>7. Abstract!Returns(xfer.op, xfer.size, {moved, -1})
  BY <1>6 DEF Abstract!Returns
<1>8. CASE xfer.op = "read"
  <2>1. len' = xfer.fromLen /\ (moved > 0 => xfer.from + moved <= xfer.fromLen)
    BY <1>1, <1>2, <1>3, <1>8 DEF LengthKept
  <2> QED
    BY <1>4, <1>5, <1>7, <1>8, <2>1 DEF Abstract!Read
<1>9. CASE xfer.op = "write"
  <2>1. len = IF xfer.moved > 0 /\ xfer.fromLen < pos THEN pos ELSE xfer.fromLen
    BY <1>1, <1>9 DEF LengthKept
  <2>2. len' = IF moved > 0 /\ xfer.fromLen < pos' THEN pos' ELSE xfer.fromLen
    BY <1>1, <1>2, <1>3, <1>9, <2>1
  <2> QED
    BY <1>4, <1>5, <1>7, <1>9, <2>2 DEF Abstract!Write
<1> QED
  BY <1>1, <1>8, <1>9

LEMMA TurnIsTransferOrQuiet ==
  ASSUME IoInv, ~Idle, NEW o \in Outcomes(Asked), Turn(o)
  PROVE  Abstract!Next \/ Quiet
<1>1. CASE \E ret \in {-1, Reported(o)} : Finish(ret)
  <2>1. xfer.size \in Sizes
    BY DEF IoInv
  <2> QED
    BY <1>1, <2>1, FinishIsTransfer DEF Abstract!Next
<1>2. CASE ~\E ret \in {-1, Reported(o)} : Finish(ret)
  <2>1. /\ xfer' = [xfer EXCEPT !.left = @ - o.moved, !.moved = @ + o.moved]
        /\ UNCHANGED <<method, call>>
    BY <1>2 DEF Turn, Moved
  <2>2. xfer'.op = xfer.op /\ xfer'.from = xfer.from /\ xfer'.fromLen = xfer.fromLen
    BY <2>1 DEF IoInv, Transfers
  <2>3. ~Idle'
    BY <2>2 DEF IoInv, Idle, NoTransfer
  <2> QED
    BY <2>1, <2>2, <2>3 DEF Quiet, PosAtCall, LenAtCall, Unspoken
<1> QED
  BY <1>1, <1>2

(* Between transfers the mapping is the identity.                           *)
LEMMA IdleMapping ==
  ASSUME Idle, UNCHANGED <<method, xfer>>
  PROVE  /\ PosAtCall = pos /\ PosAtCall' = pos' /\ LenAtCall = len /\ LenAtCall' = len'
         /\ Unspoken' = Unspoken
BY DEF Idle, PosAtCall, LenAtCall, Unspoken

(* The number for a position is the position, 0, or negative if unspoken.   *)
LEMMA SpokenOrNegative ==
  ASSUME IoInv, NEW p \in Nat
  PROVE  /\ SeekResult(p) \in {0, p} \/ (p \in Unspoken /\ SeekResult(p) \in Int \ Nat)
         /\ method = "IO_WIN32" => w32_number(p) \in {p} \cup (Int \ Nat)
<1>1. method \in Methods
  BY DEF IoInv, TypeOK, Builds
<1>2. w32_number(p) = p \/ (p \in TwoTo31..(TwoTo32 - 1) /\ w32_number(p) \in Int \ Nat)
  BY StreamConstantsOK DEF w32_number
<1> QED
  BY <1>1, <1>2 DEF Methods, SeekResult, Unspoken

LEMMA SeekIsSeek == IoInv /\ IO_seek => Abstract!Next
<1> SUFFICES ASSUME IoInv, IO_seek PROVE Abstract!Next
  OBVIOUS
<1>1. PICK whence \in {"IO_SEEK_SET", "IO_SEEK_CUR", "IO_SEEK_END"}, offset \in Offsets :
        \/ /\ Base(whence) + offset \in 0..MaxLen
           /\ pos' = Base(whence) + offset
           /\ Ret("seek", offset, SeekResult(Base(whence) + offset))
        \/ pos' = pos /\ Ret("seek", offset, -1)
  BY DEF IO_seek
<1>2. /\ PosAtCall = pos /\ PosAtCall' = pos' /\ LenAtCall = len /\ LenAtCall' = len
      /\ Unspoken' = Unspoken
  BY <1>1, IdleMapping DEF IO_seek, Ret
<1>3. Base(whence) \in {0, PosAtCall, LenAtCall}
  BY <1>2 DEF Base
<1>4. CASE pos' = pos /\ Ret("seek", offset, -1)
  <2>1. Abstract!Returns("seek", offset, Abstract!Negative)
    BY <1>4 DEF Ret, Abstract!Returns, Abstract!Negative
  <2>2. Abstract!Seek(offset)
    BY <1>2, <1>3, <1>4, <2>1 DEF Abstract!Seek
  <2> QED
    BY <2>2 DEF Abstract!Next
<1>5. CASE /\ Base(whence) + offset \in 0..MaxLen
           /\ pos' = Base(whence) + offset
           /\ Ret("seek", offset, SeekResult(Base(whence) + offset))
  <2>1. pos' \in Nat /\ call' = [op |-> "seek", arg |-> offset, ret |-> SeekResult(pos')]
    BY <1>5, StreamConstantsOK DEF Ret
  <2>2. \/ SeekResult(pos') \in {0, pos'}
        \/ pos' \in Unspoken /\ SeekResult(pos') \in Int \ Nat
    BY <2>1, SpokenOrNegative
  <2>3. \/ Abstract!Returns("seek", offset, {0, pos'})
        \/ pos' \in Unspoken' /\ Abstract!Returns("seek", offset, Abstract!Negative)
    BY <1>2, <2>1, <2>2 DEF Abstract!Returns, Abstract!Negative
  <2>4. Abstract!Seek(offset)
    BY <1>2, <1>3, <1>5, <2>1, <2>3 DEF Abstract!Seek
  <2> QED
    BY <2>4 DEF Abstract!Next
<1> QED
  BY <1>1, <1>4, <1>5

LEMMA TellIsTell == IoInv /\ IO_tell => Abstract!Next
<1> SUFFICES ASSUME IoInv, IO_tell PROVE Abstract!Tell
  BY DEF Abstract!Next
<1>1. /\ PosAtCall = pos /\ PosAtCall' = pos /\ LenAtCall = len /\ LenAtCall' = len
      /\ Unspoken' = Unspoken
  BY IdleMapping DEF IO_tell, Ret
<1>2. TellResult \in {pos} \cup (Int \ Nat)
  BY SpokenOrNegative DEF TellResult, IoInv, TypeOK
<1>3. PICK ret \in {TellResult, -1} : call' = [op |-> "tell", arg |-> 0, ret |-> ret]
  BY DEF IO_tell, Ret
<1>4. Abstract!Returns("tell", 0, {PosAtCall} \cup Abstract!Negative)
  BY <1>1, <1>2, <1>3 DEF Abstract!Returns, Abstract!Negative
<1> QED
  BY <1>1, <1>4 DEF Abstract!Tell

LEMMA FlushIsFlush == IO_flush => Abstract!Next
<1> SUFFICES ASSUME IO_flush PROVE Abstract!Flush
  BY DEF Abstract!Next
<1>1. UNCHANGED <<PosAtCall, LenAtCall, Unspoken>>
  BY IdleMapping DEF IO_flush, Ret
<1>2. Abstract!Returns("flush", 0, {0, -1})
  BY DEF IO_flush, Ret, Abstract!Returns
<1> QED
  BY <1>1, <1>2 DEF Abstract!Flush

LEMMA CloseIsClose == IO_close => Abstract!Next
<1> SUFFICES ASSUME IO_close PROVE Abstract!Close
  BY DEF Abstract!Next
<1>1. UNCHANGED <<PosAtCall, LenAtCall, Unspoken>>
  BY IdleMapping DEF IO_close, Ret
<1>2. Abstract!Returns("close", 0, {0, -1})
  BY DEF IO_close, Ret, Abstract!Returns
<1> QED
  BY <1>1, <1>2 DEF Abstract!Close

LEMMA StepsRefine == IoInv /\ [Next]_vars => [Abstract!Next]_Abstract!vars
<1> SUFFICES ASSUME IoInv, [Next]_vars PROVE Abstract!Next \/ Quiet
  BY DEF Quiet, Abstract!vars
<1>1. CASE IO_read
  BY <1>1, BeginIsQuiet DEF IO_read
<1>2. CASE IO_write
  BY <1>2, BeginIsQuiet DEF IO_write
<1>3. CASE TurnSucceeds
  BY <1>3, TurnIsTransferOrQuiet DEF TurnSucceeds
<1>4. CASE TurnFails
  BY <1>4, TurnIsTransferOrQuiet DEF TurnFails
<1>5. CASE IO_seek
  BY <1>5, SeekIsSeek
<1>6. CASE IO_tell
  BY <1>6, TellIsTell
<1>7. CASE IO_flush
  BY <1>7, FlushIsFlush
<1>8. CASE IO_close
  BY <1>8, CloseIsClose
<1>9. CASE UNCHANGED vars
  BY <1>9 DEF vars, Quiet, PosAtCall, LenAtCall, Unspoken, Idle
<1> QED
  BY <1>1, <1>2, <1>3, <1>4, <1>5, <1>6, <1>7, <1>8, <1>9 DEF Next

(* Every backend, on every platform and in chunks of whatever size, is the  *)
(* stream of bytes that the rest of the library takes it for.               *)
THEOREM BackendsImplementStream == Spec => ImplementsByteStream
<1>1. Init => Abstract!Init
  <2> SUFFICES ASSUME Init PROVE Abstract!Init
    OBVIOUS
  <2>1. PosAtCall = 0 /\ LenAtCall \in Lengths
    BY DEF Init, Idle, PosAtCall, LenAtCall
  <2>2. Unspoken \subseteq Nat
    BY StreamConstantsOK DEF Unspoken
  <2> QED
    BY <2>1, <2>2 DEF Init, Abstract!Init
<1> QED
  BY <1>1, StepsRefine, IoInvariant, PTL DEF Spec, ImplementsByteStream, Abstract!Spec
===============================================================================
