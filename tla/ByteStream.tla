------------------------------ MODULE ByteStream ------------------------------
(***************************************************************************)
(* What kcf/ takes an IO stream for (include/io/io.h): a file of bytes with *)
(* a position.  A transfer moves some of the bytes asked for and says how   *)
(* many; with a negative result it may have moved any.  Some positions may  *)
(* be out of what the stream can say: they are taken for errors.            *)
(***************************************************************************)
EXTENDS Integers

CONSTANTS
  Lengths,  \* what the length of the file may be at first
  Sizes,    \* numbers of bytes asked for
  Offsets   \* distances to seek

VARIABLES
  pos, len,  \* position in the file and length of the file
  unspoken,  \* positions that the stream has no number for
  call       \* the last call and what it returned

vars == <<pos, len, unspoken, call>>

Negative == Int \ Nat

Returns(op, n, S) == call' \in [op : {op}, arg : {n}, ret : S]

Read(size) ==
  \E moved \in 0..size :
    /\ moved > 0 => pos + moved <= len
    /\ pos' = pos + moved
    /\ Returns("read", size, {moved, -1})
    /\ UNCHANGED <<len, unspoken>>

Write(size) ==
  \E moved \in 0..size :
    /\ pos' = pos + moved
    /\ len' = IF moved > 0 /\ len < pos' THEN pos' ELSE len
    /\ Returns("write", size, {moved, -1})
    /\ UNCHANGED unspoken

(* From the beginning, the position or the end.  A negative result means    *)
(* that the position is the old one, or the one asked for but unspoken.     *)
Seek(n) ==
  /\ \E base \in {0, pos, len} :
       \/ pos' = base + n /\ pos' >= 0 /\ Returns("seek", n, {0, pos'})
       \/ pos' = base + n /\ pos' \in unspoken /\ Returns("seek", n, Negative)
       \/ pos' = pos /\ Returns("seek", n, Negative)
  /\ UNCHANGED <<len, unspoken>>

Tell == Returns("tell", 0, {pos} \cup Negative) /\ UNCHANGED <<pos, len, unspoken>>

Flush == Returns("flush", 0, {0, -1}) /\ UNCHANGED <<pos, len, unspoken>>

Close == Returns("close", 0, {0, -1}) /\ UNCHANGED <<pos, len, unspoken>>

Init ==
  /\ pos = 0 /\ len \in Lengths
  /\ unspoken \subseteq Nat
  /\ call = [op |-> "create", arg |-> 0, ret |-> 0]

Next ==
  \/ \E size \in Sizes : Read(size) \/ Write(size)
  \/ \E n \in Offsets : Seek(n)
  \/ Tell \/ Flush \/ Close

Spec == Init /\ [][Next]_vars
===============================================================================
