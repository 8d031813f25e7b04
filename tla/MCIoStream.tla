----------------------------- MODULE MCIoStream ------------------------------
(* IoStream with numbers of 3 bits for those of 32.                         *)
EXTENDS IoStream

(* An empty file and one longer than a transfer in chunks.                  *)
MCLengths == {0, 6}

(* Nothing, the most that is asked for at once, and three chunks, the last  *)
(* of them half a chunk.                                                    *)
MCSizes == {0, 3, 5}

MCOffsets == {-1, 5, 8}
===============================================================================
