--------------------------- MODULE MCFileInfoCodec ---------------------------
(* FileInfoCodec with fields of 6 bits for 16, and of 4 for 32.             *)
EXTENDS FileInfoCodec, TLC

CONSTANTS k1, k2, k3

MCBlocks == {k1, k2, k3}

(* No optional field, all of them with either size, and two of them.         *)
MCFlagSets ==
  {{}, {"TimeStamp", "UnpackedSize"}, Optional}

(* More than four bytes hold.                                               *)
MCUnpackedSizes == {TwoTo32 + 1}

(* Longer than the size field of a name tells: it is read as one of two     *)
(* bytes, and may then be written again.                                    *)
MCNameSizes == {TwoTo16 + 2}

BlocksAlike == Permutations(MCBlocks)
==============================================================================
