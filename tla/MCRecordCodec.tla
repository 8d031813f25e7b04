---------------------------- MODULE MCRecordCodec ----------------------------
(* RecordCodec with fields of 16 bits for sizes of headers and of 5 bits    *)
(* for the 32 of the size of added data.                                    *)
EXTENDS RecordCodec

(* The main data of an archive header, nearly the most that always fits,    *)
(* and the most that fits with a size of four bytes and no checksum.        *)
MCDataSizes == {2, TwoTo16 - 19, TwoTo16 - 11}

(* Unknown, and around what 31 and 32 bits hold.                            *)
MCAddedSizes == {0, TwoTo31 - 1, TwoTo31, TwoTo32 - 1, TwoTo32}

MCChunkSizes == {TwoTo31 - 1, TwoTo31 + 2}
==============================================================================
