----------------------------- MODULE MCKcfHandle -----------------------------
(* Instances of KcfHandle for TLC.                                          *)
EXTENDS KcfLog

CONSTANTS b1, b2, pA, pF

MCBytes == {b1, b2}
OneByte == {b1}
OnePayload == {pF}
TwoPayloads == {pA, pF}

Record(p, size, crc, data) ==
  [payload |-> p, hasSize |-> size, hasCRC |-> crc,
   AddedSize |-> Len(data), AddedDataCRC32 |-> IF crc THEN data ELSE <<>>]

EmptyArchive == <<Marker>>

ArchiveHeader == Record(pA, FALSE, FALSE, <<>>)

(* A file that is no archive, and an archive that holds nothing yet.        *)
NewFiles == {<<>>, EmptyArchive}

(* Archives with added data: with a checksum, without, and of size zero.    *)
OldArchives ==
  {EmptyArchive \o <<ArchiveHeader, Record(pF, TRUE, TRUE, <<b1, b2>>), b1, b2>>,
   EmptyArchive \o <<Record(pF, TRUE, FALSE, <<b1>>), b1, Record(pF, TRUE, TRUE, <<b2>>), b2>>,
   EmptyArchive \o <<Record(pF, TRUE, TRUE, <<>>), ArchiveHeader>>}

(* The same with one value of a byte, and files without records.            *)
MixedFiles ==
  NewFiles \cup
  {EmptyArchive \o <<Record(pF, TRUE, TRUE, <<b1, b1>>), b1, b1>>,
   EmptyArchive \o <<Record(pF, TRUE, FALSE, <<b1>>), b1, Record(pF, TRUE, TRUE, <<b1>>), b1>>,
   EmptyArchive \o <<Record(pF, TRUE, TRUE, <<>>)>>}

OneRecord == {EmptyArchive \o <<Record(pF, TRUE, TRUE, <<b1, b2>>), b1, b2, ArchiveHeader>>}
=============================================================================
