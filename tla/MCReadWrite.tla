----------------------------- MODULE MCReadWrite -----------------------------
(* The instance of the run read_write meets the premises of the theorems    *)
(* about what it checks.                                                    *)
EXTENDS MCKcfHandle, KcfLog_proofs

ASSUME ReadWritePremises == Loggable
==============================================================================
