------------------------------ MODULE MCFailStop ------------------------------
(* The instance of the run fail_stop meets the premises of the theorems     *)
(* about what it checks; Diligent includes GivesUp.                         *)
EXTENDS MCKcfHandle, KcfLog_proofs

ASSUME FailStopPremises == Diligent /\ NoRecord \notin Headers
===============================================================================
