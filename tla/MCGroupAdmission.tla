-------------------------- MODULE MCGroupAdmission --------------------------
(***************************************************************************)
(* Instances of GroupAdmission for TLC.                                    *)
(***************************************************************************)
EXTENDS GroupAdmission

(* What the client sends and what befalls a link, with nothing left out.   *)
EveryKind == Kinds
EveryFault == {"unsent", "closed", "expired"}
=============================================================================
