--------------------------- MODULE MCUtilitySchedule ---------------------------
(***************************************************************************)
(* Instances of UtilitySchedule for TLC.                                   *)
(***************************************************************************)
EXTENDS UtilitySchedule
=============================================================================
