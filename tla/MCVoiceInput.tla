------------------------------ MODULE MCVoiceInput ------------------------------
(***************************************************************************)
(* Instances of VoiceInput for TLC.                                        *)
(***************************************************************************)
EXTENDS VoiceInput
=============================================================================
