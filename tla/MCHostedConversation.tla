-------------------------- MODULE MCHostedConversation --------------------------
(***************************************************************************)
(* Instances of HostedConversation for TLC.                                *)
(***************************************************************************)
EXTENDS HostedConversation
=============================================================================
