----------------------------- MODULE MCGmailPolling -----------------------------
(***************************************************************************)
(* Instances of GmailPolling for TLC.                                      *)
(***************************************************************************)
EXTENDS GmailPolling
=============================================================================
