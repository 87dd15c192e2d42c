------------------------ MODULE MCExternalNotifications ------------------------
(***************************************************************************)
(* Instances of ExternalNotifications for TLC.                             *)
(***************************************************************************)
EXTENDS ExternalNotifications

OneKind == [e \in Events |-> "mail"]
NormalAndImportant == [e \in Events |-> IF e = "a" THEN 2 ELSE 3]
Ahead == [e \in Events |-> IF e = "a" THEN 1 ELSE 2]
=============================================================================
