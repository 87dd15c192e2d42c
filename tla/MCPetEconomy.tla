----------------------------- MODULE MCPetEconomy -----------------------------
(***************************************************************************)
(* Instances of PetEconomy for TLC: the per-kind and per-item constants.   *)
(***************************************************************************)
EXTENDS PetEconomy

SlowAndFast == [k \in CareKinds |-> IF k \in BondKinds THEN 2 ELSE 1]
CareTwoTalkOne == [k \in Kinds |-> IF k = "talk" THEN 1 ELSE 2]
OneCareBuys == [i \in Items |-> CareCurrency]
FreeLevel == [i \in Items |-> CareXp]
=============================================================================
