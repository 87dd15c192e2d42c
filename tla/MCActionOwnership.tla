-------------------------- MODULE MCActionOwnership --------------------------
(***************************************************************************)
(* Instances of ActionOwnership for TLC.  Ids are strings so that a set of *)
(* them fixes the lane; the operation policies are chosen per run.  The    *)
(* worker slots are interchangeable: nothing orders or names them.         *)
(***************************************************************************)
EXTENDS ActionOwnership, TLC

OneTurn == [p \in {"p", "q"} |-> "turn"]

WorkerSymmetry == Permutations(Workers)
=============================================================================
