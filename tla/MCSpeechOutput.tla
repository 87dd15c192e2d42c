----------------------------- MODULE MCSpeechOutput -----------------------------
(***************************************************************************)
(* Instances of SpeechOutput for TLC.                                      *)
(***************************************************************************)
EXTENDS SpeechOutput

ThreeThenOne == [r \in 1..MaxResponses |-> IF r = 1 THEN 3 ELSE 1]
TwoThenOne == [r \in 1..MaxResponses |-> IF r = 1 THEN 2 ELSE 1]
=============================================================================
