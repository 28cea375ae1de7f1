--------------------------- MODULE MCControlWorker ---------------------------
(* Instances of ControlWorker small enough for TLC. *)
EXTENDS ControlWorker, TLC

Crew == Permutations(Workers)
=============================================================================
