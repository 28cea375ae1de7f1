--------------------------- MODULE MCEffectLedger ---------------------------
(* An instance of EffectLedger small enough for TLC. *)
EXTENDS EffectLedger

Apart == [r \in Runs |-> NONE]
=============================================================================
