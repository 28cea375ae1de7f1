----------------------------- MODULE MCDatasets -----------------------------
(* Instances of Datasets small enough for TLC. *)
EXTENDS Datasets

\* Two different tables; neither can be read as the other format.
Tables == {"csv"} \X Payloads
=============================================================================
