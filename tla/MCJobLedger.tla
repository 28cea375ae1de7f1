----------------------------- MODULE MCJobLedger -----------------------------
(* Instances of JobLedger small enough for TLC. *)
EXTENDS JobLedger, TLC

\* Which worker or key it is makes no difference.
Alike == Permutations(Workers) \cup Permutations(Keys)
=============================================================================
