------------------------- MODULE MCRuntimeRepository -------------------------
(* Instances of RuntimeRepository small enough for TLC. *)
EXTENDS RuntimeRepository

\* Two runs of different conversations, and two of the same one.
Apart == [r \in Runs |-> NONE]
Shared == [r \in Runs |-> "main"]
=============================================================================
