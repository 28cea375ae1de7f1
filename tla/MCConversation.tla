--------------------------- MODULE MCConversation ---------------------------
(* An instance of Conversation small enough for TLC. *)
EXTENDS Conversation, TLC

Pool == Permutations(Threads)
=============================================================================
