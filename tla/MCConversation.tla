--------------------------- MODULE MCConversation ---------------------------
(* Finite instances of Conversation for TLC.                               *)
EXTENDS Conversation, TLC

CONSTANTS a, b, c

\* The founders are interchangeable in the instances without joiners.
Symmetry == Permutations(Client)
=============================================================================
