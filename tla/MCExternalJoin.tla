--------------------------- MODULE MCExternalJoin ---------------------------
(* Finite instances of ExternalJoin for TLC.                               *)
EXTENDS ExternalJoin

CONSTANTS a, b

=============================================================================
