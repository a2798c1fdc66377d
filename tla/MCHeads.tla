-------------------------------- MODULE MCHeads --------------------------------
(* Two forks of a chain, for Heads. *)
EXTENDS Heads

CONSTANTS A, B

MCHash == {A, B}
=============================================================================
