------------------------------- MODULE MCRate -------------------------------
(***************************************************************************)
(* Three ticks of two attempts each, and two rates that are interchanged.  *)
(***************************************************************************)
EXTENDS Rate, TLC

CONSTANTS V1, V2

MCValue == {V1, V2}

Symmetry == Permutations(MCValue)
=============================================================================
