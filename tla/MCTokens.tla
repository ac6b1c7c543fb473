------------------------------ MODULE MCTokens ------------------------------
(***************************************************************************)
(* Two tokens of two owners, two concurrent calls.                         *)
(***************************************************************************)
EXTENDS Authorization, TLC

CONSTANTS T1, T2, Alice, Bob, C1, C2

MCToken == {T1, T2}
MCOwner == {Alice, Bob}
MCCaller == {C1, C2}

Symmetry == Permutations(MCToken) \cup Permutations(MCOwner) \cup Permutations(MCCaller)
=============================================================================
