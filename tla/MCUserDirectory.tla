--------------------------- MODULE MCUserDirectory ----------------------------
(* UserDirectory for TLC: two browsers are interchangeable.                *)
EXTENDS UserDirectory

Symmetry == Permutations(SignIns)
=============================================================================
