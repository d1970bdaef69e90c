----------------------- MODULE MCPasswordlessInstaller -----------------------
(* PasswordlessInstaller for TLC: runs of the same installer are           *)
(* interchangeable.                                                        *)
EXTENDS PasswordlessInstaller, TLC

Symmetry == Permutations(GoRuns) \cup Permutations(Runs \ GoRuns)
=============================================================================
