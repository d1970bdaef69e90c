---------------------------- MODULE MCOidcClient ----------------------------
(* OidcClient for TLC: two tabs are interchangeable, and so are the logins *)
(* that no session names at the start.                                     *)
EXTENDS OidcClient, TLC

Symmetry == Permutations(Tabs) \cup Permutations(States \ {SignedInAs})
=============================================================================
