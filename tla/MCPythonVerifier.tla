--------------------------- MODULE MCPythonVerifier ---------------------------
(* PythonVerifier for TLC: threads and clients are interchangeable.        *)
EXTENDS PythonVerifier, TLC

Symmetry == Permutations(Requests) \cup Permutations(Clients)
=============================================================================
