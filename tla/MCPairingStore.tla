--------------------------- MODULE MCPairingStore ---------------------------
(* PairingStore for TLC: processes and origins are model values, and both  *)
(* sets are symmetric.                                                     *)
EXTENDS PairingStore, TLC

Symmetry == Permutations(Hosts) \cup Permutations(Origins)
=============================================================================
