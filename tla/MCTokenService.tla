--------------------------- MODULE MCTokenService ---------------------------
(* TokenService for TLC: slots are numbers (their order decides whose      *)
(* label is shown), cards and processes model values.                      *)
EXTENDS TokenService, TLC

Symmetry == Permutations(Hosts) \cup Permutations(Cards)
=============================================================================
