--------------------------- MODULE MCRequestGate ---------------------------
EXTENDS RequestGate, TLC

Symmetry == Permutations(Workers) \union Permutations(Nonces)
=============================================================================
