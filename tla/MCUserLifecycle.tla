--------------------------- MODULE MCUserLifecycle ---------------------------
EXTENDS UserLifecycle, TLC

Symmetry == Permutations(Requests)
=============================================================================
