-------------------------- MODULE MCServiceAccess ---------------------------
EXTENDS ServiceAccess, TLC

Symmetry == Permutations(Sessions) \cup Permutations(Workers)
=============================================================================
