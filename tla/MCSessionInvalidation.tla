------------------------ MODULE MCSessionInvalidation ------------------------
EXTENDS SessionInvalidation, TLC

Symmetry == Permutations(Sessions) \cup Permutations(Workers)
=============================================================================
