------------------------- MODULE MCApiKeyCache -------------------------
EXTENDS ApiKeyCache, TLC
Symmetry == Permutations(Keys) \cup Permutations(Requests) \cup Permutations(Workers)
=============================================================================
