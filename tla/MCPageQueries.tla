--------------------------- MODULE MCPageQueries ---------------------------
EXTENDS PageQueries, TLC

Symmetry == Permutations(Principals) \cup Permutations(Searches)
=============================================================================
