-------------------------- MODULE MCOpenCodePlugin --------------------------
EXTENDS OpenCodePlugin, TLC
CONSTANTS root, child
Family == root :> None @@ child :> root
Symmetry == Permutations(Projects) \cup Permutations(Instances)
=============================================================================
