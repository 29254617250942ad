-------------------------- MODULE MCRateLimitPause --------------------------
EXTENDS RateLimitPause, TLC

Symmetry == Permutations(Gateways)
=============================================================================
