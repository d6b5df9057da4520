------------------------- MODULE MCConnectionDemux -------------------------
EXTENDS ConnectionDemux
CONSTANTS c1, c2, c3, c4, d1, d2
Symmetry == Permutations({c1, c2, c3, c4}) \cup Permutations({d1, d2})
=============================================================================
