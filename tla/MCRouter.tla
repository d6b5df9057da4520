------------------------------ MODULE MCRouter ------------------------------
EXTENDS Router, TLC
CONSTANTS p1, p2, h1, h2, m1, m2, r1, r2, r3
Symmetry == Permutations({p1, p2}) \cup Permutations({h1, h2})
               \cup Permutations({m1, m2}) \cup Permutations({r1, r2, r3})
=============================================================================
