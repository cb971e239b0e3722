--------------------------- MODULE MCBoardStream ---------------------------
EXTENDS BoardStream, TLC
CONSTANTS t1, t2, f, g, o1, o2, m1, m2
MCSymmetry == Permutations({o1, o2}) \cup Permutations({m1, m2})
=============================================================================
