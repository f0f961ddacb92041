------------------------------ MODULE MCBridge ------------------------------
EXTENDS Bridge, TLC
Symmetry == Permutations(Bridges) \cup Permutations(Threads)
=============================================================================
