---------------------------- MODULE MCKloudcAuth ----------------------------
EXTENDS KloudcAuth, TLC
CONSTANTS s, End
MCSessionEnd == [t \in Staff |-> End]
Symmetric == Permutations(Threads) \cup Permutations(Fakes) \cup Permutations(Clients)
=============================================================================
