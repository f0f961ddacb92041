-------------------------- MODULE MCPrintHistory --------------------------
EXTENDS PrintHistory

PriceSymmetry == Permutations(Prices)
=============================================================================
