---------------------------- MODULE MCPrintQueue ----------------------------
EXTENDS PrintQueue, TLC
=============================================================================
