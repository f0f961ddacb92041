--------------------------- MODULE MCToastClient ----------------------------
EXTENDS ToastClient
=============================================================================
