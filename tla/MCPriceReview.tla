--------------------------- MODULE MCPriceReview ---------------------------
EXTENDS PriceReview
=============================================================================
