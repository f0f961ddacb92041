--------------------------- MODULE MCCatalogSync ----------------------------
EXTENDS CatalogSync
CONSTANTS k1, k2
Sells(k, p) == [key |-> k, price |-> p, excluded |-> FALSE]
Hides(k, p) == [key |-> k, price |-> p, excluded |-> TRUE]
\* A stub; one item; the item repriced, listed twice, with a second one; the
\* first one moved to an excluded menu and the second one repriced.
MCFeeds ==
    {<<>>, <<Sells(k1, 1)>>, <<Sells(k1, 2), Sells(k1, 1), Sells(k2, 1)>>,
     <<Hides(k1, 2), Sells(k2, 2)>>}
=============================================================================
