----------------------------- MODULE MCCatalog ------------------------------
EXTENDS Catalog
\* Both keys have one name: the item and its new barcode.
CONSTANTS k1, k2
MCFirstFeed == [k \in Keys |-> IF k = k1 THEN 1 ELSE Absent]
MCNameOf == [k \in Keys |-> "name"]
=============================================================================
