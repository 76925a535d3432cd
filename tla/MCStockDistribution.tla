------------------------ MODULE MCStockDistribution ------------------------
\* Two regions with two warehouses each; the second may have all of the shares.
\* Cabinets and requests are interchangeable.
EXTENDS StockDistribution

MCRegionOf == [w \in Warehouses |-> IF w <= 2 THEN 0 ELSE 1]
MCRegionShares == {[r \in {0, 1} |-> 0], [r \in {0, 1} |-> 2 * r]}
Symmetry == Permutations(Sellers) \cup Permutations(Requests)
=============================================================================
