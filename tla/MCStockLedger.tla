---------------------------- MODULE MCStockLedger ----------------------------
(* StockLedger on small instances: symmetry and the stock to begin with. *)
EXTENDS StockLedger, TLC

SymmetricNames == Permutations(Calls) \cup Permutations(Counts)

SomeStock ==
    [l \in Locations |->
        [s \in Statuses |-> IF s = "filled" \/ (l \in Warehouses /\ s = "empty") THEN 1 ELSE 0]]
=============================================================================
