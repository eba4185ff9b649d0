-------------------------- MODULE MCCustomerAccount --------------------------
(* CustomerAccount on small instances: the corrections, symmetry. *)
EXTENDS CustomerAccount, TLC

OneUpOrDown == {-1, 1}

SymmetricNames == Permutations(Orders) \cup Permutations(Ledgers) \cup Permutations(Calls)
=============================================================================
