------------------------- MODULE MCCustomerProfile -------------------------
(* Small instances of CustomerProfile for TLC. *)
EXTENDS CustomerProfile, TLC

CONSTANT c1

Transfer == [kind |-> "vact_transfer", number |-> c1, ref |-> c1, amount |-> 1,
             simulated |-> FALSE]

OnePayment == {Transfer}

NoTarget == {None}

Interchangeable ==
    Permutations(Handler) \union Permutations(Request) \union Permutations(Patch)
        \union Permutations(Name)
=============================================================================
