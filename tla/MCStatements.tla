---------------------------- MODULE MCStatements ----------------------------
(* A small instance of Statements for TLC. *)
EXTENDS Statements, TLC

CONSTANT c1

Transfer(amount) ==
    [kind |-> "vact_transfer", number |-> c1, ref |-> c1,
     amount |-> amount, simulated |-> FALSE]

\* One unit less than the target.
NearlyAll == {Transfer(20000)}
OneTarget == {20001}

Interchangeable == Permutations(Handler) \union Permutations(Request)
=============================================================================
