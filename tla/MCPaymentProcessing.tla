------------------------ MODULE MCPaymentProcessing ------------------------
(* Small instances of PaymentProcessing for TLC. *)
EXTENDS PaymentProcessing, TLC

CONSTANTS c1, c2

Transfer(number, ref, amount) ==
    [kind |-> "vact_transfer", number |-> number, ref |-> ref,
     amount |-> amount, simulated |-> FALSE]

Misdirected == Transfer(None, None, 1)
Unrelated == [Misdirected EXCEPT !.kind = "ignored"]
Simulation(a) == [Transfer(a, a, 1) EXCEPT !.simulated = TRUE]

\* Every way through receive(): a payment whose number and reference name the
\* accounts of two customers, so that it is for the second as long as the first
\* has none, a payment to nobody, an event of another kind, a simulated payment.
AllPaths == {Transfer(c1, c2, 2), Misdirected, Unrelated, Simulation(c1)}

\* A payment that can be credited, and one that matches no account.
ToAndAstray == {Transfer(c1, c1, 1), Misdirected}

OnePayment == {Transfer(c1, c1, 1)}
PaymentOrUnrelated == OnePayment \union {Unrelated}

NoTarget == {None}
OneTarget == {2}

Interchangeable == Permutations(Handler) \union Permutations(Request)
=============================================================================
