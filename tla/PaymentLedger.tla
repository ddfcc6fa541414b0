--------------------------- MODULE PaymentLedger ---------------------------
(***************************************************************************)
(* What the processing of inbound payments promises, without handlers,     *)
(* deliveries or faults:                                                   *)
(*   - a payment is entered in the ledger at most once, and its entry      *)
(*     never changes;                                                      *)
(*   - a balance only ever consists of payments entered for that customer, *)
(*     each counted at most once (which ones of them is left open: a       *)
(*     credit may be lost);                                                *)
(*   - a payment is settled, for good, only once it is entered;            *)
(*   - a merchant url is told of a payment at most once, and only of one   *)
(*     that is entered for an account.                                     *)
(***************************************************************************)
EXTENDS Sequences

CONSTANTS Request, Customer, Hook, None

VARIABLES
    ledger,     \* ledger[r]: the entry of payment r, or None
    balance,    \* balance[c][r]: times payment r counts in the balance of c
    settled,    \* payments whose processing is finished
    told        \* told[k]: payments merchant url k has heard of

ledgerVars == <<ledger, balance, settled, told>>

Init ==
    /\ ledger = [r \in Request |-> None]
    /\ balance = [c \in Customer |-> [r \in Request |-> 0]]
    /\ settled = {}
    /\ told = [k \in Hook |-> <<>>]

EnteredFor(c) == {r \in Request : ledger[r] # None /\ ledger[r].account = c}

Enter(r) ==
    /\ ledger[r] = None
    /\ ledger'[r] # None
    /\ ledger' = [ledger EXCEPT ![r] = ledger'[r]]
    /\ UNCHANGED <<balance, settled, told>>

\* The balance of c becomes a sum of payments entered for c.
Rebalance(c) ==
    /\ balance' = [balance EXCEPT ![c] = balance'[c]]
    /\ balance'[c] \in [Request -> {0, 1}]
    /\ \A r \in Request : balance'[c][r] = 1 => r \in EnteredFor(c)
    /\ UNCHANGED <<ledger, settled, told>>

Settle(r) ==
    /\ r \notin settled
    /\ ledger[r] # None
    /\ settled' = settled \union {r}
    /\ UNCHANGED <<ledger, balance, told>>

Tell(k, r) ==
    /\ \E c \in Customer : r \in EnteredFor(c)
    /\ \A i \in DOMAIN told[k] : told[k][i] # r
    /\ told' = [told EXCEPT ![k] = Append(@, r)]
    /\ UNCHANGED <<ledger, balance, settled>>

Next ==
    \/ \E r \in Request : Enter(r) \/ Settle(r)
    \/ \E c \in Customer : Rebalance(c)
    \/ \E k \in Hook, r \in Request : Tell(k, r)

Spec == Init /\ [][Next]_ledgerVars
=============================================================================
