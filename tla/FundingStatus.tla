--------------------------- MODULE FundingStatus ---------------------------
(***************************************************************************)
(* The pure part of payment reconciliation: how a received amount is       *)
(* judged against the customer's target amount, the decision the audit     *)
(* trail records for that judgement, and the figures that are told of a    *)
(* balance.  Amounts are counted in the smallest unit the columns hold     *)
(* (two decimal places), so they are naturals.                             *)
(***************************************************************************)
EXTENDS Naturals

CONSTANT None           \* the absent value (Python's None)

ASSUME NoneIsNoAmount == None \notin Nat

TransactionStatus == {"full", "partial", "overpayment", "misdirected"}

\* A payment is judged alone against the whole target: what the customer
\* paid before does not count.
DeriveTransactionStatus(received, target) ==
    IF target = None
    THEN "full"
    ELSE CASE received = target               -> "full"
           [] received > target               -> "overpayment"
           [] received > 0 /\ received < target -> "partial"
           [] received = 0 /\ 0 < target      -> "misdirected"

Decision == {"credit_full", "credit_partial", "overpayment", "quarantine"}

\* Mutant: the status is noted in place of the decision.
DecisionIsStatus(status) == status

DecisionForStatus(status) ==
    CASE status = "full"        -> "credit_full"
      [] status = "partial"     -> "credit_partial"
      [] status = "overpayment" -> "overpayment"
      [] status = "misdirected" -> "quarantine"

\* What is left to pay, if there is a target.
OutstandingBalance(balance, target) ==
    IF target = None THEN None
    ELSE IF target > balance THEN target - balance ELSE 0

CustomerStatus(balance, target) ==
    IF target # None /\ 0 < balance /\ balance < target
    THEN "Underpayment" ELSE "Normal"

\* Mutant: the percentage is cut off, not rounded.
ProgressCutOff(balance, target) ==
    IF target = None \/ target = 0 THEN {}
    ELSE {p \in {(10000 * balance) \div target} : p < 10000}
         \union (IF balance < target THEN {} ELSE {10000})

\* round(percentage, 2), at most 100.0, in hundredths of a per cent.  On a tie
\* the binary float is a little above or below it: both neighbours are
\* possible.  No target, no percentage.
ProgressPercentage(balance, target) ==
    IF target = None \/ target = 0 THEN {}
    ELSE {IF p < 10000 THEN p ELSE 10000 :
             p \in {(20000 * balance + target) \div (2 * target),
                    (20000 * balance + target - 1) \div (2 * target)}}
=============================================================================
