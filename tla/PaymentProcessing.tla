------------------------- MODULE PaymentProcessing -------------------------
(***************************************************************************)
(* Inbound payment webhooks: NombaWebhookService.receive, the              *)
(* reconciliation it calls, and the forwarding of the payment to the       *)
(* merchant's own webhooks.                                                *)
(*                                                                         *)
(* Every handler is a coroutine of one event loop.  It may be suspended at *)
(* each database call and each POST, and each of these commits on its own: *)
(* no database transaction spans two of them.  So one action stands for    *)
(* the code from one await to the next.                                    *)
(*                                                                         *)
(* A wallet balance is kept as the number of times each payment has been   *)
(* added into it: wallet_balance is the sum of amount(r) * wallet[r].      *)
(* `+=' on the value read and the write of the whole row are then exact,   *)
(* and a payment added twice or overwritten is visible.                    *)
(*                                                                         *)
(* An operator marked `Mutant' is a plausible mistake in the operator that *)
(* follows it.  It is no part of the model; it shows which property would  *)
(* notice the mistake.                                                     *)
(***************************************************************************)
EXTENDS Sequences, FundingStatus

CONSTANTS
    Handler,        \* handler invocations in flight at one time
    Request,        \* requestId values
    Customer,       \* customers, each with its one dedicated account
    Hook,           \* rows of webhook_registrations
    MalformedHook,  \* those whose url httpx cannot parse
    Payload,        \* bodies of the webhooks that may be sent
    Target,         \* target amounts customers start with
    Name,           \* names of customers
    MaxFaults       \* bound on database errors and restarts

AccountStatus == {"active", "closed", "suspended"}

\* What receive() and process_payment() read of a webhook body.  number and
\* ref name the customer whose account has that number and reference, or will
\* have it; None stands for one that is missing or nobody's.
PayloadType ==
    [kind: {"vact_transfer", "ignored"},
     number: Customer \union {None},
     ref: Customer \union {None},
     amount: Nat,
     simulated: BOOLEAN]

CustomerRow == [wallet: [Request -> Nat], target: Nat \union {None}, name: Name]

TransactionRow ==
    [account: Customer \union {None}, status: TransactionStatus]

ASSUME PayloadAssumption ==
    /\ Payload \subseteq PayloadType
    /\ \A p \in Payload : p.simulated =>
          p.kind = "vact_transfer" /\ p.number = p.ref /\ p.amount > 0
ASSUME TargetAssumption == Target \subseteq Nat \union {None}
ASSUME MalformedAssumption == MalformedHook \subseteq Hook
ASSUME MaxFaultsAssumption == MaxFaults \in Nat
ASSUME NoneAssumption == None \notin Customer \union Request \union Payload
ASSUME RowAssumption == None \notin CustomerRow \union TransactionRow

VARIABLES
    event,          \* event[r]: body of the webhook with requestId r, once sent
    customer,       \* rows of customers: balance, target amount and name
    accountStatus,  \* status of each customer's dedicated account; None: no row
    transaction,    \* rows of transactions; nomba_request_id is unique
    suspense,       \* suspense[r]: reasons of the suspense_logs of transaction r
    audit,          \* audit[r]: decisions of the reconciliation_logs of r
    processed,      \* request_ids in processed_webhook_events
    registration,   \* rows of webhook_registrations: what each subscribes to
    posted,         \* posted[k]: payments that reached the merchant's url k
    answered,       \* requests the sender has been answered 200 for
    handler,        \* local state of each handler
    faults          \* database errors and restarts so far

tables == <<customer, accountStatus, transaction, suspense, audit, processed,
            registration>>
vars == <<event, tables, posted, answered, handler, faults>>

PC == {"idle", "check", "number", "reference", "fetch", "create", "credit",
       "suspend", "log", "emit", "post", "finish"}

HandlerState ==
    [pc: PC,
     request: Request \union {None},
     account: Customer \union {None},       \* result of _find_account
     seen: AccountStatus \union {None},     \* account.status as read
     row: CustomerRow \union {None},        \* account.customer as read
     pending: SUBSET Hook]                  \* registrations still to POST to

Idle == [pc |-> "idle", request |-> None, account |-> None, seen |-> None,
         row |-> None, pending |-> {}]

\* Every column, log and handler local holds a value of its type.
TypeOK ==
    /\ event \in [Request -> Payload \union {None}]
    /\ customer \in [Customer -> CustomerRow]
    /\ accountStatus \in [Customer -> AccountStatus \union {None}]
    /\ transaction \in [Request -> TransactionRow \union {None}]
    /\ suspense \in [Request -> Seq({"misdirected", "closed_account"})]
    /\ audit \in [Request -> Seq(Decision)]
    /\ processed \subseteq Request
    /\ registration \in [Hook -> {"absent", "payments", "other"}]
    /\ posted \in [Hook -> Seq(Request)]
    /\ answered \subseteq Request
    /\ handler \in [Handler -> HandlerState]
    /\ faults \in Nat

NothingAdded == [r \in Request |-> 0]

Init ==
    /\ event = [r \in Request |-> None]
    /\ customer \in [Customer -> [wallet: {NothingAdded}, target: Target, name: Name]]
    /\ accountStatus = [c \in Customer |-> None]
    /\ transaction = [r \in Request |-> None]
    /\ suspense = [r \in Request |-> <<>>]
    /\ audit = [r \in Request |-> <<>>]
    /\ processed = {}
    /\ registration = [k \in Hook |-> "absent"]
    /\ posted = [k \in Hook |-> <<>>]
    /\ answered = {}
    /\ handler = [h \in Handler |-> Idle]
    /\ faults = 0

-----------------------------------------------------------------------------
(***************************************************************************)
(* The outside: Nomba, the merchant, an operator of the database.          *)
(***************************************************************************)

\* Nomba has an event to notify, under a requestId of its own.
NombaEvent(r, p) ==
    /\ event[r] = None
    /\ ~p.simulated
    /\ event' = [event EXCEPT ![r] = p]
    /\ UNCHANGED <<tables, posted, answered, handler, faults>>

\* Nomba delivers the webhook, for the first time or again: it may do so
\* while an earlier delivery is still being handled, and after the answer.
Deliver(h, r) ==
    /\ handler[h].pc = "idle"
    /\ event[r] # None
    /\ ~event[r].simulated
    /\ handler' = [handler EXCEPT ![h] = [Idle EXCEPT !.pc = "check", !.request = r]]
    /\ UNCHANGED <<event, tables, posted, answered, faults>>

\* POST /hooks/simulate builds a body under a fresh reference, for an account
\* it has looked up or for none, and hands it to receive() itself: nobody ever
\* delivers it again.
Simulate(h, r, p) ==
    /\ handler[h].pc = "idle"
    /\ event[r] = None
    /\ p.simulated
    /\ p.number # None => accountStatus[p.number] # None
    /\ event' = [event EXCEPT ![r] = p]
    /\ handler' = [handler EXCEPT ![h] = [Idle EXCEPT !.pc = "check", !.request = r]]
    /\ UNCHANGED <<tables, posted, answered, faults>>

\* POST /webhooks/register adds a row, for the payment event or for others.
Register(k, events) ==
    /\ registration[k] = "absent"
    /\ registration' = [registration EXCEPT ![k] = events]
    /\ UNCHANGED <<event, customer, accountStatus, transaction, suspense, audit,
                   processed, posted, answered, handler, faults>>

\* Provisioning inserts the account of a customer.  Nomba has known it for a
\* while, so payments to it may already be under way.
OpenAccount(c) ==
    /\ accountStatus[c] = None
    /\ accountStatus' = [accountStatus EXCEPT ![c] = "active"]
    /\ UNCHANGED <<event, customer, transaction, suspense, audit, processed,
                   registration, posted, answered, handler, faults>>

\* The code only reads an account's status; it is changed in the database.
SetAccountStatus(c, s) ==
    /\ accountStatus[c] \notin {None, s}
    /\ accountStatus' = [accountStatus EXCEPT ![c] = s]
    /\ UNCHANGED <<event, customer, transaction, suspense, audit, processed,
                   registration, posted, answered, handler, faults>>

-----------------------------------------------------------------------------
(***************************************************************************)
(* Leaving a handler.                                                      *)
(***************************************************************************)

\* An exception reaches the framework: the sender is answered 500.
Raise(h) == handler' = [handler EXCEPT ![h] = Idle] /\ UNCHANGED answered

\* The service returns: the sender is answered 200.
Return(h) ==
    /\ handler' = [handler EXCEPT ![h] = Idle]
    /\ answered' = answered \union {handler[h].request}

Goto(h, pc) == handler' = [handler EXCEPT ![h].pc = pc]

-----------------------------------------------------------------------------
(***************************************************************************)
(* The steps of receive() and process_payment().                           *)
(***************************************************************************)

\* Mutant: the request is claimed in the ledger of processed events up front.
CheckProcessedClaiming(h) ==
    LET r == handler[h].request IN
    /\ handler[h].pc = "check"
    /\ \/ /\ r \in processed
          /\ Return(h)
       \/ /\ r \notin processed
          /\ Goto(h, IF event[r].kind = "ignored" THEN "finish" ELSE "number")
          /\ UNCHANGED answered
    /\ processed' = processed \union {r}
    /\ UNCHANGED <<event, customer, accountStatus, transaction, suspense, audit,
                   registration, posted, faults>>

\* Is the request in the ledger of processed events?  If it is not, a payment
\* goes on to reconciliation and any other event straight to the ledger.
CheckProcessed(h) ==
    LET r == handler[h].request IN
    /\ handler[h].pc = "check"
    /\ \/ /\ r \in processed
          /\ Return(h)
       \/ /\ r \notin processed
          /\ event[r].kind = "ignored"
          /\ Goto(h, "finish")
          /\ UNCHANGED answered
       \/ /\ r \notin processed
          /\ event[r].kind = "vact_transfer"
          /\ Goto(h, "number")
          /\ UNCHANGED answered
    /\ UNCHANGED <<event, tables, posted, faults>>

\* The account row is read, its status with it.
Found(h, c) ==
    handler' = [handler EXCEPT ![h].pc = "fetch", ![h].account = c,
                               ![h].seen = accountStatus[c]]

IsOpen(c) == c # None /\ accountStatus[c] # None

\* _find_account asks for the account number first ...
FindByNumber(h) ==
    LET c == event[handler[h].request].number IN
    /\ handler[h].pc = "number"
    /\ \/ IsOpen(c) /\ Found(h, c)
       \/ ~IsOpen(c) /\ Goto(h, "reference")
    /\ UNCHANGED <<event, tables, posted, answered, faults>>

\* ... and for the reference when no account has that number.
FindByReference(h) ==
    LET c == event[handler[h].request].ref IN
    /\ handler[h].pc = "reference"
    /\ \/ IsOpen(c) /\ Found(h, c)
       \/ ~IsOpen(c) /\ Goto(h, "create")
    /\ UNCHANGED <<event, tables, posted, answered, faults>>

\* fetch_related("customer"): the handler gets a copy of the customer's row.
FetchCustomer(h) ==
    /\ handler[h].pc = "fetch"
    /\ handler' = [handler EXCEPT ![h].pc = "create",
                                  ![h].row = customer[handler[h].account]]
    /\ UNCHANGED <<event, tables, posted, answered, faults>>

\* Mutant: the status is read afresh wherever it is needed.
QuarantinesAfresh(h) ==
    handler[h].account = None \/ accountStatus[handler[h].account] # "active"

\* The payment goes to quarantine: no account, or one read as not active.
Quarantines(h) == handler[h].account = None \/ handler[h].seen # "active"

StatusOf(h) ==
    IF Quarantines(h)
    THEN "misdirected"
    ELSE DeriveTransactionStatus(event[handler[h].request].amount,
                                 handler[h].row.target)

\* Mutant: get_or_create, which goes on with the transaction it finds.
CreateTransactionOrGet(h) ==
    LET r == handler[h].request IN
    /\ handler[h].pc = "create"
    /\ \/ transaction[r] # None /\ UNCHANGED transaction
       \/ /\ transaction[r] = None
          /\ transaction' = [transaction EXCEPT ![r] =
                [account |-> handler[h].account, status |-> StatusOf(h)]]
    /\ Goto(h, IF Quarantines(h) THEN "suspend" ELSE "credit")
    /\ UNCHANGED <<event, customer, accountStatus, suspense, audit, processed,
                   registration, posted, answered, faults>>

\* Mutant: update_or_create, which overwrites the transaction it finds.
CreateTransactionOrUpdate(h) ==
    /\ handler[h].pc = "create"
    /\ transaction' = [transaction EXCEPT ![handler[h].request] =
          [account |-> handler[h].account, status |-> StatusOf(h)]]
    /\ Goto(h, IF Quarantines(h) THEN "suspend" ELSE "credit")
    /\ UNCHANGED <<event, customer, accountStatus, suspense, audit, processed,
                   registration, posted, answered, faults>>

\* Transaction.create.  nomba_request_id is unique, so the insert fails when
\* the request already has a transaction.
CreateTransaction(h) ==
    LET r == handler[h].request IN
    /\ handler[h].pc = "create"
    /\ \/ /\ transaction[r] # None
          /\ Raise(h)
          /\ UNCHANGED transaction
       \/ /\ transaction[r] = None
          /\ transaction' = [transaction EXCEPT ![r] =
                [account |-> handler[h].account, status |-> StatusOf(h)]]
          /\ Goto(h, IF Quarantines(h) THEN "suspend" ELSE "credit")
          /\ UNCHANGED answered
    /\ UNCHANGED <<event, customer, accountStatus, suspense, audit, processed,
                   registration, posted, faults>>

\* Mutant: the amount is assigned to the balance, not added to it.
CreditWalletAssigning(h) ==
    LET r   == handler[h].request
        row == [handler[h].row EXCEPT !.wallet = [NothingAdded EXCEPT ![r] = 1]]
    IN
    /\ handler[h].pc = "credit"
    /\ customer' = [customer EXCEPT ![handler[h].account] = row]
    /\ handler' = [handler EXCEPT ![h].pc = "log", ![h].row = row]
    /\ UNCHANGED <<event, accountStatus, transaction, suspense, audit, processed,
                   registration, posted, answered, faults>>

\* Mutant: the account is looked up anew, by its number, to be credited.
CreditWalletFoundAnew(h) ==
    LET r == handler[h].request
        c == IF IsOpen(event[r].number) THEN event[r].number ELSE handler[h].account
        row == [customer[c] EXCEPT !.wallet[r] = @ + 1]
    IN
    /\ handler[h].pc = "credit"
    /\ customer' = [customer EXCEPT ![c] = row]
    /\ handler' = [handler EXCEPT ![h].pc = "log", ![h].row = row]
    /\ UNCHANGED <<event, accountStatus, transaction, suspense, audit, processed,
                   registration, posted, answered, faults>>

\* wallet_balance += amount on the copy, then save() of the copy: an UPDATE of
\* every column of the customer's row.
CreditWallet(h) ==
    LET r   == handler[h].request
        row == [handler[h].row EXCEPT !.wallet[r] = @ + 1]
    IN
    /\ handler[h].pc = "credit"
    /\ customer' = [customer EXCEPT ![handler[h].account] = row]
    /\ handler' = [handler EXCEPT ![h].pc = "log", ![h].row = row]
    /\ UNCHANGED <<event, accountStatus, transaction, suspense, audit, processed,
                   registration, posted, answered, faults>>

\* SuspenseLog.create of a quarantined payment.
WriteSuspense(h) ==
    LET reason == IF handler[h].account = None THEN "misdirected"
                                               ELSE "closed_account" IN
    /\ handler[h].pc = "suspend"
    /\ suspense' = [suspense EXCEPT ![handler[h].request] = Append(@, reason)]
    /\ Goto(h, "log")
    /\ UNCHANGED <<event, customer, accountStatus, transaction, audit, processed,
                   registration, posted, answered, faults>>

\* Mutant: a quarantined payment is forwarded too.
WriteAuditForwarding(h) ==
    LET r == handler[h].request IN
    /\ handler[h].pc = "log"
    /\ audit' = [audit EXCEPT ![r] =
                   Append(@, DecisionForStatus(StatusOf(h)))]
    /\ Goto(h, "emit")
    /\ UNCHANGED <<event, customer, accountStatus, transaction, suspense,
                   processed, registration, posted, answered, faults>>

\* ReconciliationLog.create.  A quarantined payment is not forwarded.
WriteAudit(h) ==
    LET r == handler[h].request IN
    /\ handler[h].pc = "log"
    /\ audit' = [audit EXCEPT ![r] =
                   Append(@, DecisionForStatus(StatusOf(h)))]
    /\ Goto(h, IF Quarantines(h) THEN "finish" ELSE "emit")
    /\ UNCHANGED <<event, customer, accountStatus, transaction, suspense,
                   processed, registration, posted, answered, faults>>

\* emit_payment_received reads the merchant's registrations, once, and skips
\* those that do not subscribe to the payment event.
LoadHooks(h) ==
    LET subscribed == {k \in Hook : registration[k] = "payments"} IN
    /\ handler[h].pc = "emit"
    /\ handler' = [handler EXCEPT
                     ![h].pc = IF subscribed = {} THEN "finish" ELSE "post",
                     ![h].pending = subscribed]
    /\ UNCHANGED <<event, tables, posted, answered, faults>>

\* Mutant: a POST that fails raises.
PostHookUncaught(h, k) ==
    /\ handler[h].pc = "post"
    /\ k \in handler[h].pending
    /\ \/ Raise(h) /\ UNCHANGED posted
       \/ /\ k \notin MalformedHook
          /\ handler' = [handler EXCEPT
                ![h].pc = IF handler[h].pending = {k} THEN "finish" ELSE "post",
                ![h].pending = @ \ {k}]
          /\ posted' = [posted EXCEPT ![k] = Append(@, handler[h].request)]
          /\ UNCHANGED answered
    /\ UNCHANGED <<event, tables, faults>>

\* One POST.  An httpx.HTTPError (refused, timed out, ...) is caught and the
\* loop goes on, whether or not the merchant received the event; a url that
\* cannot be parsed raises httpx.InvalidURL, which is no HTTPError.
PostHook(h, k) ==
    /\ handler[h].pc = "post"
    /\ k \in handler[h].pending
    /\ \/ /\ k \in MalformedHook
          /\ Raise(h)
          /\ UNCHANGED posted
       \/ /\ k \notin MalformedHook
          /\ handler' = [handler EXCEPT
                ![h].pc = IF handler[h].pending = {k} THEN "finish" ELSE "post",
                ![h].pending = @ \ {k}]
          /\ \/ posted' = [posted EXCEPT ![k] = Append(@, handler[h].request)]
             \/ UNCHANGED posted
          /\ UNCHANGED answered
    /\ UNCHANGED <<event, tables, faults>>

\* ProcessedWebhookEvent.create, whose request_id is unique, and the answer.
RecordProcessed(h) ==
    LET r == handler[h].request IN
    /\ handler[h].pc = "finish"
    /\ \/ /\ r \in processed
          /\ Raise(h)
          /\ UNCHANGED processed
       \/ /\ r \notin processed
          /\ processed' = processed \union {r}
          /\ Return(h)
    /\ UNCHANGED <<event, customer, accountStatus, transaction, suspense, audit,
                   registration, posted, faults>>

-----------------------------------------------------------------------------
(***************************************************************************)
(* Faults: a database call of one handler raises, or the process restarts  *)
(* and every handler in flight is gone.  What was written stays written.   *)
(***************************************************************************)

DatabaseError(h) ==
    /\ faults < MaxFaults
    /\ handler[h].pc \notin {"idle", "post"}
    /\ Raise(h)
    /\ faults' = faults + 1
    /\ UNCHANGED <<event, tables, posted>>

Restart ==
    /\ faults < MaxFaults
    /\ \E h \in Handler : handler[h].pc # "idle"
    /\ handler' = [h \in Handler |-> Idle]
    /\ faults' = faults + 1
    /\ UNCHANGED <<event, tables, posted, answered>>

-----------------------------------------------------------------------------

HandlerStep(h) ==
    \/ CheckProcessed(h) \/ FindByNumber(h) \/ FindByReference(h)
    \/ FetchCustomer(h) \/ CreateTransaction(h) \/ CreditWallet(h)
    \/ WriteSuspense(h) \/ WriteAudit(h) \/ LoadHooks(h) \/ RecordProcessed(h)
    \/ \E k \in Hook : PostHook(h, k)

Environment ==
    \/ \E r \in Request, p \in Payload : NombaEvent(r, p)
    \/ \E h \in Handler, r \in Request : Deliver(h, r)
    \/ \E h \in Handler, r \in Request, p \in Payload : Simulate(h, r, p)
    \/ \E k \in Hook, events \in {"payments", "other"} : Register(k, events)
    \/ \E c \in Customer : OpenAccount(c)
    \/ \E c \in Customer, s \in AccountStatus : SetAccountStatus(c, s)

Fault == Restart \/ \E h \in Handler : DatabaseError(h)

Next == Environment \/ Fault \/ \E h \in Handler : HandlerStep(h)

Spec == Init /\ [][Next]_vars

\* A coroutine that can run is eventually run: every await of a handler is a
\* database call that returns or a POST with a timeout.  Nomba keeps delivering
\* a webhook; a handler is free for it again and again.
FairSpec ==
    /\ Spec
    /\ \A h \in Handler : WF_vars(HandlerStep(h))
    /\ \A r \in Request : SF_vars(\E h \in Handler : Deliver(h, r))
-----------------------------------------------------------------------------
(***************************************************************************)
(* Safety.                                                                 *)
(***************************************************************************)

IsPayment(r) == event[r] # None /\ event[r].kind = "vact_transfer"

\* No payment is ever added twice into a balance, however often its webhook
\* is delivered, however its deliveries interleave and wherever a fault cuts
\* them: the insert into transactions stands between a delivery and the save
\* of the balance (reconciliation.py, process_payment).
CreditedAtMostOnce ==
    \A c \in Customer, r \in Request : customer[c].wallet[r] <= 1

\* What a balance holds is backed by a recorded transaction of that very
\* customer's account that is not in suspense: no fault leaves money in a
\* wallet without its ledger row, and no payment is both credited and
\* quarantined, even when its account is closed between two deliveries.
WalletBacked ==
    \A c \in Customer, r \in Request : customer[c].wallet[r] > 0 =>
        /\ transaction[r] # None
        /\ transaction[r].account = c
        /\ suspense[r] = <<>>

\* The records of a payment are complete: a transaction, one audit entry and,
\* exactly when funds were quarantined, one suspense entry.
Settled(r) ==
    /\ transaction[r] # None
    /\ Len(audit[r]) = 1
    /\ event[r].amount > 0 =>
          Len(suspense[r]) = (IF transaction[r].status = "misdirected" THEN 1 ELSE 0)

\* Nomba stops retrying after a 200, and the code skips what the processed
\* ledger holds; so neither may come before all the records of the payment
\* are written (webhooks.py, receive).
AnsweredIsSettled ==
    /\ answered \subseteq processed
    /\ \A r \in processed : IsPayment(r) => Settled(r)

\* A merchant hears of a payment at most once by each of his registrations (the
\* url of two may be the same), and only of a payment that is recorded for an
\* account and audited, never of one in quarantine.
ForwardedOnceAfterCredit ==
    \A k \in Hook :
        /\ \A i, j \in DOMAIN posted[k] : posted[k][i] = posted[k][j] => i = j
        /\ \A i \in DOMAIN posted[k] :
              /\ transaction[posted[k][i]].account # None
              /\ audit[posted[k][i]] # <<>>
              /\ suspense[posted[k][i]] = <<>>

\* A credit in the audit trail, which notes the balance after it, is in the
\* customer's balance.  It holds while handlers run one at a time; two
\* handlers that read the same balance overwrite one another's credit, and so
\* does a profile update.
AuditedCreditStands ==
    \A r \in Request :
        (audit[r] # <<>> /\ suspense[r] = <<>>) =>
            \E c \in Customer :
                transaction[r].account = c /\ customer[c].wallet[r] = 1

\* Every payment the audit trail decides to quarantine has its suspense entry.
\* It holds for payments that say what they amount to; one of zero against a
\* target is judged misdirected, so quarantine, on the crediting branch.
QuarantineHasSuspense ==
    \A r \in Request :
        (\E i \in DOMAIN audit[r] : audit[r][i] = "quarantine") => suspense[r] # <<>>

\* Handler h has recorded the payment of r and has yet to enter it in the
\* ledger of processed events.
WorksOn(h, r) ==
    /\ handler[h].request = r
    /\ handler[h].pc \in {"credit", "suspend", "log", "emit", "post", "finish"}

\* The payment of r is recorded, and nobody is there to finish its processing.
Stranded(r) ==
    /\ transaction[r] # None
    /\ r \notin processed
    /\ \A h \in Handler : ~WorksOn(h, r)

\* Only a fault strands a payment: unless the merchant subscribes a url that
\* makes the forwarding raise, a handler that has inserted the transaction
\* gets to the ledger of processed events, whatever other deliveries do in
\* between; the insert they lose against it, or the ledger row they find,
\* stops them and not the payment (webhooks.py, receive).
OnlyFaultsStrand ==
    [][ (\A k \in MalformedHook : registration[k] # "payments") /\ UNCHANGED faults =>
            \A r \in Request : Stranded(r)' => Stranded(r) ]_vars

\* And a stranded payment stays stranded: a redelivery finds the transaction
\* at the unique insert and raises before it repairs anything, so webhooks
\* never answer it 200 nor finish its records (reconciliation.py,
\* process_payment).
StrandedForGood == [][\A r \in Request : Stranded(r) => Stranded(r)']_vars

-----------------------------------------------------------------------------
(***************************************************************************)
(* Liveness.                                                               *)
(***************************************************************************)

\* Every webhook Nomba has to deliver is answered 200 in the end, so its
\* retries end with the payment recorded.  It needs handlers that run to their
\* end: no fault, and no registration that makes the forwarding raise.
WebhookAnswered ==
    \A r \in Request :
        (event[r] # None /\ ~event[r].simulated) ~> r \in answered

\* The abstract ledger, its variables read off the tables.
Ledger == INSTANCE PaymentLedger WITH
    ledger <- transaction,
    balance <- [c \in Customer |-> customer[c].wallet],
    settled <- {r \in processed : IsPayment(r)},
    told <- posted

\* The processing of payments, with all its handlers, redeliveries and faults,
\* implements the abstract ledger: every one of its steps enters one payment,
\* rebalances one customer, settles one payment, tells one url, or is unseen.
LedgerSpec == Ledger!Spec
=============================================================================
