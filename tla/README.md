# Verification of the LDB payments backend

The program is a FastAPI service with Tortoise ORM over PostgreSQL.  Merchants
open customers, each with a dedicated virtual account at the bank Nomba; Nomba
notifies payments to those accounts by webhook; the service reconciles each
payment, credits the customer's wallet and forwards the news to the merchant's
own webhooks.  All handlers are coroutines of one event loop (and there may be
several processes).  No database transaction spans two statements, so every
`await` is a point where another handler, a redelivery or a crash may come in.
That is what these modules are about.

## Inventory

| Part (under `src/app`) | State it keeps | Operations | What is hard | What makes it correct |
|---|---|---|---|---|
| inbound webhooks: `services/webhooks.py`, `api/controller/hooks.py` | `processed_webhook_events` | `receive`, `simulate` | redelivery, also at once with the first delivery; faults before the event is recorded | a payment takes effect once; 200 only when it is recorded; every webhook answered 200 in the end |
| reconciliation: `services/reconciliation.py`, `services/helpers.py` | `transactions`, `suspense_logs`, `reconciliation_logs`, `customers.wallet_balance` | `process_payment`, `_find_account`, `_quarantine_payment` | read-modify-write of a whole row across awaits; five inserts that commit one by one; accounts opened or closed meanwhile | balances backed by transactions; never both credited and quarantined; the audit trail is true |
| forwarding: `services/webhook_forwarder.py` | `webhook_registrations` | `register`, `emit_payment_received` | failing urls in the middle of a reconciliation | told at most once a registration, only of recorded and audited payments; a failing url stops nothing else |
| provisioning: `services/customers.py` `create`, `services/accounts.py`, `integrations/nomba/virtual_account.py` | `customers`, `dedicated_accounts`, Nomba's virtual accounts | `create`, `create_dedicated` | check-then-insert, a remote call in between, compensation by delete with cascade | account, customer and virtual account agree; a refused call leaves nothing; an account answered for stays |
| profile: `services/customers.py` `update` | `customers`, `dedicated_accounts`, the name at Nomba | PATCH | saves of stale rows, renames out of order | only what was asked for changes |
| token: `integrations/nomba/auth.py` | one Redis key | `get_access_token`, `_auth_headers` | expiry, refreshes at once | a token handed out is valid |
| nightly job: `jobs/nightly_reconciliation.py` | `reconciliation_logs`, warnings in the log | one run a day | overlapping windows, missed and partial runs, answers without a list, keys that are not unique, a list cut at 200 | each payment of a day is matched or reported after the night that follows; a match stands for a row |
| statements: `services/statements.py`, `services/helpers.py` | none (reads) | `list_transactions`, `get_statement` | pages and balances read at different times | a balance is explained by the transactions shown with it; a walk through the pages skips nothing; figures agree |
| signature, schemas, routers, merchant lookup | none | pure functions | | |
| rate limiter, metrics, request log, start-up, settings | library state, counters | | | |

They interact through the database: provisioning creates the rows payments are
found by, its rollback may delete them; payments and PATCH both save customer
rows; the nightly job reads transactions and adds audit entries.  Reconciliation
calls the forwarder before `receive` records the event; provisioning, PATCH and
the nightly job call Nomba with a token from the cache.

Statuses of accounts are only read by the code, never changed by it; an operator
changes them in the database.  The hazards, each at its line and with the
properties that would notice it, are in `PROJECT.json`.

## Modules

* `FundingStatus`: `derive_transaction_status`, `_decision_for_status` and the
  figures told of a balance (`_outstanding_balance`, `_progress_percentage`,
  `_customer_status`) as operators.  `ProgressPercentage` is the set of values
  the rounding may give, in hundredths of a percent.
* `PaymentProcessing` (the core): the tables and the handlers of
  `NombaWebhookService.receive`, `process_payment` and
  `emit_payment_received`.  One action per stretch of code from one await to the
  next, named for the statement it runs: `CheckProcessed`, `FindByNumber`,
  `FindByReference`, `FetchCustomer`, `CreateTransaction`, `CreditWallet` or
  `WriteSuspense`, `WriteAudit`, `LoadHooks`, `PostHook`, `RecordProcessed`.
  Around them the environment: `NombaEvent`, `Deliver` (again, at any time),
  `Simulate`, `Register`, `OpenAccount`, `SetAccountStatus`; and the faults
  `DatabaseError` and `Restart`.
* `PaymentLedger`: the abstract specification, without handlers: payments are
  entered once, balances are sums of entered payments, each counted at most
  once, payments are settled once entered, urls (rows of
  `webhook_registrations`, of which two may have one address) are told at most once.
  `PaymentProcessing!Ledger` reads its variables off the tables; `LedgerSpec` is
  the claim that every step is a ledger step or unseen.
* `Provisioning`: `create` and `create_dedicated` with every outcome of the
  Nomba call (opened, opened but the answer lost or without number, refused,
  raised), the cascading rollback, unique columns and the foreign key.
* `CustomerProfile` EXTENDS `PaymentProcessing` and composes it with PATCH: the
  handlers of `CustomerService.update` (`ResolveCustomer`, `SaveCustomer`,
  `FindAccount`, `RenameAccount`, `RenameAtNomba`, `Respond`) take turns with the
  webhook handlers on the same rows, and a restart ends both.  `ProfileSpec` lets
  everything overlap; `SerialSpec` lets nothing arrive while something is in
  flight.
* `TokenCache`: `get_access_token` and the use of the token, by callers that share
  the Redis key, in discrete time.
* `Statements` EXTENDS `PaymentProcessing` and composes it with a merchant who
  reads: `get_statement` as two reads (`ReadCustomer`, `ShowStatement`) and
  `list_transactions` as two queries a page (`CountTransactions`, `FetchPage`),
  with every step of webhook processing, every fault and restart in between.
* `NightlyReconciliation`: `run_nightly_reconciliation`, triggered at 02:00 of each
  day (`Trigger`, or `MissTrigger` when the process is down): `ListTransactions`,
  then for each item `LookUpById`, `LookUpByRef` and `WriteMatch`, and
  `CompleteRun`; `RunFails` at any point.  `ListNothing` is the answer that is an
  object without a list, or with empty ones, under `results` and `items`: the code
  takes it for an empty list (`nightly_reconciliation.py:33`) and the run
  completes.  Nomba's payments (`Pay`) and the rows of
  processed webhooks (`RecordPayment`) come at any time.
* `MCPaymentProcessing`, `MCProvisioning`, `MCCustomerProfile`, `MCTokenCache`,
  `MCStatements`, `MCNightly`: instances for TLC.
* `PaymentProcessingProofs`, extended by `SettlementProofs` (what is answered,
  audited and told, and what is cut short), which `SerialProofs` (when credits
  stand) and `StatementsProofs` extend, and `ProfileProofs` the former;
  `ProvisioningProofs`, `NightlyProofs`, `TokenCacheProofs`:
  theorems and their proofs.

### Correspondence worth knowing

* A wallet balance is the function from payments to the number of times each
  was added into it (`wallet_balance` is the sum of amount times count).  `+=` on
  the value read and the UPDATE of the full row are thereby exact, and a double
  or an overwritten credit is visible whatever the amounts.
* `handler[h].row` is the handler's copy of the customer row.  `CreditWallet`
  writes that copy, not the current row: this is the stale save of
  `reconciliation.py:108-109`.
* Unique columns are disjuncts in which the insert raises: `nomba_request_id`
  in `CreateTransaction`, `request_id` in `RecordProcessed`, the customer and
  account keys in `Provisioning`.
* `number` and `ref` of a payload name the customer whose account has, or will
  have, that number or reference, since Nomba knows an account before its row
  is inserted.
* An exception ends a handler without an answer (`Raise`: the sender sees a 500);
  `Return` is the 200.
* In `CustomerProfile` the columns a PATCH may set are represented by the name,
  which the account row and Nomba have too, and the target, which decides the
  status of payments.  `patch[p].row` is the copy that is saved, and
  `patch[p].status` the status that goes back with the account's new name.
* In `TokenCache` a token is represented by the time it expires at Nomba.  Every
  wait (the POST that gets the token, the Redis calls, the request that uses the
  token) ends within `Delay`.  httpx is given 30 s for each phase of a request (to
  connect, to send, for each read), so `Delay` is several times that; Redis has no
  timeout in the code and is assumed to take no longer.
* In `Statements`, `listed[c]` is the order by `-created_at`, which the insert
  stamps: a new transaction comes first.  The stamp is taken before the commit, so
  with several handlers two transactions that commit at about the same time may
  come in the other order.  One merchant reads, for readers change
  nothing; after a page he asks for the next while the answer just got names more
  pages.  `reader.shown` gathers what the answers have shown.
* In `NightlyReconciliation` time is a day and whether it is before 02:00 on it;
  a run ends before midnight, and the server's date is Nomba's.  A payment has an
  id of its own at Nomba but may share its `merchantTxRef`; an item and a webhook
  may each lack either key.  `spoilt` holds the days whose run was missed, failed
  or was given no list.  `copies[p]` counts the rows about `p`: neither key is
  unique in `transactions`, and `get_or_none` raises when it finds two rows.  Items
  are taken in any order.
* In `Provisioning` a call's name is also the id of the rows and the number of
  the virtual account it asks for, so identity needs no counter.

## Checks

Runs that pass:

| Run | Instance | Shows |
|---|---|---|
| `PaymentSafety` | 2 handlers, 2 payments, 1 customer, 1 url, 1 fault, a payment to the account and one to nobody; 371k states | `CreditedAtMostOnce`, `WalletBacked`, `AnsweredIsSettled`, `ForwardedOnceAfterCredit`, `LedgerSpec`, `OnlyFaultsStrand`, `StrandedForGood` |
| `PaymentPaths` | 1 handler, 2 payments, 2 customers, of whom a payment names one by number and the other by reference, 1 malformed url, 2 faults, every kind of event; 1.1M states | `TypeOK`, `WalletBacked`, `AuditedCreditStands`, `QuarantineHasSuspense` |
| `PaymentAnswered` | `FairSpec`, 2 handlers, no fault, no malformed url; 157k states | `WebhookAnswered` |
| `ProvisioningSafety` | 3 calls of either kind, 2 references, 2 faults; 18k states | `TypeOK`, `AccountMatchesCustomer`, `RefusedLeavesNothing` |
| `ProfileSafety` | 1 webhook handler, 2 payments, 1 PATCH, 2 names, 1 fault; 488k states | `ProfileTypeOK`, `WalletBacked`, `LedgerSpec`: a PATCH that saves a stale row may lose a credit but never makes one up |
| `ProfileSerial` | the same with 2 PATCHes, nothing overlapping; 374k states | `AuditedCreditStands`, `PatchTakesEffect`, `PatchLeavesStatus` |
| `StatementReads` | 1 handler, 3 payments of 20000, a target of 20001, pages of 1, 1 fault; 504k states | `ReaderTypeOK`, `StatementCovers`, `FiguresAgree`, `WalkSkipsNothing` |
| `NightlyNet` | 3 payments, two with one reference, 3 days, lists of at most 2, 2 rows a payment, 1 night missed, failed or given no list; 1.6M states | `TypeOK`, `CompleteRunAccounts`, `MatchHasRow`, `MatchedTwiceAtMost`, `AccountedByNextNight` |
| `TokenMargin` | 3 callers, TTL 3, waits of 2, life 7, 14 time units; 302k states | `TokenHonoured` with no unit of margin to spare (with life 6 it fails) |

Runs that refute what the repository says of itself (`PROJECT.json` findings
quote the lines):

| Run | What happens |
|---|---|
| `LostCredit` | two handlers credit one customer at once and one credit is overwritten, though audited |
| `StuckAfterFault` | a fault between the transaction and the processed event makes every redelivery fail |
| `RollbackErasesAccount` | the rollback of a create deletes, by cascade, the account of a concurrent create_dedicated |

The models show more, which has no run of its own:

* under `ProfileSpec`, a PATCH that reads the customer before a payment is credited
  and saves it after takes the credit away (`AuditedCreditStands`,
  `customers.py:119`), a rename undoes a closure of the account between its read and
  its save (`PatchLeavesStatus`, `customers.py:125`), and of two PATCHes that overlap
  one loses what it has set (`PatchTakesEffect`);
* with a payload of amount 0 and a target, `QuarantineHasSuspense` fails, because
  `derive_transaction_status` judges it misdirected on the crediting branch
  (`helpers.py:96`);
* a malformed merchant url raises `httpx.InvalidURL`, which is no `httpx.HTTPError`,
  past the `except` of `webhook_forwarder.py:102`: the payment is credited, and every
  redelivery fails (`WebhookAnswered` with `MalformedHook` not empty);
* a missing Nomba token raises a `RuntimeError` past the rollback
  (`customers.py:52`) and leaves the customer without account, against what
  `NombaFailureRollsBack` of `Provisioning` says;
* of the safety net, by the exceptions its properties name: a night whose run was
  missed or failed is never made up for; an answer without a list
  (`nightly_reconciliation.py:33`) makes a run that has compared nothing log that it
  is complete, so the log alone does not tell such a night from one without
  payments; two rows with one id, or one reference, end the run, and do so again on
  the next night; what the list of 200 cuts off is not compared; and a match says
  only that a row is there, not that it was credited, nor, when it was found by
  reference, that it is the payment's own.  `AccountedByNextNight` and
  `CompleteRunAccounts` bound the damage: each of these costs the payments of its
  own night, and a cut list only those beyond the limit.

The runs exclude these by `SerialSpec`, by their payloads and urls, and by the
hypotheses of the properties.

Each property of a passing run has a mutant: an operator next to the one it
mutates, never part of the model, that makes that property fail in that run.

### Bounds

Interference between handlers on one customer is a matter of two writers, and
the properties each speak of one payment and one customer, so two handlers, two
payments and one customer reach the interesting cases: a redelivery
during and after the first delivery, two payments on one row, an account that
changes under a handler.  A second customer matters only where number and
reference of one payment may name different accounts: `PaymentPaths` has two (and
`BalancesAreBacked` any number).  One fault cuts a handler at any step; the second (in
`PaymentPaths`) cuts the redelivery too.  Three provisioning calls are a create,
a rival and a third that comes after the rollback.  `MaxFaults` and the finite
sets of requests, calls and urls are the only bounds; deliveries are unbounded.
Handlers and payments (calls and references) are interchangeable, which the
safety runs use as symmetry; the liveness runs do not.  The theorems need none
of these bounds.

`CHECK_DEADLOCK FALSE` is only in the `Provisioning` runs, whose calls are
finite in number, and in `NightlyNet`, whose time ends with `LastDay`.

In `StatementReads` three payments and pages of one let two inserts fall into a
walk, between count and fetch and between pages; 20000 of a target of 20001 is
where the progress first rounds to 100.0 while something is due, and the next
payment is over the target.  One handler is
enough, since what a second one could do to the figures (lose a credit) only lowers
the balance; `StatementCovers` is proved for any number.  In `NightlyNet` three days
hold a payment, its two windows and a day after them; three payments exceed the
`Limit` of two; one payment has a reference of its own and no other key; two share a
reference, and their items have both keys or none; one night is missed, has
its run cut anywhere, or is given no list, which leaves the nights around it to be
checked.

In `CustomerProfile` one handler of each kind is enough for the races between
them (the races among webhooks are those of the other runs), and the second
PATCH of `ProfileSerial` finds what the first, or a fault in it, has left.  In
`TokenMargin` the horizon is twice the life of a token, so that one is cached,
expires, and is refreshed by callers that overlap.

### Fairness

`FairSpec` assumes weak fairness of every handler: the event loop resumes a
coroutine whose await is over, database calls return, and POSTs have a timeout of
10 s.  And strong fairness of the delivery of each webhook: Nomba retries what
is not answered 200, and handlers become free again and again without being free
all the time.  Nothing is assumed of `Register`, status changes, new events or
faults.

## Proofs

All theorems hold for any sets and bounds that satisfy the named assumptions of
the modules.  `PaymentProcessingProofs` proves of webhook processing, for any
handlers, payments, customers, urls, payloads and number of faults:

* `TypeCorrect`: `Spec => []TypeOK`;
* `CreditedOnce`: `Spec => []CreditedAtMostOnce`;
* `BalancesAreBacked`: `Spec => []WalletBacked`;
* `ImplementsLedger`: `Spec => LedgerSpec`, the refinement.

Assumptions: the types of the constants, that `None` is different from every
value it stands beside, and that simulated payloads are the ones `simulate`
builds (`PaymentProcessing`, `FundingStatus`).

None of the properties is inductive as it stands.  `TypeInv` adds to `TypeOK` what
a handler's locals hold at each program point (a handler about to credit has an
account and a copy of its row).  `WalletInv` adds the argument why nothing is
counted twice:

1. the unique insert elects one owner of a payment for ever (`OneOwner`,
   `OwnerOK`);
2. until the owner has credited or suspended the payment, it is in no balance, in
   *no handler's copy* of a balance and in no suspense log (`PendingOK`,
   `Nowhere`); the insert establishes this, because
3. stored balances and copies alike consist of payments recorded for that
   customer and not in suspense (`Backed`, `CopyOK`), and an absent transaction
   has no suspense entry.

Point 3 over the copies is what makes stale saves harmless to these properties:
writing an old copy loses credits but invents none.  `LedgerInv` adds that an
owner has yet to tell only urls that have not heard of the payment.  Lemmas named
`...Effect` state what each action does to its handler's locals; `QuietStep` and
`StillStep` treat at once all steps that leave the records alone; the steps that
do not (`FetchStep`, `CreateStep`, `CreditStep`, `SuspenseStep`, `RestartStep`)
have a lemma each.  The inductive invariants were model-checked on the safety
instances before they were proved.

`SettlementProofs` adds `AnswersAreSettled` (`AnsweredIsSettled`), `ForwardedOnce`
(`ForwardedOnceAfterCredit`) and `QuarantinesHaveSuspense` (`QuarantineHasSuspense`).
`SettleInv` extends `LedgerInv` by which records a payment has at each program point
of the handler that owns it (`StageOK`), by `TransactionFirst`, and by the fact that a
payment judged misdirected, if it amounts to something, is in no balance and in no
copy.  `QuarantinesHaveSuspense` assumes `AmountsPositive`: without it the theorem is
false, as said above.

Two action theorems there are about payments that are recorded, not yet processed,
and have no handler at work on them (`Stranded`).  `StrandedByFaultsOnly`
(`OnlyFaultsStrand`): no interleaving of deliveries strands a payment, only a fault or
a url that cannot be parsed; it is the safety half of `WebhookAnswered`, which then
only needs that handlers run on.  `StrandedStay` (`StrandedForGood`): no later delivery
takes a stranded payment up again, so what `StuckAfterFault` shows has no way out
within the code.  `Course` lists where each step may take a handler; `StrandInv` adds
to `SettleInv` that only payments are looked up and recorded, and that urls yet to be
told are still registered for payments.

`SerialProofs` says when credits stand.  `UncontendedCreditsStand` is
`Spec /\ []Uncontended => []AuditedCreditStands`: whoever is about to save a balance must
be the only handler that has read that customer's row and is to credit it
(`Uncontended`).  That is exactly the race of `LostCredit`, and any number of handlers,
deliveries and faults is harmless without it.  The invariant adds to `SettleInv` that
the balance a handler holds is the stored one (`FreshOK`) and that a payment about to
be audited is in it (`CountedOK`).  `SerialCreditsStand` is the case of a single handler.

`StatementsProofs` proves `ReaderTypeCorrect`, `StatementsCover` (`StatementCovers`),
`WalksSkipNothing` (`WalkSkipsNothing`) and `StatementFiguresAgree` (`FiguresAgree`).  A
step of `Statements` is a step of `PaymentProcessing` or leaves its variables alone
(`StepIsNext`), so `SettleInv` carries over.  Added are

* for the cover, that every transaction of an account is listed and that the balance
  read is explained by transactions there are *already*, which stay;
* for the walk, that lists only grow at the front and name nothing twice
  (`ListedOnce`), and that the answers so far have shown an initial segment of the list
  as it was when the walk began (`WalkOK`);
* for the figures, that the balance told is at most the sum of the amounts shown.  These
  are sums over the finite set of payments by the library's fold.  A smallest
  counterexample among the subsets (`SmallestSet`) takes the place of an induction:
  the partial sums exist and agree (`SumsExist`, `SumsAgree`), and larger terms have
  the larger sum (`SumsCompare`).  `ProgressReadsFull` is about the rounding of the
  progress, for every balance and target.  (The progress is in the answers about the
  customer, `build_customer_response`, not in the statement.)

`StatementFiguresAgree` assumes that `Request` is finite: sums over all payments mean
something only then.

`ProfileProofs` proves, of any number of PATCHes and handlers overlapping under
`ProfileSpec`, `ProfileTypeCorrect`, `PatchedBalancesAreBacked` (`WalletBacked`),
`PatchedAnswersAreSettled` (`AnsweredIsSettled`), `PatchedForwardedOnce`
(`ForwardedOnceAfterCredit`) and `ProfileImplementsLedger` (`LedgerSpec`).  `ProfileInv` puts the
copies PATCHes hold beside those of the handlers: backed by transactions, and without
any payment that is about to be credited or suspended, or is judged misdirected.
`CopyStays` shows that webhook steps keep both, and `SaveStep` that the row
`SaveCustomer` then writes back keeps `SettleInv`.  `UncontendedRowsKeepCredits` is
`ProfileSpec /\ []UncontendedRow => []AuditedCreditStands`, where `UncontendedRow` adds to
`Uncontended` that no handler saves the row while a PATCH is to save it.

Under `SerialSpec` it proves `SerialRequestsKeepCredits` (`AuditedCreditStands`),
`SerialPatchTakesEffect` (`PatchTakesEffect`) and `SerialPatchLeavesStatus`
(`PatchLeavesStatus`): at most one request is in flight (`OneInFlight`), so what a PATCH has
read is what stands and what it has written stays (`EffectOK`), and `UncontendedRow`
holds.

`ProvisioningProofs` proves `TypeCorrect`, `AccountsMatch` (`AccountMatchesCustomer`) and
`RefusedLeaveNothing` (`RefusedLeavesNothing`), for any number of calls, references and
faults.  The strengthening says at which program points a call can have rows of
its own (`RowsOK`), what Nomba has opened for it (`VirtualOK`), and that the owner a
create goes on with is the customer it has inserted (`LocalOK`).  `CreatedAccountsStay`
is `[]AnsweredAccountStays` where only `POST /customers` is used (`"dedicate" \notin Kind`):
a customer's id is then its own create's, and the rollback of another create is
not about it (`KeptOK`).  `RollbackErasesAccount` is the counterexample with both endpoints.

`NightlyProofs` proves `NightTypeCorrect`, `MatchesHaveRows` (`MatchHasRow`),
`MatchedAtMostTwice` (`MatchedTwiceAtMost`), `RunsAccount` (`CompleteRunAccounts`) and
`AccountedInTime` (`AccountedByNextNight`), for any number of payments, days and spoilt
nights and any limit.  A run has its items from the window of its day and has not matched
what is still before it (`JobOK`), so a payment has one audit entry a run
(`OncePerRun`), and all of them are dated with its day or the next (`MatchOK`); three
entries would have to be on two days.  The payments a run has
still before it or has dealt with (`Kept`) never get fewer: from the list on they
are all of the day before, or as many as a list holds (`RunDue`), so that when it
completes they are dealt with (`Covered`), unless it was given no list.  A payment
made later is for a later run (`DueBefore`).  `NightsOK`: every night that is over has
its completed run, or is spoilt, or its own window has an ambiguous key.

`TokenCacheProofs` proves `TokensHonoured`, `Spec => []TokenHonoured`, for any number
of callers and any clock, from `MarginAssumption`: TTL + 2 * Delay <= Life.  The
code's TTL is 55 minutes, so the assumption says that Nomba honours a token for
at least that and two waits, each of which may take several times the 30 s httpx is
given for a phase; the repository does not say how long Nomba does.  `TokenHonoured` is not inductive: `TokenInv` adds when each token under way
was issued, that one handed out outlives a whole wait, and that the key goes away
a whole wait before its token expires, whoever wrote it last.

Only model-checked:

* `WebhookAnswered`: liveness under fairness is beyond the prover.  Its safety half is
  `StrandedByFaultsOnly` with `AnswersAreSettled`.
* The runs that expect a violation: a counterexample is no theorem.  What holds instead
  of each is one: `UncontendedCreditsStand`, `StrandedStay`, `CreatedAccountsStay`.

## Not modelled

* Bodies without `requestId` (answered 400, no effect), bodies that cannot be
  parsed, amounts that are negative or finer than the column's two decimals.
* The reply of a handler is not lost after its event was recorded; a redelivery
  then takes the same path as one after the answer, which is modelled.
* A database call that commits and yet reports failure is not separated from one
  that fails before it commits, except as a fault at the next call.
* In `PaymentProcessing`, and what extends it, customers and accounts never vanish:
  the rollback is in `Provisioning`.  Nor do rows vanish by its cascade in
  `NightlyReconciliation`.
* Two webhooks with different `requestId`s about one bank transfer are two payments
  to `PaymentProcessing`, as they are to the code; only `NightlyReconciliation` has
  both rows be about one payment.
* `NightlyReconciliation` does not follow the credit of a payment: the job does not
  look at it.  A change of the clock, and runs longer than a day, are left out.
* `CustomerProfile` has no merchant urls, registrations or simulated payments; they
  touch none of the rows a PATCH writes.
* A token that Nomba revokes before its time stays cached: nothing in the code
  deletes the key.
* The parts `PROJECT.json` lists as `not_modelled`, with the reasons there.

## Plan

Done: every component that keeps state of its own or decides about payments, and
the theorems listed above.  What could come next:

1. `OnlyFaultsStrand` and `StrandedForGood` among PATCHes, which touch neither
   transactions nor handlers.
2. One module in which the rollback of `Provisioning` meets webhooks under way, where
   the cascade deletes transactions.

The signature check, schemas and routers are pure functions; the rate limiter counts
in a library; metrics, logs, start-up and settings decide nothing about payments.
There is no state in them for a model to be about.
