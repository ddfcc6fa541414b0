----------------------- MODULE NightlyReconciliation -----------------------
(***************************************************************************)
(* The nightly safety net, run_nightly_reconciliation: once a day, at      *)
(* 02:00, it asks Nomba for the transactions of yesterday and today, looks *)
(* each of them up in the transactions table, by id and then by reference, *)
(* writes an audit entry for one it finds and a warning for one it does    *)
(* not.                                                                    *)
(*                                                                         *)
(* The processing of webhooks is seen as its abstract ledger is            *)
(* (PaymentLedger): rows are added, at any time, and stay.  Payments made  *)
(* at Nomba have an id of their own there, and a merchantTxRef that need   *)
(* not be theirs alone; neither column is unique here.                     *)
(***************************************************************************)
EXTENDS Naturals, Sequences, FiniteSets

CONSTANTS
    Payment,        \* payments made at Nomba to virtual accounts
    RefOf,          \* RefOf[p]: the merchantTxRef of payment p
    KeysOf,         \* KeysOf[p]: which keys its list item and webhook may have
    Limit,          \* most transactions one list holds (200)
    MaxCopies,      \* bound on the webhooks, and rows, of one payment
    LastDay,        \* bound on time
    MaxFaults,      \* bound on the days whose run is spoilt
    None

Day == 0..LastDay

ASSUME KeysAssumption ==
    KeysOf \in [Payment -> SUBSET [listed: SUBSET {"id", "ref"}, told: SUBSET {"id", "ref"}]]
ASSUME RefAssumption == Payment \subseteq DOMAIN RefOf
ASSUME BoundsAssumption ==
    /\ Limit \in Nat /\ MaxCopies \in Nat /\ LastDay \in Nat /\ MaxFaults \in Nat
ASSUME FinitePayments == IsFiniteSet(Payment)
ASSUME NoPaymentAssumption == None \notin Payment \union Nat

VARIABLES
    day,        \* date.today()
    early,      \* it is before 02:00
    made,       \* made[p]: the day payment p was made at Nomba, or None
    listed,     \* listed[p]: the keys the item of p has in Nomba's list
    told,       \* told[p]: the keys its webhook has, which its row keeps
    copies,     \* copies[p]: rows of transactions that are about p
    job,        \* the run under way
    completed,  \* days whose run logged that it is complete
    matches,    \* matches[p]: audit entries written for the item of p
    reported,   \* payments reported as missing
    spoilt      \* days whose run was missed, failed, or was given no list

nomba == <<made, listed, told>>
vars == <<day, early, nomba, copies, job, completed, matches, reported, spoilt>>

NoJob == [pc |-> "idle", today |-> 0, items |-> {}, item |-> None, found |-> None]

TypeOK ==
    /\ day \in Day
    /\ early \in BOOLEAN
    /\ made \in [Payment -> Day \union {None}]
    /\ listed \in [Payment -> SUBSET {"id", "ref"}]
    /\ told \in [Payment -> SUBSET {"id", "ref"}]
    /\ copies \in [Payment -> 0..MaxCopies]
    /\ job \in [pc: {"idle", "list", "next", "ref", "write"},
                today: Day,
                items: SUBSET Payment,
                item: Payment \union {None},
                found: Payment \union {None}]   \* whose row local_tx is
    /\ completed \subseteq Day
    /\ matches \in [Payment -> Seq([day: Day, row: Payment])]
    /\ reported \subseteq Payment
    /\ spoilt \subseteq Day

Init ==
    /\ day = 0
    /\ early = TRUE
    /\ made = [p \in Payment |-> None]
    /\ listed = [p \in Payment |-> {}]
    /\ told = [p \in Payment |-> {}]
    /\ copies = [p \in Payment |-> 0]
    /\ job = NoJob
    /\ completed = {}
    /\ matches = [p \in Payment |-> <<>>]
    /\ reported = {}
    /\ spoilt = {}

-----------------------------------------------------------------------------

\* A payment is made; Nomba will list it, and notify it, with these keys.
Pay(p, keys) ==
    /\ made[p] = None
    /\ made' = [made EXCEPT ![p] = day]
    /\ listed' = [listed EXCEPT ![p] = keys.listed]
    /\ told' = [told EXCEPT ![p] = keys.told]
    /\ UNCHANGED <<day, early, copies, job, completed, matches, reported, spoilt>>

\* A webhook about p is processed: a row is inserted.  Two webhooks with two
\* requestIds insert two rows, though they tell of one payment.
RecordPayment(p) ==
    /\ made[p] # None
    /\ copies[p] < MaxCopies
    /\ copies' = [copies EXCEPT ![p] = @ + 1]
    /\ UNCHANGED <<day, early, nomba, job, completed, matches, reported, spoilt>>

\* A run is over long before the next day begins.
Midnight ==
    /\ ~early
    /\ job.pc = "idle"
    /\ day < LastDay
    /\ day' = day + 1
    /\ early' = TRUE
    /\ UNCHANGED <<nomba, copies, job, completed, matches, reported, spoilt>>

\* The scheduler's trigger at 02:00.
Trigger ==
    /\ early
    /\ early' = FALSE
    /\ job' = [NoJob EXCEPT !.pc = "list", !.today = day]
    /\ UNCHANGED <<day, nomba, copies, completed, matches, reported, spoilt>>

\* The process is down at 02:00: nothing makes up for the run.
MissTrigger ==
    /\ early
    /\ Cardinality(spoilt) < MaxFaults
    /\ early' = FALSE
    /\ spoilt' = spoilt \union {day}
    /\ UNCHANGED <<day, nomba, copies, job, completed, matches, reported>>

-----------------------------------------------------------------------------

\* Mutant: only today is asked for.
WindowToday(d) == {p \in Payment : made[p] = d}

\* Mutant: the day before yesterday is asked for too.
WindowThreeDays(d) == {p \in Payment : made[p] # None /\ made[p] + 2 >= d /\ made[p] <= d}

\* startDate: yesterday, endDate: today.
Window(d) == {p \in Payment : made[p] # None /\ made[p] + 1 >= d /\ made[p] <= d}

\* Nomba answers with a list, of no more than Limit of them and without further
\* pages.
ListTransactions ==
    /\ job.pc = "list"
    /\ \E items \in SUBSET Window(job.today) :
          /\ \/ items = Window(job.today) /\ Cardinality(items) <= Limit
             \/ Cardinality(items) = Limit
          /\ job' = [job EXCEPT !.pc = "next", !.items = items]
    /\ UNCHANGED <<day, early, nomba, copies, completed, matches, reported, spoilt>>

\* Nomba answers with an object in which there is no list, or an empty one, under
\* "results" and "items": the run goes on with [], and completes.
ListNothing ==
    /\ job.pc = "list"
    /\ Cardinality(spoilt) < MaxFaults
    /\ job' = [job EXCEPT !.pc = "next"]
    /\ spoilt' = spoilt \union {job.today}
    /\ UNCHANGED <<day, early, nomba, copies, completed, matches, reported>>

\* No token, no answer, an error, or data that is neither an object nor a list:
\* the run is skipped.  Or a database call fails or the process restarts, and
\* the run ends midway.
RunFails ==
    /\ job.pc # "idle"
    /\ Cardinality(spoilt) < MaxFaults
    /\ job' = NoJob
    /\ spoilt' = spoilt \union {job.today}
    /\ UNCHANGED <<day, early, nomba, copies, completed, matches, reported>>

\* An item without any key is passed over.
SkipItem(p) ==
    /\ job.pc = "next"
    /\ p \in job.items
    /\ listed[p] = {}
    /\ job' = [job EXCEPT !.items = @ \ {p}]
    /\ UNCHANGED <<day, early, nomba, copies, completed, matches, reported, spoilt>>

\* Rows of transactions with the id, and with the reference, of payment p.
RowsById(p) == {p} \X (IF "id" \in told[p] THEN 1..copies[p] ELSE {})
RowsByRef(p) ==
    UNION {{q} \X (1..copies[q]) : q \in {q \in Payment :
               "ref" \in told[q] /\ RefOf[q] = RefOf[p]}}

\* Mutant: an item whose key is ambiguous is passed over.
GetOrNonePassing(rows, p, pcIfNone) ==
    \/ /\ Cardinality(rows) > 1
       /\ job' = [job EXCEPT !.pc = "next", !.items = @ \ {p}]
    \/ \E row \in rows :
          /\ rows = {row}
          /\ job' = [job EXCEPT !.pc = "write", !.items = @ \ {p}, !.item = p,
                                !.found = row[1]]
    \/ /\ rows = {}
       /\ job' = [job EXCEPT !.pc = pcIfNone, !.items = @ \ {p}, !.item = p,
                             !.found = None]

\* What get_or_none makes of the rows it selects: it raises when there are
\* several, which ends the run, the rest of its items not compared.
GetOrNone(rows, p, pcIfNone) ==
    \/ /\ Cardinality(rows) > 1
       /\ job' = NoJob
    \/ \E row \in rows :
          /\ rows = {row}
          /\ job' = [job EXCEPT !.pc = "write", !.items = @ \ {p}, !.item = p,
                                !.found = row[1]]
    \/ /\ rows = {}
       /\ job' = [job EXCEPT !.pc = pcIfNone, !.items = @ \ {p}, !.item = p,
                             !.found = None]

\* Mutant: local_tx keeps the row found for the item before.
LookUpByIdKeeping(p) ==
    LET rows == RowsById(p) IN
    /\ job.pc = "next"
    /\ p \in job.items
    /\ listed[p] # {}
    /\ IF "id" \in listed[p] THEN GetOrNone(rows, p, "ref")
       ELSE job' = [job EXCEPT !.pc = IF job.found = None THEN "ref" ELSE "write",
                               !.items = @ \ {p}, !.item = p]
    /\ UNCHANGED <<day, early, nomba, copies, completed, matches, reported, spoilt>>

\* The next item, looked up by its id if it has one ...
LookUpById(p) ==
    /\ job.pc = "next"
    /\ p \in job.items
    /\ listed[p] # {}
    /\ GetOrNone(IF "id" \in listed[p] THEN RowsById(p) ELSE {}, p, "ref")
    /\ UNCHANGED <<day, early, nomba, copies, completed, matches, reported, spoilt>>

\* Mutant: after the warning the audit entry is written all the same.
LookUpByRefFalling ==
    LET p == job.item
        rows == IF "ref" \in listed[p] THEN RowsByRef(p) ELSE {} IN
    /\ job.pc = "ref"
    /\ GetOrNone(rows, p, "write")
    /\ reported' = IF rows = {} THEN reported \union {p} ELSE reported
    /\ UNCHANGED <<day, early, nomba, copies, completed, matches, spoilt>>

\* ... and by its reference otherwise.  When no row has that, it is reported.
LookUpByRef ==
    LET p == job.item
        rows == IF "ref" \in listed[p] THEN RowsByRef(p) ELSE {} IN
    /\ job.pc = "ref"
    /\ GetOrNone(rows, p, "next")
    /\ reported' = IF rows = {} THEN reported \union {p} ELSE reported
    /\ UNCHANGED <<day, early, nomba, copies, completed, matches, spoilt>>

\* ReconciliationLog.create: the row is not compared with the item, nor asked
\* whether it was credited.
WriteMatch ==
    /\ job.pc = "write"
    /\ matches' = [matches EXCEPT ![job.item] =
                     Append(@, [day |-> job.today, row |-> job.found])]
    /\ job' = [job EXCEPT !.pc = "next"]
    /\ UNCHANGED <<day, early, nomba, copies, completed, reported, spoilt>>

CompleteRun ==
    /\ job.pc = "next"
    /\ job.items = {}
    /\ completed' = completed \union {job.today}
    /\ job' = NoJob
    /\ UNCHANGED <<day, early, nomba, copies, matches, reported, spoilt>>

-----------------------------------------------------------------------------

JobStep ==
    \/ ListTransactions \/ ListNothing \/ LookUpByRef \/ WriteMatch \/ CompleteRun
    \/ \E p \in Payment : SkipItem(p) \/ LookUpById(p)

Next ==
    \/ \E p \in Payment : \E keys \in KeysOf[p] : Pay(p, keys)
    \/ \E p \in Payment : RecordPayment(p)
    \/ Midnight \/ Trigger \/ MissTrigger \/ JobStep \/ RunFails

Spec == Init /\ [][Next]_vars

-----------------------------------------------------------------------------

AccountedFor(p) == p \in reported \/ matches[p] # <<>>

\* Payment p was made in the two days the run of day d asks for.
InWindow(p, d) == made[p] # None /\ made[p] <= d /\ d <= made[p] + 1

\* Payments of these two days that have been found here or reported, or that
\* have no key to be found by.
Dealt(d) == {p \in Payment : InWindow(p, d) /\ (listed[p] = {} \/ AccountedFor(p))}

\* Every payment of the day before is dealt with, or else as many of the window
\* as one list holds.
Covered(d) ==
    \/ \A p \in Payment : made[p] # None /\ made[p] + 1 = d => p \in Dealt(d)
    \/ Cardinality(Dealt(d)) >= Limit

\* When the run of a day is complete, and was given a list, each payment of the
\* day before has been found here or reported; a list that was cut off costs no
\* more than the payments beyond its limit.  A run that was given none logs that
\* it is complete and has compared nothing: of it this says nothing.  A payment
\* of the day itself may have come after the list: it is for the next run,
\* which is why the windows overlap.
CompleteRunAccounts == \A d \in completed \ spoilt : Covered(d)

\* An audit entry of the safety net for an item stands for a row here: of that
\* very payment, or else of one with the same reference.
MatchHasRow ==
    \A p \in Payment : \A i \in DOMAIN matches[p] :
        LET q == matches[p][i].row IN
        /\ copies[q] > 0
        /\ q = p \/ ("ref" \in listed[p] \intersect told[q] /\ RefOf[q] = RefOf[p])

\* The overlap of the windows matches a payment at most twice, in two runs.
MatchedTwiceAtMost ==
    \A p \in Payment :
        /\ Len(matches[p]) <= 2
        /\ \A i, j \in DOMAIN matches[p] : matches[p][i].day = matches[p][j].day => i = j

\* A key of p has two rows here, so that looking it up ends the run.
Ambiguous(p) == Cardinality(RowsById(p)) > 1 \/ Cardinality(RowsByRef(p)) > 1

\* The run of day d is over, if there was one.
NightOver(d) == d < day \/ (d = day /\ ~early /\ job.pc = "idle")

\* Once a night is over the payments of the day before are covered, in due time.
\* What spoils a night costs the payments of that day at most: whether the run
\* of another night was missed, failed, given no list or ended by an ambiguous
\* key does not matter.  A night that is spoilt itself is never made up for.
AccountedByNextNight ==
    \A d \in Day : NightOver(d) =>
        \/ Covered(d)
        \/ d \in spoilt
        \/ \E p \in Payment : InWindow(p, d) /\ Ambiguous(p)
=============================================================================
