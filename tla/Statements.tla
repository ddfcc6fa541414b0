----------------------------- MODULE Statements -----------------------------
(***************************************************************************)
(* What a merchant reads while payments are processed: the statement of an *)
(* account (StatementService.get_statement) and its transactions page by   *)
(* page (list_transactions).  Neither reads its tables in one database     *)
(* transaction, so payments are recorded and credited between the reads.   *)
(*                                                                         *)
(* One merchant reads one answer at a time: readers change nothing, so     *)
(* they do not meet each other.                                            *)
(***************************************************************************)
EXTENDS PaymentProcessing, FiniteSetsExt

CONSTANT Limit          \* filters.limit: how many transactions a page may hold

ASSUME LimitAssumption == Limit \in Nat \ {0}

VARIABLES
    listed,     \* listed[c]: transactions of the account of c, newest first
    reader      \* the request under way, or its answer

stmtVars == <<vars, listed, reader>>

Reader ==
    [pc: {"idle", "customer", "transactions", "shown", "count", "fetch", "walked"},
     account: Customer \union {None},
     row: CustomerRow \union {None},    \* account.customer as read
     shown: SUBSET Request,             \* transactions in the answers
     old: Nat,                          \* transactions when the walk began
     page: Nat \ {0},
     total: Nat]                        \* result of count()

NoReader == [pc |-> "idle", account |-> None, row |-> None, shown |-> {},
             old |-> 0, page |-> 1, total |-> 0]

ReaderTypeOK ==
    /\ listed \in [Customer -> Seq(Request)]
    /\ reader \in Reader

StatementsInit ==
    /\ Init
    /\ listed = [c \in Customer |-> <<>>]
    /\ reader = NoReader

\* A new transaction comes first in the order by -created_at.  (Two handlers may
\* commit in the other order than they took their created_at; one handler does
\* not.)
Recorded ==
    listed' = [c \in Customer |->
        LET new == {r \in Request : /\ transaction[r] = None
                                    /\ transaction'[r] # None
                                    /\ transaction'[r].account = c}
        IN  IF new = {} THEN listed[c]
                        ELSE <<CHOOSE r \in new : TRUE>> \o listed[c]]

Reads == UNCHANGED <<vars, listed>>

\* The merchant has no request open.
Free == reader.pc \in {"idle", "shown", "walked"}

-----------------------------------------------------------------------------
(***************************************************************************)
(* get_statement.                                                          *)
(***************************************************************************)

\* An account that does not exist is answered 404.
RequestStatement(c) ==
    /\ Free
    /\ accountStatus[c] # None
    /\ reader' = [NoReader EXCEPT !.pc = "customer", !.account = c]
    /\ Reads

\* fetch_related("customer"): balance and target are of this moment ...
ReadCustomer ==
    /\ reader.pc = "customer"
    /\ reader' = [reader EXCEPT !.pc = "transactions",
                                !.row = customer[reader.account]]
    /\ Reads

\* Mutant: the customer is read after the transactions.
ShowStatementThenCustomer ==
    /\ reader.pc = "transactions"
    /\ \/ /\ reader.row # None
          /\ reader' = [reader EXCEPT !.row = None,
                                      !.shown = Range(listed[reader.account])]
       \/ /\ reader.row = None
          /\ reader' = [reader EXCEPT !.pc = "shown",
                                      !.row = customer[reader.account]]
    /\ Reads

\* ... and the transactions of this one.
ShowStatement ==
    /\ reader.pc = "transactions"
    /\ reader' = [reader EXCEPT !.pc = "shown",
                                !.shown = Range(listed[reader.account])]
    /\ Reads

WalletBalance ==
    SumFunction([r \in Request |->
        IF reader.row.wallet[r] > 0 THEN reader.row.wallet[r] * event[r].amount ELSE 0])

TotalReceived ==
    SumFunction([r \in Request |->
        IF r \in reader.shown /\ transaction[r].status # "misdirected"
        THEN event[r].amount ELSE 0])

-----------------------------------------------------------------------------
(***************************************************************************)
(* list_transactions, asked for page after page.                           *)
(***************************************************************************)

\* Mutant: the first page is page 0.
RequestPageZero(c) ==
    /\ Free
    /\ accountStatus[c] # None
    /\ reader' = [NoReader EXCEPT !.pc = "count", !.account = c,
                                  !.old = Len(listed[c]), !.page = 0]
    /\ Reads

\* The merchant asks for the first page.
RequestList(c) ==
    /\ Free
    /\ accountStatus[c] # None
    /\ reader' = [NoReader EXCEPT !.pc = "count", !.account = c,
                                  !.old = Len(listed[c])]
    /\ Reads

CountTransactions ==
    /\ reader.pc = "count"
    /\ reader' = [reader EXCEPT !.pc = "fetch",
                                !.total = Len(listed[reader.account])]
    /\ Reads

\* The number of pages the answer names: from the count made before the page
\* was fetched.
Pages == IF reader.total = 0 THEN 1 ELSE (reader.total + Limit - 1) \div Limit

\* Mutant: the offset is page * limit.
PageFromNext == {i \in DOMAIN listed[reader.account] :
                    i > reader.page * Limit /\ i <= (reader.page + 1) * Limit}

\* offset((page - 1) * limit).limit(limit)
Page == {i \in DOMAIN listed[reader.account] :
            i > (reader.page - 1) * Limit /\ i <= reader.page * Limit}

\* The page is answered; the merchant asks for the next one, if there is one.
FetchPage ==
    LET shown == reader.shown \union {listed[reader.account][i] : i \in Page} IN
    /\ reader.pc = "fetch"
    /\ \/ /\ reader.page < Pages
          /\ reader' = [reader EXCEPT !.pc = "count", !.page = @ + 1,
                                      !.shown = shown]
       \/ /\ reader.page >= Pages
          /\ reader' = [reader EXCEPT !.pc = "walked", !.shown = shown]
    /\ Reads

-----------------------------------------------------------------------------

Read ==
    \/ \E c \in Customer : RequestStatement(c) \/ RequestList(c)
    \/ ReadCustomer \/ ShowStatement \/ CountTransactions \/ FetchPage

\* A payment is processed a step further while the request waits.
ProcessingStep ==
    /\ \/ Environment
       \/ \E h \in Handler : HandlerStep(h) \/ DatabaseError(h)
    /\ Recorded
    /\ UNCHANGED reader

\* The request ends with the process, and the merchant begins again.
RestartReading ==
    /\ Restart
    /\ reader' = NoReader
    /\ UNCHANGED listed

StatementsNext == Read \/ ProcessingStep \/ RestartReading

StatementsSpec == StatementsInit /\ [][StatementsNext]_stmtVars

-----------------------------------------------------------------------------

\* A statement never shows a balance that its own transactions do not explain:
\* each payment in the balance is among the transactions, once, and adds to
\* total_received unless it is of zero.  It rests on the order of two reads
\* here (customer first) and of two writes there (transaction first), and on
\* saves of stale rows inventing nothing (get_statement, process_payment).
StatementCovers ==
    reader.pc = "shown" =>
        \A r \in Request : reader.row.wallet[r] > 0 =>
            /\ reader.row.wallet[r] = 1
            /\ r \in reader.shown
            /\ transaction[r].status = "misdirected" => event[r].amount = 0

\* The figures told of one balance agree: the amounts a statement lists as
\* received leave no more to pay than its outstanding balance; and the progress
\* that the answers about the customer give for the same balance reads 100.0 just
\* when less than one part in 20000 of the target is due: it may do so while the
\* status says Underpayment, but never for more than that (get_statement,
\* build_customer_response).
FiguresAgree ==
    (reader.pc = "shown" /\ reader.row.target # None) =>
        LET target == reader.row.target
            due    == OutstandingBalance(WalletBalance, target) IN
        /\ due + TotalReceived >= target
        /\ CustomerStatus(WalletBalance, target) = "Underpayment" => due > 0
        /\ \A p \in ProgressPercentage(WalletBalance, target) :
              /\ p = 10000 => 20000 * due <= target
              /\ 20000 * due < target => p = 10000

\* A walk through the pages shows the transactions there were when it began
\* from the newest on, skipping none, whatever is recorded meanwhile; and at its
\* end it lacks at most as many of the oldest as were recorded between count
\* and fetch of its last page.  (It may show one twice.)
WalkSkipsNothing ==
    [][reader.pc = "fetch" /\ reader'.pc \in {"count", "walked"} =>
        LET list   == listed[reader.account]
            missed == {i \in DOMAIN list : /\ i > Len(list) - reader.old
                                          /\ list[i] \notin reader'.shown}
        IN  /\ \A i \in missed, j \in DOMAIN list : j > i => list[j] \notin reader'.shown
            /\ reader'.pc = "walked" => Cardinality(missed) <= Len(list) - reader.total
      ]_stmtVars
=============================================================================
