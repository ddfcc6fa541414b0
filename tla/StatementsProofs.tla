-------------------------- MODULE StatementsProofs --------------------------
(***************************************************************************)
(* Theorems about what a merchant is shown while payments are processed:   *)
(* that balance, transactions and figures of a statement agree, and that   *)
(* a walk through the pages skips nothing.                                 *)
(***************************************************************************)
EXTENDS SettlementProofs, Statements, FiniteSetTheorems

\* Every transaction of an account is in its list.
ListedAll ==
    \A c \in Customer, r \in Request :
        (transaction[r] # None /\ transaction[r].account = c) =>
            \E i \in DOMAIN listed[c] : listed[c][i] = r

\* A payment in this balance of c has its transaction, which counts as
\* received unless it is of zero.
Explained(row, c) ==
    \A r \in Request : row.wallet[r] > 0 =>
        /\ row.wallet[r] = 1
        /\ transaction[r] # None /\ transaction[r].account = c
        /\ transaction[r].status = "misdirected" => event[r].amount = 0

\* What the reader holds at each point of get_statement.
ReaderOK ==
    /\ reader.pc # "idle" => reader.account \in Customer
    /\ reader.pc \in {"transactions", "shown"} =>
          /\ reader.row \in CustomerRow
          /\ Explained(reader.row, reader.account)
    /\ reader.pc = "shown" =>
          \A r \in Request : reader.row.wallet[r] > 0 => r \in reader.shown

StatementInv == SettleInv /\ ReaderTypeOK /\ ListedAll /\ ReaderOK

\* Reading changes nothing, and processing goes on as without a reader.
LEMMA StepIsNext == [StatementsNext]_stmtVars => [Next]_vars
BY DEF StatementsNext, stmtVars, Read, RequestStatement, ReadCustomer, ShowStatement,
       RequestList, CountTransactions, FetchPage, Reads, ProcessingStep, RestartReading,
       Next, Fault

LEMMA StatementInit == StatementsInit => StatementInv
<1> SUFFICES ASSUME StatementsInit PROVE StatementInv
  OBVIOUS
<1>1. SettleInv
  BY SettleInit DEF StatementsInit
<1>2. ReaderTypeOK
  BY DEF StatementsInit, ReaderTypeOK, Reader, NoReader
<1>3. ListedAll
  BY DEF StatementsInit, Init, ListedAll
<1>4. ReaderOK
  BY DEF StatementsInit, NoReader, ReaderOK
<1> QED BY <1>1, <1>2, <1>3, <1>4 DEF StatementInv

\* A stored balance is explained: it is backed, and holds nothing that was
\* judged misdirected but a payment of zero.
LEMMA BalanceExplained ==
    ASSUME SettleInv, NEW c \in Customer
    PROVE  customer[c] \in CustomerRow /\ Explained(customer[c], c)
<1>1. customer[c] \in CustomerRow
  BY DEF SettleInv, LedgerInv, WalletInv, TypeInv, TypeOK
<1> SUFFICES ASSUME NEW r \in Request, customer[c].wallet[r] > 0
             PROVE  /\ customer[c].wallet[r] = 1
                    /\ transaction[r] # None /\ transaction[r].account = c
                    /\ transaction[r].status = "misdirected" => event[r].amount = 0
  BY <1>1 DEF Explained
<1>2. /\ customer[c].wallet[r] = 1
      /\ transaction[r] # None /\ transaction[r].account = c
  BY DEF SettleInv, LedgerInv, WalletInv, Backed
<1>3. customer[c].wallet[r] # 0
  BY <1>2
<1>4. transaction[r].status = "misdirected" => event[r].amount = 0
  BY <1>2, <1>3 DEF SettleInv, MisdirectedUncounted, Uncounted
<1> QED BY <1>2, <1>4

\* Records only grow, so what a balance rested on when it was read stands.
LEMMA ExplainedStays ==
    ASSUME SettleInv, [Next]_vars, NEW row, NEW c, Explained(row, c)
    PROVE  Explained(row, c)'
<1>1. \A r \in Request : transaction[r] # None => transaction'[r] = transaction[r]
  BY RecordsGrow DEF SettleInv, LedgerInv, WalletInv
<1>2. \A r \in Request : transaction[r] # None => event'[r] = event[r]
  BY RecordsGrow DEF SettleInv, LedgerInv, WalletInv, TransactionFirst
<1> QED BY <1>1, <1>2 DEF Explained

\* A step adds one transaction at most.
LEMMA OneAtATime ==
    ASSUME SettleInv, [Next]_vars
    PROVE  \/ UNCHANGED transaction
           \/ \E r \in Request : \A q \in Request : q # r => transaction'[q] = transaction[q]
<1>1. ASSUME NEW h \in Handler, CreateTransaction(h)
      PROVE  \/ UNCHANGED transaction
             \/ \E r \in Request : \A q \in Request : q # r => transaction'[q] = transaction[q]
  <2>1. handler[h].request \in Request
    BY <1>1, HandlerType DEF SettleInv, LedgerInv, WalletInv, CreateTransaction
  <2> QED BY <1>1, <2>1 DEF CreateTransaction, SettleInv, LedgerInv, WalletInv, TypeInv, TypeOK
<1>2. UNCHANGED transaction \/ \E h \in Handler : CreateTransaction(h)
  BY DEF Next, Environment, Fault, HandlerStep, vars, tables, NombaEvent, Deliver,
         Simulate, Register, OpenAccount, SetAccountStatus, CheckProcessed,
         FindByNumber, FindByReference, FetchCustomer,
         CreditWallet, WriteSuspense, WriteAudit, LoadHooks, PostHook,
         RecordProcessed, DatabaseError, Restart
<1> QED BY <1>1, <1>2

\* The list gets what is recorded, and keeps what it had.
LEMMA RecordedLists ==
    ASSUME StatementInv, [Next]_vars, Recorded
    PROVE  listed' \in [Customer -> Seq(Request)] /\ ListedAll'
<1>0. listed \in [Customer -> Seq(Request)]
  BY DEF StatementInv, ReaderTypeOK
<1> DEFINE new(c) == {r \in Request : /\ transaction[r] = None
                                      /\ transaction'[r] # None
                                      /\ transaction'[r].account = c}
<1>1. ASSUME NEW c \in Customer
      PROVE  /\ new(c) = {} => listed'[c] = listed[c]
             /\ new(c) # {} => \E r \in new(c) : listed'[c] = <<r>> \o listed[c]
  BY <1>1 DEF Recorded
<1>2. ASSUME NEW c \in Customer PROVE listed'[c] \in Seq(Request)
  <2>1. listed[c] \in Seq(Request)
    BY <1>0
  <2>2. \A r \in Request : <<r>> \o listed[c] \in Seq(Request)
    BY <2>1
  <2>3. new(c) \subseteq Request
    OBVIOUS
  <2> HIDE DEF new
  <2> QED BY <1>1, <2>1, <2>2, <2>3
<1>3. listed' = [c \in Customer |-> listed'[c]]
  BY DEF Recorded
<1>4. ASSUME NEW c \in Customer, NEW r \in Request, NEW i \in DOMAIN listed[c]
      PROVE  /\ i + 1 \in DOMAIN (<<r>> \o listed[c])
             /\ (<<r>> \o listed[c])[i + 1] = listed[c][i]
  BY <1>0, <1>4
<1>5. ASSUME NEW c \in Customer, NEW r \in Request,
             \E i \in DOMAIN listed[c] : listed[c][i] = r
      PROVE  \E i \in DOMAIN listed'[c] : listed'[c][i] = r
  <2>1. PICK i \in DOMAIN listed[c] : listed[c][i] = r
    BY <1>5
  <2>2. CASE listed'[c] = listed[c]
    BY <2>1, <2>2
  <2>3. CASE \E q \in Request : listed'[c] = <<q>> \o listed[c]
    BY <1>4, <2>1, <2>3
  <2>4. new(c) \subseteq Request
    OBVIOUS
  <2> HIDE DEF new
  <2> QED BY <1>1, <2>2, <2>3, <2>4
<1>6. ASSUME NEW c \in Customer, NEW r \in new(c)
      PROVE  \E i \in DOMAIN listed'[c] : listed'[c][i] = r
  <2>1. \A q \in new(c) : q = r
    BY <1>6, OneAtATime DEF StatementInv
  <2>2. listed'[c] = <<r>> \o listed[c]
    BY <1>1, <1>6, <2>1
  <2>3. 1 \in DOMAIN (<<r>> \o listed[c]) /\ (<<r>> \o listed[c])[1] = r
    BY <1>0
  <2> QED BY <2>2, <2>3
<1>7. ListedAll'
  <2> SUFFICES ASSUME NEW c \in Customer, NEW r \in Request,
                      transaction'[r] # None, transaction'[r].account = c
               PROVE  \E i \in DOMAIN listed'[c] : listed'[c][i] = r
    BY DEF ListedAll
  <2>1. CASE transaction[r] = None
    BY <1>6, <2>1
  <2>2. CASE transaction[r] # None
    <3>1. transaction'[r] = transaction[r]
      BY <2>2, RecordsGrow DEF StatementInv, SettleInv, LedgerInv, WalletInv
    <3> QED BY <1>5, <2>2, <3>1 DEF StatementInv, ListedAll
  <2> QED BY <2>1, <2>2
<1> QED BY <1>2, <1>3, <1>7

\* While a payment is processed, the reader keeps what it has read.
LEMMA ProcessingKeeps ==
    ASSUME StatementInv, ProcessingStep \/ UNCHANGED stmtVars \/ RestartReading
    PROVE  ReaderTypeOK' /\ ListedAll' /\ ReaderOK'
<1>1. [Next]_vars
  BY StepIsNext DEF StatementsNext
<1>2. listed' \in [Customer -> Seq(Request)] /\ ListedAll'
  <2>1. CASE ProcessingStep
    BY <1>1, <2>1, RecordedLists DEF ProcessingStep
  <2>2. CASE UNCHANGED <<transaction, listed>>
    BY <2>2 DEF StatementInv, ReaderTypeOK, ListedAll
  <2> QED BY <2>1, <2>2 DEF stmtVars, vars, tables, RestartReading, Restart
<1>3. CASE reader' = reader
  <2>1. ReaderOK'
    BY <1>1, <1>3, ExplainedStays DEF StatementInv, ReaderOK
  <2> QED BY <1>2, <1>3, <2>1 DEF StatementInv, ReaderTypeOK
<1>4. CASE reader' = NoReader
  BY <1>2, <1>4 DEF NoReader, Reader, ReaderTypeOK, ReaderOK
<1> QED BY <1>3, <1>4 DEF ProcessingStep, stmtVars, RestartReading

\* The steps of the reader.
LEMMA ReadKeeps ==
    ASSUME StatementInv, Read
    PROVE  ReaderTypeOK' /\ ListedAll' /\ ReaderOK'
<1> DEFINE c == reader.account
<1>0. /\ reader \in Reader /\ listed \in [Customer -> Seq(Request)]
      /\ UNCHANGED <<vars, listed>>
  BY DEF StatementInv, ReaderTypeOK, Read, RequestStatement, ReadCustomer, ShowStatement,
         RequestList, CountTransactions, FetchPage, Reads
<1>1. ListedAll' /\ listed' \in [Customer -> Seq(Request)]
  BY <1>0 DEF StatementInv, ListedAll, vars, tables
<1>2. UNCHANGED <<customer, event, transaction>>
  BY <1>0 DEF vars, tables
<1> SUFFICES reader' \in Reader /\ ReaderOK'
  BY <1>1 DEF ReaderTypeOK
<1>3. ASSUME NEW a \in Customer PROVE Len(listed[a]) \in Nat
  BY <1>0
<1>4. ASSUME NEW a \in Customer, RequestStatement(a) \/ RequestList(a)
      PROVE  reader' \in Reader /\ ReaderOK'
  <2>1. NoReader \in Reader
    BY DEF NoReader, Reader
  <2>2. reader' \in Reader /\ reader'.pc \in {"customer", "count"} /\ reader'.account = a
    BY <1>3, <1>4, <2>1 DEF RequestStatement, RequestList, Reader
  <2> QED BY <2>2 DEF ReaderOK
<1>5. CASE ReadCustomer
  <2>1. c \in Customer
    BY <1>5 DEF StatementInv, ReaderOK, ReadCustomer
  <2>2. customer[c] \in CustomerRow /\ Explained(customer[c], c)
    BY <2>1, BalanceExplained DEF StatementInv
  <2>3. /\ reader' \in Reader /\ reader'.pc = "transactions"
        /\ reader'.account = c /\ reader'.row = customer[c]
    BY <1>0, <1>5, <2>2 DEF ReadCustomer, Reader
  <2>4. Explained(reader.row, reader.account)'
    BY <1>2, <2>2, <2>3 DEF Explained
  <2> QED BY <2>1, <2>2, <2>3, <2>4 DEF ReaderOK
<1>6. CASE ShowStatement
  <2>1. c \in Customer /\ reader.row \in CustomerRow /\ Explained(reader.row, c)
    BY <1>6 DEF StatementInv, ReaderOK, ShowStatement
  <2>2. Range(listed[c]) \subseteq Request
    BY <1>0, <2>1 DEF Range
  <2>3. /\ reader' \in Reader /\ reader'.pc = "shown"
        /\ reader'.account = c /\ reader'.row = reader.row
        /\ reader'.shown = Range(listed[c])
    BY <1>0, <1>6, <2>2 DEF ShowStatement, Reader
  <2>4. ASSUME NEW r \in Request, reader.row.wallet[r] > 0
        PROVE  r \in Range(listed[c])
    BY <2>1, <2>4 DEF StatementInv, ListedAll, Explained, Range
  <2>5. Explained(reader.row, reader.account)'
    BY <1>2, <2>1, <2>3 DEF Explained
  <2> QED BY <2>1, <2>3, <2>4, <2>5 DEF ReaderOK
<1>7. CASE CountTransactions \/ FetchPage
  <2>1. c \in Customer
    BY <1>7 DEF StatementInv, ReaderOK, CountTransactions, FetchPage
  <2>2. {listed[c][i] : i \in Page} \subseteq Request
    BY <1>0, <2>1 DEF Page
  <2>3. /\ reader' \in Reader
        /\ reader'.pc \in {"fetch", "count", "walked"} /\ reader'.account = c
    <3>1. CASE CountTransactions
      BY <1>0, <1>3, <2>1, <3>1 DEF CountTransactions, Reader
    <3>2. CASE FetchPage
      <4> DEFINE shown == reader.shown \union {listed[c][i] : i \in Page}
      <4>1. shown \subseteq Request
        BY <1>0, <2>2 DEF Reader
      <4>2. \/ reader' = [reader EXCEPT !.pc = "count", !.page = @ + 1, !.shown = shown]
            \/ reader' = [reader EXCEPT !.pc = "walked", !.shown = shown]
        BY <3>2 DEF FetchPage
      <4> HIDE DEF shown
      <4>3. reader.page + 1 \in Nat \ {0}
        BY <1>0 DEF Reader
      <4> QED BY <1>0, <4>1, <4>2, <4>3 DEF Reader
    <3> QED BY <1>7, <3>1, <3>2
  <2> QED BY <2>1, <2>3 DEF ReaderOK
<1> QED BY <1>4, <1>5, <1>6, <1>7 DEF Read

LEMMA StatementStep == StatementInv /\ [StatementsNext]_stmtVars => StatementInv'
<1> SUFFICES ASSUME StatementInv, [StatementsNext]_stmtVars PROVE StatementInv'
  OBVIOUS
<1>1. SettleInv'
  BY StepIsNext, SettleStep DEF StatementInv
<1> QED BY <1>1, ProcessingKeeps, ReadKeeps DEF StatementInv, StatementsNext

LEMMA StatementInvariant == StatementsSpec => []StatementInv
BY StatementInit, StatementStep, PTL DEF StatementsSpec

\* The list and the reader hold values of their types.
THEOREM ReaderTypeCorrect == StatementsSpec => []ReaderTypeOK
<1>1. StatementInv => ReaderTypeOK
  BY DEF StatementInv
<1> QED BY <1>1, StatementInvariant, PTL

\* However the two reads of a statement fall between the writes of any number
\* of handlers, its balance is explained by its own transactions
\* (get_statement).
THEOREM StatementsCover == StatementsSpec => []StatementCovers
<1>1. StatementInv => StatementCovers
  BY DEF StatementInv, ReaderOK, Explained, StatementCovers
<1> QED BY <1>1, StatementInvariant, PTL

-----------------------------------------------------------------------------
(***************************************************************************)
(* The walk through the pages.                                             *)
(***************************************************************************)

\* A list holds recorded transactions, each of them once.
ListedOnce ==
    \A c \in Customer : \A i \in DOMAIN listed[c] :
        /\ transaction[listed[c][i]] # None
        /\ \A j \in DOMAIN listed[c] : listed[c][i] = listed[c][j] => i = j

List == listed[reader.account]

\* The k-th of the transactions there were when the walk began: those recorded
\* since come before it.
OldItem(k) == List[Len(List) - reader.old + k]

\* Of these the walk has shown the m newest, and no other: all of them, or
\* those on the pages it has asked for, in today's numbering.
HasShown(m) ==
    /\ \A k \in 1 .. reader.old : OldItem(k) \in reader.shown <=> k <= m
    /\ m = reader.old \/ m + Len(List) >= (reader.page - 1) * Limit + reader.old

WalkOK ==
    reader.pc \in {"count", "fetch"} =>
        /\ reader.old <= Len(List)
        /\ reader.pc = "fetch" => reader.total <= Len(List)
        /\ \E m \in 0 .. reader.old : HasShown(m)

WalkInv == ListedOnce /\ WalkOK

\* A list stays, or gets one transaction more, which nobody had recorded.
LEMMA ListGrows ==
    ASSUME StatementInv, [Next]_vars, Recorded, NEW c \in Customer
    PROVE  \/ listed'[c] = listed[c]
           \/ \E r \in Request : /\ transaction[r] = None /\ transaction'[r] # None
                                 /\ listed'[c] = <<r>> \o listed[c]
<1> DEFINE new == {r \in Request : /\ transaction[r] = None
                                   /\ transaction'[r] # None
                                   /\ transaction'[r].account = c}
<1>1. \/ listed'[c] = listed[c]
      \/ new # {} /\ listed'[c] = <<CHOOSE r \in new : TRUE>> \o listed[c]
  BY DEF Recorded
<1>2. new # {} => (CHOOSE r \in new : TRUE) \in new
  OBVIOUS
<1>3. \A r \in new : r \in Request /\ transaction[r] = None /\ transaction'[r] # None
  OBVIOUS
<1> HIDE DEF new
<1> QED BY <1>1, <1>2, <1>3

\* What comes before a sequence shifts it.
LEMMA Shifted ==
    ASSUME NEW S, NEW s \in Seq(S), NEW r \in S
    PROVE  /\ <<r>> \o s \in Seq(S) /\ Len(<<r>> \o s) = Len(s) + 1
           /\ (<<r>> \o s)[1] = r
           /\ \A i \in 1 .. Len(s) : (<<r>> \o s)[i + 1] = s[i]
           /\ \A i \in DOMAIN (<<r>> \o s) :
                 i = 1 \/ (i - 1 \in DOMAIN s /\ (<<r>> \o s)[i] = s[i - 1])
<1> DEFINE t == <<r>> \o s
<1>1. /\ t \in Seq(S) /\ Len(t) = Len(s) + 1 /\ Len(s) \in Nat
      /\ DOMAIN t = 1 .. Len(t) /\ DOMAIN s = 1 .. Len(s)
  OBVIOUS
<1>2. t[1] = r
  OBVIOUS
<1>3. ASSUME NEW i \in 1 .. Len(s) PROVE t[i + 1] = s[i]
  BY <1>3
<1>4. ASSUME NEW i \in DOMAIN t, i # 1 PROVE i - 1 \in DOMAIN s /\ t[i] = s[i - 1]
  <2>1. i - 1 \in 1 .. Len(s) /\ (i - 1) + 1 = i
    BY <1>1, <1>4
  <2> HIDE DEF t
  <2> QED BY <1>1, <1>3, <2>1
<1> HIDE DEF t
<1>5. /\ t \in Seq(S) /\ Len(t) = Len(s) + 1 /\ t[1] = r
      /\ \A i \in 1 .. Len(s) : t[i + 1] = s[i]
      /\ \A i \in DOMAIN t : i = 1 \/ (i - 1 \in DOMAIN s /\ t[i] = s[i - 1])
  BY <1>1, <1>2, <1>3, <1>4
<1> QED BY <1>5 DEF t

LEMMA OnceStays ==
    ASSUME StatementInv, ListedOnce, [Next]_vars, Recorded
    PROVE  ListedOnce'
<1>1. ASSUME NEW c \in Customer, NEW i \in DOMAIN listed[c]
      PROVE  /\ listed[c][i] \in Request
             /\ transaction'[listed[c][i]] = transaction[listed[c][i]]
             /\ transaction[listed[c][i]] # None
  <2>1. listed[c][i] \in Request
    BY <1>1 DEF StatementInv, ReaderTypeOK
  <2>2. transaction[listed[c][i]] # None
    BY <1>1 DEF ListedOnce
  <2> QED BY <2>1, <2>2, RecordsGrow DEF StatementInv, SettleInv, LedgerInv, WalletInv
<1> SUFFICES ASSUME NEW c \in Customer, NEW i \in DOMAIN listed'[c]
             PROVE  /\ transaction'[listed'[c][i]] # None
                    /\ \A j \in DOMAIN listed'[c] : listed'[c][i] = listed'[c][j] => i = j
  BY DEF ListedOnce
<1>2. CASE listed'[c] = listed[c]
  BY <1>1, <1>2 DEF ListedOnce
<1>3. ASSUME NEW r \in Request, transaction[r] = None, transaction'[r] # None,
             listed'[c] = <<r>> \o listed[c]
      PROVE  /\ transaction'[listed'[c][i]] # None
             /\ \A j \in DOMAIN listed'[c] : listed'[c][i] = listed'[c][j] => i = j
  <2>1. /\ listed[c] \in Seq(Request)
        /\ listed'[c][1] = r
        /\ \A j \in DOMAIN listed'[c] :
              j = 1 \/ (j - 1 \in DOMAIN listed[c] /\ listed'[c][j] = listed[c][j - 1])
        /\ \A j \in DOMAIN listed'[c] : j \in Nat
    BY <1>3, Shifted DEF StatementInv, ReaderTypeOK
  <2>2. \A j \in DOMAIN listed[c] : listed[c][j] # r
    BY <1>1, <1>3
  <2>3. ASSUME NEW j \in DOMAIN listed'[c], listed'[c][i] = listed'[c][j] PROVE i = j
    <3>1. CASE i = 1 \/ j = 1
      <4>1. \A l \in DOMAIN listed'[c] : listed'[c][l] = r => l = 1
        BY <2>1, <2>2
      <4>2. listed'[c][i] = r /\ listed'[c][j] = r
        BY <2>1, <2>3, <3>1
      <4> QED BY <4>1, <4>2
    <3>2. CASE i # 1 /\ j # 1
      <4>1. /\ i - 1 \in DOMAIN listed[c] /\ j - 1 \in DOMAIN listed[c]
            /\ listed[c][i - 1] = listed[c][j - 1]
        BY <2>1, <2>3, <3>2
      <4>2. i - 1 = j - 1
        BY <4>1 DEF ListedOnce
      <4> QED BY <2>1, <4>2
    <3> QED BY <3>1, <3>2
  <2>4. transaction'[listed'[c][i]] # None
    <3>1. CASE i = 1
      BY <1>3, <2>1, <3>1
    <3>2. CASE i # 1
      <4>1. i - 1 \in DOMAIN listed[c] /\ listed'[c][i] = listed[c][i - 1]
        BY <2>1, <3>2
      <4> QED BY <1>1, <4>1
    <3> QED BY <3>1, <3>2
  <2> QED BY <2>3, <2>4
<1> QED BY <1>2, <1>3, ListGrows

\* A transaction recorded meanwhile moves no old item from its place among them.
LEMMA WalkStays ==
    ASSUME StatementInv, WalkOK, [Next]_vars, Recorded, UNCHANGED reader
    PROVE  WalkOK'
<1> SUFFICES ASSUME reader.pc \in {"count", "fetch"}
             PROVE  WalkOK'
  BY DEF WalkOK
<1> DEFINE c == reader.account
<1>1. c \in Customer /\ listed[c] \in Seq(Request) /\ reader \in Reader
  BY DEF StatementInv, ReaderOK, ReaderTypeOK
<1>2. CASE listed'[c] = listed[c]
  BY <1>2 DEF WalkOK, HasShown, OldItem, List
<1>3. ASSUME NEW r \in Request, listed'[c] = <<r>> \o listed[c] PROVE WalkOK'
  <2> DEFINE n == Len(listed[c])
  <2>1. /\ n \in Nat /\ Len(listed'[c]) = n + 1
        /\ \A i \in 1 .. n : listed'[c][i + 1] = listed[c][i]
    BY <1>1, <1>3, Shifted
  <2>2. /\ reader.old \in Nat /\ reader.total \in Nat
        /\ reader.old <= n
        /\ reader.pc = "fetch" => reader.total <= n
    BY <1>1 DEF Reader, WalkOK, List
  <2>3. PICK m \in 0 .. reader.old : HasShown(m)
    BY DEF WalkOK
  <2>4. ASSUME NEW k \in 1 .. reader.old PROVE OldItem(k)' = OldItem(k)
    <3>1. n - reader.old + k \in 1 .. n /\ n + 1 - reader.old + k = (n - reader.old + k) + 1
      BY <2>1, <2>2, <2>4
    <3>2. listed'[c][n + 1 - reader.old + k] = listed[c][n - reader.old + k]
      BY <2>1, <3>1
    <3>3. OldItem(k) = listed[c][n - reader.old + k]
      BY DEF OldItem, List
    <3>4. OldItem(k)' = listed'[c][Len(listed'[c]) - reader.old + k]
      BY DEF OldItem, List
    <3>5. Len(listed'[c]) - reader.old = n + 1 - reader.old
      BY <2>1, <2>2
    <3> HIDE DEF n
    <3> QED BY <3>2, <3>3, <3>4, <3>5
  <2>5. (reader.page - 1) * Limit \in Int
    BY <1>1, LimitAssumption DEF Reader
  <2> HIDE DEF n
  <2>6. Len(List) = n /\ Len(List)' = n + 1
    BY <2>1 DEF List, n
  <2>7. HasShown(m)'
    BY <2>1, <2>2, <2>3, <2>4, <2>5, <2>6 DEF HasShown
  <2> QED BY <2>1, <2>2, <2>6, <2>7 DEF WalkOK
<1> QED BY <1>1, <1>2, <1>3, ListGrows

\* As many pages as the answer names hold all it counted.
LEMMA PagesSuffice ==
    ASSUME reader \in Reader, reader.page >= Pages
    PROVE  reader.page * Limit >= reader.total
<1> DEFINE t == reader.total
           p == reader.page
           q == (t + Limit - 1) \div Limit
<1>1. t \in Nat /\ p \in Nat \ {0} /\ Limit \in Nat \ {0}
  BY LimitAssumption DEF Reader
<1>2. CASE t = 0
  BY <1>1, <1>2
<1>3. CASE t # 0
  <2>1. p >= q
    BY <1>3 DEF Pages
  <2> HIDE DEF t, p
  <2>2. /\ q \in Int /\ Limit * q + ((t + Limit - 1) % Limit) = t + Limit - 1
        /\ (t + Limit - 1) % Limit <= Limit - 1
    BY <1>1
  <2> HIDE DEF q
  <2>3. Limit * q >= t
    BY <1>1, <2>2
  <2>4. p * Limit >= Limit * q
    BY <1>1, <2>1, <2>2
  <2> QED BY <1>1, <2>2, <2>3, <2>4 DEF t, p
<1> QED BY <1>2, <1>3

\* With its next page the walk has shown more of the old ones, still from the
\* newest on.
LEMMA PageShows ==
    ASSUME StatementInv, WalkInv, FetchPage
    PROVE  \E m \in 0 .. reader.old :
              /\ \A k \in 1 .. reader.old : OldItem(k) \in reader'.shown <=> k <= m
              /\ m = reader.old \/ m + Len(List) >= reader.page * Limit + reader.old
<1> DEFINE c == reader.account
           n == Len(List)
           old == reader.old
           lo == (reader.page - 1) * Limit
           hi == reader.page * Limit
<1>1. reader.pc = "fetch" /\ c \in Customer /\ List \in Seq(Request) /\ reader \in Reader
  BY DEF StatementInv, ReaderOK, ReaderTypeOK, FetchPage, List
<1>2. /\ n \in Nat /\ old \in Nat /\ lo \in Int /\ hi \in Int /\ lo <= hi /\ old <= n
      /\ DOMAIN List = 1 .. n
  BY <1>1, LimitAssumption DEF Reader, WalkInv, WalkOK
<1>3. reader'.shown = reader.shown \union {List[i] : i \in Page}
  BY <1>1 DEF FetchPage, Reader, List
<1>4. PICK m \in 0 .. old : HasShown(m)
  BY <1>1 DEF WalkInv, WalkOK
<1>5. Page = {i \in 1 .. n : i > lo /\ i <= hi}
  BY <1>2 DEF Page, List
<1>6. ASSUME NEW k \in 1 .. old
      PROVE  OldItem(k) \in reader'.shown <=> k <= m \/ (n - old + k > lo /\ n - old + k <= hi)
  <2> DEFINE i == n - old + k
  <2>1. i \in 1 .. n /\ OldItem(k) = List[i]
    BY <1>2 DEF OldItem
  <2>2. (List[i] \in {List[j] : j \in Page}) <=> i \in Page
    <3>1. \A j \in 1 .. n : List[i] = List[j] => i = j
      BY <1>1, <1>2, <2>1 DEF WalkInv, ListedOnce, List
    <3> QED BY <1>5, <3>1
  <2>3. OldItem(k) \in reader.shown <=> k <= m
    BY <1>4 DEF HasShown
  <2> QED BY <1>3, <1>5, <2>1, <2>2, <2>3
<1>7. m = old \/ m + n >= lo + old
  BY <1>4 DEF HasShown
<1> HIDE DEF n, old, lo, hi
<1> DEFINE top == IF hi + old - n <= old THEN hi + old - n ELSE old
           next == IF m >= top THEN m ELSE top
<1>8. next \in 0 .. old /\ (next = old \/ next + n >= hi + old)
  BY <1>2
<1>9. \A k \in 1 .. old : (k <= m \/ (n - old + k > lo /\ n - old + k <= hi)) <=> k <= next
  BY <1>2, <1>7
<1> HIDE DEF next
<1> QED BY <1>6, <1>8, <1>9 DEF n, old, hi

LEMMA WalkRead ==
    ASSUME StatementInv, WalkInv, Read
    PROVE  WalkInv'
<1>0. reader \in Reader /\ listed \in [Customer -> Seq(Request)] /\ UNCHANGED <<vars, listed>>
  BY DEF StatementInv, ReaderTypeOK, Read, RequestStatement, ReadCustomer, ShowStatement,
         RequestList, CountTransactions, FetchPage, Reads
<1>1. ListedOnce'
  BY <1>0 DEF WalkInv, ListedOnce, vars, tables
<1> SUFFICES WalkOK'
  BY <1>1 DEF WalkInv
<1>2. ASSUME NEW a \in Customer, RequestStatement(a) \/ RequestList(a) PROVE WalkOK'
  <2>1. CASE RequestStatement(a)
    BY <2>1 DEF RequestStatement, NoReader, WalkOK
  <2>2. CASE RequestList(a)
    <3> DEFINE n == Len(listed[a])
    <3>1. n \in Nat
      BY <1>0
    <3>2. /\ reader'.pc = "count" /\ reader'.account = a /\ reader'.old = n
          /\ reader'.shown = {} /\ reader'.page = 1
      BY <2>2 DEF RequestList, NoReader
    <3>3. Len(List)' = n
      BY <1>0, <3>2 DEF List
    <3> HIDE DEF n
    <3>4. HasShown(0)'
      BY <3>1, <3>2, <3>3, LimitAssumption DEF HasShown
    <3> QED BY <3>1, <3>2, <3>3, <3>4 DEF WalkOK
  <2> QED BY <1>2, <2>1, <2>2
<1>3. CASE ReadCustomer \/ ShowStatement
  <2>1. reader'.pc \in {"transactions", "shown"}
    BY <1>0, <1>3 DEF ReadCustomer, ShowStatement, Reader
  <2> QED BY <2>1 DEF WalkOK
<1>4. CASE CountTransactions
  <2>1. /\ reader.pc = "count" /\ reader'.pc = "fetch" /\ reader'.account = reader.account
        /\ reader'.old = reader.old /\ reader'.shown = reader.shown
        /\ reader'.page = reader.page /\ reader'.total = Len(List)
    BY <1>0, <1>4 DEF CountTransactions, Reader, List
  <2>2. reader.account \in Customer /\ Len(List) \in Nat
    BY <1>0, <2>1 DEF StatementInv, ReaderOK, List
  <2>3. List' = List
    BY <1>0, <2>1 DEF List
  <2> QED BY <2>1, <2>2, <2>3 DEF WalkInv, WalkOK, HasShown, OldItem
<1>5. CASE FetchPage
  <2>1. List' = List /\ reader'.old = reader.old
        /\ \/ reader'.pc = "count" /\ reader'.page = reader.page + 1
           \/ reader'.pc = "walked"
    BY <1>0, <1>5 DEF FetchPage, Reader, List
  <2>2. reader.pc = "fetch" /\ reader.page \in Nat
    BY <1>0, <1>5 DEF FetchPage, Reader
  <2>3. ASSUME reader'.pc = "count", reader'.page = reader.page + 1 PROVE WalkOK'
    <3>1. PICK m \in 0 .. reader.old :
             /\ \A k \in 1 .. reader.old : OldItem(k) \in reader'.shown <=> k <= m
             /\ m = reader.old \/ m + Len(List) >= reader.page * Limit + reader.old
      BY <1>5, PageShows
    <3>2. reader'.page - 1 = reader.page
      BY <2>2, <2>3
    <3>3. HasShown(m)'
      BY <2>1, <3>1, <3>2 DEF HasShown, OldItem
    <3> QED BY <2>1, <2>2, <2>3, <3>3 DEF WalkInv, WalkOK
  <2>4. CASE reader'.pc = "walked"
    BY <2>4 DEF WalkOK
  <2> QED BY <2>1, <2>3, <2>4
<1> QED BY <1>2, <1>3, <1>4, <1>5 DEF Read

LEMMA WalkStep == StatementInv /\ WalkInv /\ [StatementsNext]_stmtVars => WalkInv'
<1> SUFFICES ASSUME StatementInv, WalkInv, [StatementsNext]_stmtVars PROVE WalkInv'
  OBVIOUS
<1>1. CASE ProcessingStep
  BY <1>1, StepIsNext, OnceStays, WalkStays DEF ProcessingStep, StatementsNext, WalkInv
<1>2. CASE UNCHANGED stmtVars
  BY <1>2 DEF WalkInv, ListedOnce, WalkOK, HasShown, OldItem, List, stmtVars, vars, tables
<1>3. CASE RestartReading
  BY <1>3 DEF RestartReading, Restart, tables, NoReader, WalkInv, ListedOnce, WalkOK
<1> QED BY <1>1, <1>2, <1>3, WalkRead DEF StatementsNext

\* What the walk lacks is the end of the list.
LEMMA WalkShows ==
    ASSUME StatementInv, WalkInv, FetchPage
    PROVE  LET missed == {i \in DOMAIN List : /\ i > Len(List) - reader.old
                                              /\ List[i] \notin reader'.shown}
           IN  /\ \A i \in missed, j \in DOMAIN List : j > i => List[j] \notin reader'.shown
               /\ reader'.pc = "walked" => Cardinality(missed) <= Len(List) - reader.total
<1> DEFINE n == Len(List)
           old == reader.old
           missed == {i \in DOMAIN List : i > n - old /\ List[i] \notin reader'.shown}
<1>1. reader.pc = "fetch" /\ reader \in Reader /\ List \in Seq(Request)
  BY DEF StatementInv, ReaderOK, ReaderTypeOK, FetchPage, List
<1>2. /\ n \in Nat /\ old \in Nat /\ old <= n /\ reader.total \in Nat /\ reader.total <= n
      /\ DOMAIN List = 1 .. n
  BY <1>1 DEF Reader, WalkInv, WalkOK
<1>3. PICK m \in 0 .. old :
         /\ \A k \in 1 .. old : OldItem(k) \in reader'.shown <=> k <= m
         /\ m = old \/ m + n >= reader.page * Limit + old
  BY PageShows
<1>4. ASSUME NEW i \in 1 .. n, i > n - old
      PROVE  List[i] \in reader'.shown <=> i <= n - old + m
  <2> DEFINE k == i - (n - old)
  <2>1. k \in 1 .. old /\ n - old + k = i
    BY <1>2, <1>4
  <2>2. OldItem(k) = List[i]
    BY <2>1 DEF OldItem
  <2>3. List[i] \in reader'.shown <=> k <= m
    BY <1>3, <2>1, <2>2
  <2> QED BY <1>2, <2>1, <2>3
<1> HIDE DEF n, old
<1>5. missed = (n - old + m + 1) .. n
  BY <1>2, <1>4
<1>6. ASSUME NEW i \in missed, NEW j \in DOMAIN List, j > i
      PROVE  List[j] \notin reader'.shown
  BY <1>2, <1>4, <1>5, <1>6
<1>7. ASSUME reader'.pc = "walked" PROVE Cardinality(missed) <= n - reader.total
  <2>1. reader.page >= Pages
    BY <1>1, <1>7 DEF FetchPage, Reader
  <2>2. reader.page * Limit >= reader.total /\ reader.page * Limit \in Int
    BY <1>1, <2>1, PagesSuffice, LimitAssumption DEF Reader
  <2>3. old - m <= n - reader.total
    BY <1>2, <1>3, <2>2 DEF n, old
  <2>4. Cardinality((n - old + m + 1) .. n) = old - m
    <3>1. n - old + m + 1 \in Int /\ n \in Int
      BY <1>2
    <3>2. Cardinality((n - old + m + 1) .. n)
             = IF n - old + m + 1 > n THEN 0 ELSE n - (n - old + m + 1) + 1
      BY <3>1, FS_Interval
    <3> QED BY <1>2, <3>2
  <2> QED BY <1>5, <2>3, <2>4
<1> QED BY <1>6, <1>7 DEF n, old

LEMMA WalkInvariant == StatementsSpec => []WalkInv
<1>1. StatementsInit => WalkInv
  BY DEF StatementsInit, NoReader, WalkInv, ListedOnce, WalkOK
<1> QED BY <1>1, WalkStep, StatementInvariant, PTL DEF StatementsSpec

\* However many payments are recorded while the merchant turns the pages, the
\* walk skips none of the transactions there were when it began, and lacks at
\* its end only as many of the oldest as came between the last count and the
\* last fetch (list_transactions).
THEOREM WalksSkipNothing == StatementsSpec => WalkSkipsNothing
<1> DEFINE Shows ==
       reader.pc = "fetch" /\ reader'.pc \in {"count", "walked"} =>
          LET list   == listed[reader.account]
              missed == {i \in DOMAIN list : /\ i > Len(list) - reader.old
                                            /\ list[i] \notin reader'.shown}
          IN  /\ \A i \in missed, j \in DOMAIN list : j > i => list[j] \notin reader'.shown
              /\ reader'.pc = "walked" => Cardinality(missed) <= Len(list) - reader.total
<1>1. StatementInv /\ WalkInv /\ [StatementsNext]_stmtVars => [Shows]_stmtVars
  <2> SUFFICES ASSUME StatementInv, WalkInv, StatementsNext,
                      reader.pc = "fetch", reader'.pc \in {"count", "walked"}
               PROVE  Shows
    OBVIOUS
  <2>1. FetchPage
    BY DEF StatementsNext, Read, RequestStatement, RequestList, ReadCustomer, ShowStatement,
           CountTransactions, ProcessingStep, RestartReading, NoReader, Free
  <2> QED BY <2>1, WalkShows DEF List
<1> QED BY <1>1, StatementInvariant, WalkInvariant, PTL DEF StatementsSpec, WalkSkipsNothing

-----------------------------------------------------------------------------
(***************************************************************************)
(* Sums of naturals over a finite set.                                     *)
(***************************************************************************)

\* The element a sum over s takes first.
Pick(s) == CHOOSE x \in s : TRUE

\* g holds the sums of f over every part of S.
SumsUp(f, g, S) ==
    g = [s \in SUBSET S |-> IF s = {} THEN 0 ELSE f[Pick(s)] + g[s \ {Pick(s)}]]

LEMMA PickedLess ==
    ASSUME NEW s, s # {}
    PROVE  Pick(s) \in s /\ s \ {Pick(s)} \subseteq s /\ s \ {Pick(s)} # s
BY DEF Pick

\* A set of finite sets has a smallest one.
LEMMA SmallestSet ==
    ASSUME NEW S, IsFiniteSet(S), NEW T, T \subseteq SUBSET S, T # {}
    PROVE  \E s \in T : \A u \in T : u \subseteq s => u = s
<1>1. T \subseteq FiniteSubsetsOf(S)
  BY FS_Subset DEF FiniteSubsetsOf
<1>2. PICK s \in T : \A u \in T : ~(<<u, s>> \in StrictSubsetOrdering(S))
  BY <1>1, WFMin, FS_StrictSubsetOrderingWellFounded
<1>3. ASSUME NEW u \in T, u \subseteq s, u # s PROVE FALSE
  BY <1>2, <1>3 DEF StrictSubsetOrdering
<1> QED BY <1>3

\* Sums over parts of two sets agree on the parts they share.
LEMMA SumsAgree ==
    ASSUME NEW S, IsFiniteSet(S), NEW f, NEW g, NEW h, NEW u \in SUBSET S, NEW v \in SUBSET S,
           SumsUp(f, g, u), SumsUp(f, h, v)
    PROVE  \A s \in SUBSET (u \intersect v) : g[s] = h[s]
<1> DEFINE T == {s \in SUBSET (u \intersect v) : g[s] # h[s]}
<1> SUFFICES ASSUME T # {} PROVE FALSE
  OBVIOUS
<1>0. T \subseteq SUBSET S
  OBVIOUS
<1> HIDE DEF T
<1>1. PICK s \in T : \A w \in T : w \subseteq s => w = s
  BY <1>0, SmallestSet
<1> USE DEF T
<1>2. s \in SUBSET u /\ s \in SUBSET v
  OBVIOUS
<1>3. /\ g[s] = IF s = {} THEN 0 ELSE f[Pick(s)] + g[s \ {Pick(s)}]
      /\ h[s] = IF s = {} THEN 0 ELSE f[Pick(s)] + h[s \ {Pick(s)}]
  BY <1>2 DEF SumsUp
<1>4. CASE s = {}
  BY <1>1, <1>3, <1>4
<1>5. CASE s # {}
  <2>1. s \ {Pick(s)} \notin T
    BY <1>1, <1>5, PickedLess
  <2>2. g[s \ {Pick(s)}] = h[s \ {Pick(s)}]
    BY <2>1
  <2> QED BY <1>1, <1>3, <1>5, <2>2
<1> QED BY <1>4, <1>5

\* Every part of a finite set has its sums: the recursion is well-founded.
LEMMA SumsExist ==
    ASSUME NEW S, IsFiniteSet(S), NEW f
    PROVE  \E g : SumsUp(f, g, S)
<1> DEFINE T == {s \in SUBSET S : ~ \E g : SumsUp(f, g, s)}
<1> SUFFICES ASSUME T # {} PROVE FALSE
  OBVIOUS
<1>0. T \subseteq SUBSET S
  OBVIOUS
<1> HIDE DEF T
<1>1. PICK s \in T : \A u \in T : u \subseteq s => u = s
  BY <1>0, SmallestSet
<1> USE DEF T
<1> DEFINE of(u) == CHOOSE g : SumsUp(f, g, u)
           val(u) == of(u)[u]
           total(u) == IF u = {} THEN 0 ELSE f[Pick(u)] + val(u \ {Pick(u)})
           G == [u \in SUBSET s |-> total(u)]
<1>2. ASSUME NEW u \in SUBSET s, u # s PROVE SumsUp(f, of(u), u)
  <2>1. \E g : SumsUp(f, g, u)
    BY <1>1, <1>2
  <2> QED BY <2>1
<1> HIDE DEF of
<1>3. ASSUME NEW u \in SUBSET s, u # s PROVE val(u) = total(u)
  <2>1. SumsUp(f, of(u), u)
    BY <1>2, <1>3
  <2>2. val(u) = IF u = {} THEN 0 ELSE f[Pick(u)] + of(u)[u \ {Pick(u)}]
    BY <2>1 DEF SumsUp
  <2>3. CASE u # {}
    <3> DEFINE w == u \ {Pick(u)}
    <3>1. w \in SUBSET s /\ w # s /\ w \subseteq u
      BY <2>3, PickedLess
    <3>2. SumsUp(f, of(w), w)
      BY <1>2, <3>1
    <3>3. of(u)[w] = of(w)[w]
      BY <2>1, <3>1, <3>2, SumsAgree
    <3> QED BY <2>2, <2>3, <3>3
  <2> QED BY <2>2, <2>3
<1> HIDE DEF val
<1>4. ASSUME NEW u \in SUBSET s, u # {}
      PROVE  G[u \ {Pick(u)}] = val(u \ {Pick(u)})
  <2>1. u \ {Pick(u)} \in SUBSET s /\ u \ {Pick(u)} # s
    BY <1>4, PickedLess
  <2>2. G[u \ {Pick(u)}] = total(u \ {Pick(u)})
    BY <2>1
  <2> HIDE DEF total
  <2> QED BY <1>3, <2>1, <2>2
<1>5. SumsUp(f, G, s)
  <2>1. ASSUME NEW u \in SUBSET s
        PROVE  total(u) = IF u = {} THEN 0 ELSE f[Pick(u)] + G[u \ {Pick(u)}]
    BY <1>4, <2>1
  <2>2. G = [u \in SUBSET s |-> IF u = {} THEN 0 ELSE f[Pick(u)] + G[u \ {Pick(u)}]]
    <3>1. \A u \in SUBSET s : total(u) = IF u = {} THEN 0 ELSE f[Pick(u)] + G[u \ {Pick(u)}]
      BY <2>1
    <3> HIDE DEF total
    <3> QED BY <3>1
  <2> QED BY <2>2 DEF SumsUp
<1> QED BY <1>1, <1>5

\* The library's sum is one of these.
LEMMA SumIsPartial ==
    ASSUME NEW S, IsFiniteSet(S), NEW f, DOMAIN f = S
    PROVE  \E g : SumsUp(f, g, S) /\ SumFunction(f) = g[S]
<1> DEFINE g == CHOOSE g : SumsUp(f, g, S)
<1>1. SumsUp(f, g, S)
  BY SumsExist
<1>2. SumFunction(f) = g[S]
  BY DEF SumFunction, SumFunctionOnSet, FoldFunctionOnSet, MapThenFoldSet, SumsUp, Pick
<1> QED BY <1>1, <1>2

\* Sums of naturals are naturals, and the larger the terms, the larger the sum.
LEMMA SumsCompare ==
    ASSUME NEW S, IsFiniteSet(S), NEW f \in [S -> Nat], NEW g \in [S -> Nat],
           \A x \in S : f[x] <= g[x]
    PROVE  SumFunction(f) \in Nat /\ SumFunction(g) \in Nat /\ SumFunction(f) <= SumFunction(g)
<1>1. PICK a : SumsUp(f, a, S) /\ SumFunction(f) = a[S]
  BY SumIsPartial
<1>2. PICK b : SumsUp(g, b, S) /\ SumFunction(g) = b[S]
  BY SumIsPartial
<1> DEFINE T == {s \in SUBSET S : ~(a[s] \in Nat /\ b[s] \in Nat /\ a[s] <= b[s])}
<1>3. CASE T = {}
  BY <1>1, <1>2, <1>3
<1>4. CASE T # {}
  <2>0. T \subseteq SUBSET S
    OBVIOUS
  <2> HIDE DEF T
  <2>1. PICK s \in T : \A u \in T : u \subseteq s => u = s
    BY <1>4, <2>0, SmallestSet
  <2> USE DEF T
  <2> DEFINE x == Pick(s)
             u == s \ {x}
  <2>2. /\ a[s] = IF s = {} THEN 0 ELSE f[x] + a[u]
        /\ b[s] = IF s = {} THEN 0 ELSE g[x] + b[u]
    BY <1>1, <1>2 DEF SumsUp
  <2>3. CASE s = {}
    BY <2>1, <2>2, <2>3
  <2>4. CASE s # {}
    <3>1. x \in S /\ u \in SUBSET S /\ u \notin T
      BY <2>1, <2>4, PickedLess
    <3>2. a[u] \in Nat /\ b[u] \in Nat /\ a[u] <= b[u]
      BY <3>1
    <3>3. f[x] \in Nat /\ g[x] \in Nat /\ f[x] <= g[x]
      BY <3>1
    <3> HIDE DEF x, u
    <3>4. a[s] \in Nat /\ b[s] \in Nat /\ a[s] <= b[s]
      BY <2>2, <2>4, <3>2, <3>3
    <3> QED BY <2>1, <3>4
  <2> QED BY <2>3, <2>4
<1> QED BY <1>3, <1>4

-----------------------------------------------------------------------------
(***************************************************************************)
(* The figures of a statement.                                             *)
(***************************************************************************)

\* A quotient reaches a bound just when the dividend reaches its multiple.
LEMMA QuotientReaches ==
    ASSUME NEW n \in Nat, NEW d \in Nat \ {0}
    PROVE  n \div d \in Nat /\ (n \div d >= 10000 <=> n >= 10000 * d)
<1> DEFINE q == n \div d
           r == n % d
<1>1. q \in Nat /\ r \in Nat /\ r < d /\ n = d * q + r
  OBVIOUS
<1> HIDE DEF q, r
<1>2. q >= 10000 => d * q >= 10000 * d
  BY <1>1
<1>3. q < 10000 => d * q <= 9999 * d
  <2>1. q < 10000 => q <= 9999
    BY <1>1
  <2> QED BY <1>1, <2>1
<1>4. q >= 10000 <=> n >= 10000 * d
  BY <1>1, <1>2, <1>3
<1> QED BY <1>1, <1>4 DEF q

\* The progress reads 100.0 just when what is due is below one part in 20000 of
\* the target, or on one side of a tie (helpers.py).
LEMMA ProgressReadsFull ==
    ASSUME NEW balance \in Nat, NEW target \in Nat,
           NEW p \in ProgressPercentage(balance, target)
    PROVE  LET due == OutstandingBalance(balance, target)
           IN  /\ p = 10000 => 20000 * due <= target
               /\ 20000 * due < target => p = 10000
<1> DEFINE due == OutstandingBalance(balance, target)
           d == 2 * target
           n == 20000 * balance + target
<1>1. target # 0 /\ target # None
  BY DEF ProgressPercentage
<1>2. /\ n \in Nat /\ n - 1 \in Nat /\ d \in Nat \ {0} /\ due \in Nat
      /\ due = IF target > balance THEN target - balance ELSE 0
  BY <1>1 DEF OutstandingBalance
<1>3. PICK m \in {n, n - 1} : p = IF m \div d < 10000 THEN m \div d ELSE 10000
  BY <1>1 DEF ProgressPercentage
<1>4. m \div d \in Nat /\ (m \div d >= 10000 <=> m >= 10000 * d)
  BY <1>2, <1>3, QuotientReaches
<1>5. p = 10000 <=> m >= 10000 * d
  BY <1>3, <1>4
<1>6. m >= 10000 * d => 20000 * due <= target
  BY <1>1, <1>2, <1>3
<1>7. 20000 * due < target => m >= 10000 * d
  BY <1>1, <1>2, <1>3
<1> QED BY <1>5, <1>6, <1>7

\* What is shown was recorded.
ShownRecorded == \A r \in reader.shown : transaction[r] # None

LEMMA ShownStep ==
    ASSUME StatementInv, WalkInv, ShownRecorded, [StatementsNext]_stmtVars
    PROVE  ShownRecorded'
<1>1. ASSUME NEW r \in Request, transaction[r] # None PROVE transaction'[r] # None
  BY <1>1, RecordsGrow, StepIsNext DEF StatementInv, SettleInv, LedgerInv, WalletInv
<1>2. /\ reader.shown \subseteq Request
      /\ reader.pc # "idle" => \A i \in DOMAIN List : List[i] \in Request /\ transaction[List[i]] # None
  BY DEF StatementInv, ReaderOK, ReaderTypeOK, Reader, WalkInv, ListedOnce, List
<1>3. \/ reader'.shown \subseteq reader.shown
      \/ /\ reader.pc # "idle"
         /\ \A r \in reader'.shown : r \in reader.shown \/ \E i \in DOMAIN List : r = List[i]
  <2>1. reader \in Reader
    BY DEF StatementInv, ReaderTypeOK
  <2>2. CASE ShowStatement
    BY <2>1, <2>2 DEF ShowStatement, Range, List, Reader
  <2>3. CASE FetchPage
    <3> DEFINE page == {List[i] : i \in Page}
    <3>1. reader.pc = "fetch" /\ reader'.shown = reader.shown \union page
      BY <2>1, <2>3 DEF FetchPage, List, Reader
    <3>2. \A r \in page : \E i \in DOMAIN List : r = List[i]
      BY DEF Page, List
    <3> HIDE DEF page
    <3> QED BY <3>1, <3>2
  <2>4. CASE ~ShowStatement /\ ~FetchPage
    <3>1. \/ reader' = reader
          \/ reader' = NoReader
          \/ \E c \in Customer : RequestStatement(c) \/ RequestList(c)
          \/ ReadCustomer \/ CountTransactions
      BY <2>4 DEF StatementsNext, Read, ProcessingStep, RestartReading, stmtVars
    <3>2. \A c \in Customer : RequestStatement(c) \/ RequestList(c) => reader'.shown = {}
      BY DEF RequestStatement, RequestList, NoReader
    <3>3. ReadCustomer \/ CountTransactions => reader'.shown = reader.shown
      BY <2>1 DEF ReadCustomer, CountTransactions, Reader
    <3> QED BY <3>1, <3>2, <3>3 DEF NoReader
  <2> QED BY <2>2, <2>3, <2>4
<1> QED BY <1>1, <1>2, <1>3 DEF ShownRecorded

LEMMA ShownInvariant == StatementsSpec => []ShownRecorded
<1>1. StatementsInit => ShownRecorded
  BY DEF StatementsInit, NoReader, ShownRecorded
<1> QED BY <1>1, ShownStep, StatementInvariant, WalkInvariant, PTL DEF StatementsSpec

\* The balance of a statement is at most the sum of what its transactions
\* received.
LEMMA BalanceCovered ==
    ASSUME IsFiniteSet(Request), StatementInv, ShownRecorded, reader.pc = "shown"
    PROVE  WalletBalance \in Nat /\ TotalReceived \in Nat /\ WalletBalance <= TotalReceived
<1> DEFINE counts == [r \in Request |->
              IF reader.row.wallet[r] > 0 THEN reader.row.wallet[r] * event[r].amount ELSE 0]
           receives == [r \in Request |->
              IF r \in reader.shown /\ transaction[r].status # "misdirected"
              THEN event[r].amount ELSE 0]
<1>1. ASSUME NEW r \in Request, transaction[r] # None PROVE event[r].amount \in Nat
  <2>1. event[r] \in Payload
    BY <1>1 DEF StatementInv, SettleInv, TransactionFirst, LedgerInv, WalletInv, TypeInv, TypeOK
  <2> QED BY <2>1, PayloadAssumption DEF PayloadType
<1>2. ASSUME NEW r \in Request
      PROVE  counts[r] \in Nat /\ receives[r] \in Nat /\ counts[r] <= receives[r]
  <2>1. reader.row.wallet[r] \in Nat
    BY DEF StatementInv, ReaderOK, CustomerRow
  <2>2. receives[r] \in Nat
    BY <1>1 DEF ShownRecorded
  <2>3. CASE reader.row.wallet[r] = 0
    BY <2>2, <2>3
  <2>4. CASE reader.row.wallet[r] > 0
    <3>1. /\ reader.row.wallet[r] = 1 /\ r \in reader.shown /\ transaction[r] # None
          /\ transaction[r].status = "misdirected" => event[r].amount = 0
      BY <2>4 DEF StatementInv, ReaderOK, Explained
    <3>2. event[r].amount \in Nat
      BY <1>1, <3>1
    <3>3. counts[r] = event[r].amount
      BY <2>4, <3>1, <3>2
    <3> QED BY <2>2, <3>1, <3>2, <3>3
  <2> QED BY <2>1, <2>3, <2>4
<1>3. counts \in [Request -> Nat] /\ receives \in [Request -> Nat]
  BY <1>2
<1>4. WalletBalance = SumFunction(counts) /\ TotalReceived = SumFunction(receives)
  BY DEF WalletBalance, TotalReceived
<1> HIDE DEF counts, receives
<1> QED BY <1>2, <1>3, <1>4, SumsCompare

\* Of any number of payments, the outstanding balance of a statement fits the
\* amounts it lists, and the status and the progress told of that balance fit
\* what is outstanding (get_statement, build_customer_response).
THEOREM StatementFiguresAgree ==
    ASSUME IsFiniteSet(Request)
    PROVE  StatementsSpec => []FiguresAgree
<1>1. StatementInv /\ ShownRecorded => FiguresAgree
  <2> SUFFICES ASSUME StatementInv, ShownRecorded, reader.pc = "shown",
                      reader.row.target # None
               PROVE  LET target == reader.row.target
                          due    == OutstandingBalance(WalletBalance, target) IN
                      /\ due + TotalReceived >= target
                      /\ CustomerStatus(WalletBalance, target) = "Underpayment" => due > 0
                      /\ \A p \in ProgressPercentage(WalletBalance, target) :
                            /\ p = 10000 => 20000 * due <= target
                            /\ 20000 * due < target => p = 10000
    BY DEF FiguresAgree
  <2>1. reader.row.target \in Nat
    BY DEF StatementInv, ReaderOK, CustomerRow
  <2>2. WalletBalance \in Nat /\ TotalReceived \in Nat /\ WalletBalance <= TotalReceived
    BY BalanceCovered
  <2>3. OutstandingBalance(WalletBalance, reader.row.target) + TotalReceived
           >= reader.row.target
    BY <2>1, <2>2 DEF OutstandingBalance
  <2>4. CustomerStatus(WalletBalance, reader.row.target) = "Underpayment"
           => OutstandingBalance(WalletBalance, reader.row.target) > 0
    BY <2>1, <2>2 DEF OutstandingBalance, CustomerStatus
  <2> QED BY <2>1, <2>2, <2>3, <2>4, ProgressReadsFull
<1> QED BY <1>1, StatementInvariant, ShownInvariant, PTL
=============================================================================
