--------------------------- MODULE ProfileProofs ---------------------------
(***************************************************************************)
(* Theorems about CustomerProfile.  PATCHes at any moment of the handling  *)
(* of webhooks, any number of both, invent no money and disturb no records *)
(* of payments; they lose a credit only by a save of a row that overlaps   *)
(* another; and while nothing overlaps they do just what they are asked.   *)
(***************************************************************************)
EXTENDS CustomerProfile, SerialProofs

\* What the locals of a PATCH hold at each of its program points.
PatchLocalOK(p) ==
    /\ patch[p].pc \in {"start", "done"} => patch[p].row = None
    /\ patch[p].pc \notin {"start", "done"} =>
          patch[p].who \in Customer /\ patch[p].row \in CustomerRow
    /\ patch[p].pc \in {"account", "rename", "nomba"} => patch[p].name \in Name
    /\ patch[p].pc = "rename" =>
          patch[p].status \in AccountStatus /\ accountStatus[patch[p].who] # None

\* A payment that is yet to be credited or suspended is not in the row, nor is
\* one judged misdirected that amounts to something.
Untouched(row) ==
    /\ \A h \in Handler : handler[h].pc \in {"credit", "suspend"} =>
          row.wallet[handler[h].request] = 0
    /\ \A r \in Request :
          transaction[r] # None /\ transaction[r].status = "misdirected"
             /\ event[r].amount # 0 => row.wallet[r] = 0

\* The copy of the row that a PATCH will save is as good as those of the
\* webhook handlers.
PatchCopyOK(p) ==
    patch[p].row # None => Backed(patch[p].row, patch[p].who) /\ Untouched(patch[p].row)

ProfileInv ==
    /\ ProfileTypeOK
    /\ SettleInv
    /\ \A p \in Patch : PatchLocalOK(p) /\ PatchCopyOK(p)

-----------------------------------------------------------------------------
(***************************************************************************)
(* What the steps of webhook processing do to a copy held elsewhere.       *)
(***************************************************************************)

\* Suspense is written only by the handler that has it to do, and a handler
\* has something to do only if it had, or has just recorded its payment.
LEMMA PendingStep ==
    ASSUME WalletInv, [Next]_vars
    PROVE  /\ \A q \in Request : suspense'[q] = suspense[q] \/
                 \E h \in Handler : handler[h].pc = "suspend" /\ handler[h].request = q
           /\ \A h \in Handler : handler'[h].pc \in {"credit", "suspend"} =>
                 /\ handler'[h].request = handler[h].request
                 /\ \/ handler[h].pc \in {"credit", "suspend"}
                    \/ handler[h].pc = "create" /\ transaction[handler[h].request] = None
<1> USE DEF WalletInv
<1> DEFINE Stands == \A q \in Request : suspense'[q] = suspense[q]
           Notes == \A q \in Request : suspense'[q] = suspense[q] \/
                 \E h \in Handler : handler[h].pc = "suspend" /\ handler[h].request = q
           Had(h) == handler'[h].pc \in {"credit", "suspend"} =>
                 /\ handler'[h].request = handler[h].request
                 /\ \/ handler[h].pc \in {"credit", "suspend"}
                    \/ handler[h].pc = "create" /\ transaction[handler[h].request] = None
<1>0. TypeInv'
  BY TypeStep
<1>1. ASSUME NEW h \in Handler, Others(h), Had(h) PROVE \A g \in Handler : Had(g)
  BY <1>1 DEF Others
<1>2. ASSUME NEW h \in Handler, Silent(h) PROVE Notes /\ \A g \in Handler : Had(g)
  BY <1>1, <1>2 DEF Silent, Owns, RecordsStand
<1>3. ASSUME UNCHANGED <<suspense, handler>> PROVE Notes /\ \A g \in Handler : Had(g)
  BY <1>3
<1>4. CASE UNCHANGED vars \/ \E r \in Request, p \in Payload : NombaEvent(r, p)
  BY <1>3, <1>4 DEF NombaEvent, vars, tables
<1>5. CASE \/ \E k \in Hook, e \in {"payments", "other"} : Register(k, e)
           \/ \E c \in Customer : OpenAccount(c)
           \/ \E c \in Customer, s \in AccountStatus : SetAccountStatus(c, s)
  BY <1>3, <1>5 DEF Register, OpenAccount, SetAccountStatus
<1>6. ASSUME NEW h \in Handler, NEW r \in Request,
             Deliver(h, r) \/ \E p \in Payload : Simulate(h, r, p)
      PROVE  Notes /\ \A g \in Handler : Had(g)
  <2>1. Others(h) /\ handler'[h].pc = "check"
    BY <1>6, StartEffect DEF Deliver, Simulate
  <2>2. UNCHANGED suspense
    BY <1>6 DEF Deliver, Simulate, tables
  <2> QED BY <1>1, <2>1, <2>2
<1>7. CASE Restart
  BY <1>7 DEF Restart, Idle, tables
<1>8. ASSUME NEW h \in Handler, FetchCustomer(h) PROVE Notes /\ \A g \in Handler : Had(g)
  <2>1. Others(h) /\ handler'[h].pc = "create" /\ UNCHANGED suspense
    BY <1>8, FetchEffect DEF FetchCustomer, Moves, tables
  <2> QED BY <1>1, <2>1
<1>9. ASSUME NEW h \in Handler, CreateTransaction(h) PROVE Notes /\ \A g \in Handler : Had(g)
  <2>1. UNCHANGED suspense /\ handler[h].pc = "create"
    BY <1>9 DEF CreateTransaction
  <2>2. CASE Raise(h)
    <3>1. Others(h) /\ handler'[h].pc = "idle"
      BY <2>2, LeaveEffect
    <3> QED BY <1>1, <2>1, <3>1
  <2>3. CASE ~Raise(h)
    <3>1. PICK pc \in {"suspend", "credit"} : Goto(h, pc) /\ transaction[handler[h].request] = None
      BY <1>9, <2>3 DEF CreateTransaction
    <3>2. Others(h) /\ handler'[h].request = handler[h].request
      BY <3>1, GotoEffect DEF Moves, PC
    <3> QED BY <1>1, <2>1, <3>1, <3>2
  <2> QED BY <2>2, <2>3
<1>10. ASSUME NEW h \in Handler, CreditWallet(h) PROVE Notes /\ \A g \in Handler : Had(g)
  <2>1. Others(h) /\ handler'[h].pc = "log" /\ UNCHANGED suspense
    BY <1>10, CreditEffect DEF CreditWallet, Moves
  <2> QED BY <1>1, <2>1
<1>11. ASSUME NEW h \in Handler, WriteSuspense(h) PROVE Notes /\ \A g \in Handler : Had(g)
  <2>1. Others(h) /\ handler'[h].pc = "log" /\ handler[h].pc = "suspend"
    BY <1>11, GotoEffect DEF WriteSuspense, Moves, PC
  <2>2. \A q \in Request : q # handler[h].request => suspense'[q] = suspense[q]
    BY <1>11 DEF TypeInv, TypeOK, WriteSuspense
  <2> QED BY <1>1, <2>1, <2>2
<1>12. ASSUME NEW h \in Handler, HandlerStep(h) \/ DatabaseError(h)
       PROVE  Notes /\ \A g \in Handler : Had(g)
  BY <1>0, <1>2, <1>8, <1>9, <1>10, <1>11, <1>12, QuietActions DEF HandlerStep
<1>13. Notes /\ \A g \in Handler : Had(g)
  BY <1>4, <1>5, <1>6, <1>7, <1>12 DEF Next, Environment, Fault
<1> QED BY <1>13

\* So a copy that is backed stays so, whatever the webhook handlers do.
LEMMA CopyStays ==
    ASSUME SettleInv, [Next]_vars, NEW row, NEW c, Backed(row, c), Untouched(row)
    PROVE  Backed(row, c)' /\ Untouched(row)'
<1>1. WalletInv /\ TypeInv
  BY DEF SettleInv, LedgerInv, WalletInv
<1>2. Backed(row, c)'
  <2> SUFFICES ASSUME NEW r \in Request, row.wallet[r] = 1
               PROVE  /\ transaction'[r] # None
                      /\ transaction'[r].account = c
                      /\ suspense'[r] = <<>>
    BY DEF Backed
  <2>1. transaction[r] # None /\ transaction[r].account = c /\ suspense[r] = <<>>
    BY DEF Backed
  <2>2. transaction'[r] = transaction[r]
    BY <1>1, <2>1, RecordsGrow
  <2>3. suspense'[r] = suspense[r]
    BY <1>1, PendingStep DEF Untouched
  <2> QED BY <2>1, <2>2, <2>3
<1>3. ASSUME NEW h \in Handler, handler'[h].pc \in {"credit", "suspend"}
      PROVE  row.wallet[handler'[h].request] = 0
  <2>1. /\ handler'[h].request = handler[h].request
        /\ \/ handler[h].pc \in {"credit", "suspend"}
           \/ handler[h].pc = "create" /\ transaction[handler[h].request] = None
    BY <1>1, <1>3, PendingStep
  <2>2. CASE handler[h].pc \in {"credit", "suspend"}
    BY <2>1, <2>2 DEF Untouched
  <2>3. CASE handler[h].pc = "create" /\ transaction[handler[h].request] = None
    <3>1. handler[h].request \in Request
      BY <1>1, <2>3, HandlerType
    <3> QED BY <2>1, <2>3, <3>1 DEF Backed
  <2> QED BY <2>1, <2>2, <2>3
<1>4. ASSUME NEW r \in Request, transaction'[r] # None,
             transaction'[r].status = "misdirected", event'[r].amount # 0
      PROVE  row.wallet[r] = 0
  <2>1. CASE transaction[r] = None
    BY <2>1 DEF Backed
  <2>2. CASE transaction[r] # None
    <3>1. transaction'[r] = transaction[r] /\ event'[r] = event[r]
      BY <1>1, <2>2, RecordsGrow DEF SettleInv, TransactionFirst
    <3> QED BY <1>4, <2>2, <3>1 DEF Untouched
  <2> QED BY <2>1, <2>2
<1>5. Untouched(row)'
  BY <1>3, <1>4 DEF Untouched
<1> QED BY <1>2, <1>5
-----------------------------------------------------------------------------
(***************************************************************************)
(* What the steps of a PATCH do to its locals.                             *)
(***************************************************************************)

\* Nothing about the copies kept elsewhere changes, and no account goes away.
CopiesStand ==
    /\ \A row, c : Backed(row, c) /\ Untouched(row) => Backed(row, c)' /\ Untouched(row)'
    /\ \A c \in Customer : accountStatus[c] # None => accountStatus'[c] # None

LEMMA CopiesUnderNext ==
    ASSUME ProfileInv, [Next]_vars
    PROVE  CopiesStand
<1>1. SettleInv /\ accountStatus \in [Customer -> AccountStatus \union {None}]
  BY DEF ProfileInv, SettleInv, LedgerInv, WalletInv, TypeInv, TypeOK
<1>2. ASSUME NEW row, NEW c, Backed(row, c), Untouched(row)
      PROVE  Backed(row, c)' /\ Untouched(row)'
  BY <1>1, <1>2, CopyStays
<1>3. ASSUME NEW c \in Customer, accountStatus[c] # None PROVE accountStatus'[c] # None
  <2>1. ASSUME NEW d \in Customer, OpenAccount(d) PROVE accountStatus'[c] # None
    BY <1>1, <1>3, <2>1 DEF OpenAccount
  <2>2. ASSUME NEW d \in Customer, NEW st \in AccountStatus, SetAccountStatus(d, st)
        PROVE  accountStatus'[c] # None
    BY <1>1, <1>3, <2>2, NoneIsNoName DEF SetAccountStatus
  <2>3. \/ UNCHANGED accountStatus
        \/ \E d \in Customer : OpenAccount(d)
        \/ \E d \in Customer, st \in AccountStatus : SetAccountStatus(d, st)
    BY DEF Next, Environment, Fault, HandlerStep, vars, tables, NombaEvent, Deliver,
           Simulate, Register, CheckProcessed, FindByNumber, FindByReference,
           FetchCustomer, CreateTransaction, CreditWallet, WriteSuspense, WriteAudit,
           LoadHooks, PostHook, RecordProcessed, DatabaseError, Restart
  <2> QED BY <1>3, <2>1, <2>2, <2>3
<1> QED BY <1>2, <1>3 DEF CopiesStand

LEMMA CopiesUnmoved ==
    ASSUME UNCHANGED <<event, transaction, suspense, handler, accountStatus>>
    PROVE  CopiesStand
BY DEF CopiesStand, Backed, Untouched

\* A PATCH that keeps its copy.
LEMMA CopyKept ==
    ASSUME ProfileInv, CopiesStand, NEW p \in Patch,
           patch'[p].row = patch[p].row, patch'[p].who = patch[p].who
    PROVE  PatchCopyOK(p)'
<1>1. ASSUME NEW row, NEW c, row = patch[p].row, c = patch[p].who, row # None
      PROVE  Backed(row, c)' /\ Untouched(row)'
  <2>1. Backed(row, c) /\ Untouched(row)
    BY <1>1 DEF ProfileInv, PatchCopyOK
  <2> QED BY <2>1 DEF CopiesStand
<1> QED BY <1>1 DEF PatchCopyOK, Backed, Untouched

\* A PATCH that does not move.
LEMMA PatchStands ==
    ASSUME ProfileInv, CopiesStand, NEW p \in Patch, patch'[p] = patch[p]
    PROVE  PatchLocalOK(p)' /\ PatchCopyOK(p)'
<1>1. PatchLocalOK(p) /\ PatchCopyOK(p)
  BY DEF ProfileInv
<1>2. PatchLocalOK(p)'
  BY <1>1 DEF PatchLocalOK, CopiesStand
<1>3. PatchCopyOK(p)'
  BY CopyKept
<1> QED BY <1>2, <1>3

\* A PATCH that goes on, or is over.
PatchMoves(p, pc) ==
    /\ patch' \in [Patch -> PatchState]
    /\ \A q \in Patch : q # p => patch'[q] = patch[q]
    /\ patch'[p].pc = pc

LEMMA PatchGoes ==
    ASSUME ProfileInv, NEW p \in Patch,
           NEW pc \in {"save", "account", "rename", "nomba", "respond", "done"},
           PatchGoto(p, pc)
    PROVE  /\ PatchMoves(p, pc)
           /\ patch'[p].who = patch[p].who /\ patch'[p].row = patch[p].row
           /\ patch'[p].name = patch[p].name /\ patch'[p].status = patch[p].status
<1> DEFINE s == [patch[p] EXCEPT !.pc = pc]
<1>1. patch \in [Patch -> PatchState]
  BY DEF ProfileInv, ProfileTypeOK
<1>2. /\ s \in PatchState /\ s.pc = pc /\ s.who = patch[p].who /\ s.row = patch[p].row
      /\ s.name = patch[p].name /\ s.status = patch[p].status
  BY <1>1 DEF PatchState
<1>3. patch' = [patch EXCEPT ![p] = s]
  BY DEF PatchGoto
<1> HIDE DEF s
<1> QED BY <1>1, <1>2, <1>3 DEF PatchMoves

LEMMA PatchEnds ==
    ASSUME ProfileInv, NEW p \in Patch, PatchOver(p)
    PROVE  PatchMoves(p, "done") /\ patch'[p].row = None
<1> DEFINE s == [NotMade EXCEPT !.pc = "done"]
<1>1. patch \in [Patch -> PatchState] /\ patch' = [patch EXCEPT ![p] = s]
  BY DEF ProfileInv, ProfileTypeOK, PatchOver
<1>2. s \in PatchState /\ s.pc = "done" /\ s.row = None
  BY DEF NotMade, PatchState
<1> HIDE DEF s
<1> QED BY <1>1, <1>2 DEF PatchMoves

LEMMA PatchStarts ==
    ASSUME ProfileInv, NEW p \in Patch, NEW c \in Customer, NEW name \in Name \union {None},
           NEW target \in NewTarget \union {None}, ResolveCustomer(p, c, name, target)
    PROVE  /\ PatchMoves(p, "save")
           /\ patch'[p].who = c
           /\ patch'[p].row \in CustomerRow
           /\ patch'[p].row.wallet = customer[c].wallet
<1> DEFINE row == BodyApplied(c, name, target)
           s == [pc |-> "save", who |-> c, name |-> name, target |-> target,
                 row |-> row, status |-> None]
<1>1. /\ patch \in [Patch -> PatchState] /\ customer[c] \in CustomerRow
      /\ patch' = [patch EXCEPT ![p] = s]
  BY DEF ProfileInv, ProfileTypeOK, TypeOK, ResolveCustomer
<1>2. row \in CustomerRow /\ row.wallet = customer[c].wallet
  BY <1>1, NewTargetAssumption DEF BodyApplied, CustomerRow
<1> HIDE DEF row
<1>3. s \in PatchState /\ s.pc = "save" /\ s.who = c /\ s.row = row
  BY <1>2 DEF PatchState
<1> HIDE DEF s
<1> QED BY <1>1, <1>2, <1>3 DEF PatchMoves

\* The row that is saved is backed, so the balances stay so.
LEMMA SaveStep ==
    ASSUME ProfileInv, NEW p \in Patch, SaveCustomer(p)
    PROVE  SettleInv' /\ [Ledger!Next]_(Ledger!ledgerVars)
<1> DEFINE c == patch[p].who
           row == patch[p].row
           balance == [d \in Customer |-> customer[d].wallet]
<1>0. SettleInv /\ LedgerInv /\ WalletInv /\ TypeInv /\ TypeOK
  BY DEF ProfileInv, SettleInv, LedgerInv, WalletInv, TypeInv
<1>1. /\ c \in Customer /\ row \in CustomerRow /\ Backed(row, c) /\ Untouched(row)
      /\ customer' = [customer EXCEPT ![c] = row]
      /\ UNCHANGED <<event, accountStatus, transaction, suspense, audit, processed,
                     registration, posted, answered, handler, faults>>
  BY RowIsNotNone DEF ProfileInv, PatchLocalOK, PatchCopyOK, SaveCustomer
<1>2. /\ customer' \in [Customer -> CustomerRow]
      /\ customer'[c] = row
      /\ \A d \in Customer : d # c => customer'[d] = customer[d]
  BY <1>0, <1>1 DEF TypeOK
<1> HIDE DEF c, row
<1>3. TypeInv'
  BY <1>0, <1>1, <1>2 DEF TypeInv, TypeOK, LocalsOK, LocalOK
<1>4. \A d \in Customer : Backed(customer[d], d)'
  BY <1>0, <1>1, <1>2 DEF WalletInv, Backed
<1>5. ASSUME NEW h \in Handler PROVE (OwnerOK(h) /\ PendingOK(h) /\ CopyOK(h))'
  <2>1. OwnerOK(h)' /\ CopyOK(h)'
    BY <1>0, <1>1 DEF WalletInv, OwnerOK, Owns, IsPayment, CopyOK, Backed
  <2>2. PendingOK(h)'
    <3> SUFFICES ASSUME handler[h].pc \in {"credit", "suspend"},
                        NEW d \in Customer
                 PROVE  customer'[d].wallet[handler[h].request] = 0
      BY <1>0, <1>1 DEF WalletInv, PendingOK, Nowhere
    <3>1. customer[d].wallet[handler[h].request] = 0
      BY <1>0 DEF WalletInv, PendingOK, Nowhere
    <3> QED BY <1>1, <1>2, <3>1 DEF Untouched
  <2> QED BY <2>1, <2>2
<1>6. WalletInv'
  BY <1>0, <1>1, <1>3, <1>4, <1>5 DEF WalletInv, OneOwner, Owns, SuspenseHasTransaction
<1>7. LedgerInv'
  BY <1>0, <1>1, <1>6 DEF LedgerInv, TellOK, Heard
<1>8. ASSUME NEW d \in Customer, d = c PROVE Ledger!Rebalance(d)
  <2>1. balance' = [balance EXCEPT ![d] = balance'[d]]
    BY <1>1, <1>2, <1>8
  <2>2. balance'[d] \in [Request -> {0, 1}]
    BY <1>1, <1>2, <1>8 DEF Backed, CustomerRow
  <2>3. \A r \in Request : balance'[d][r] = 1 => r \in Ledger!EnteredFor(d)
    BY <1>1, <1>2, <1>8 DEF Backed, Ledger!EnteredFor
  <2> QED BY <1>1, <2>1, <2>2, <2>3 DEF Ledger!Rebalance, IsPayment
<1>9. Ledger!Next
  BY <1>1, <1>8 DEF Ledger!Next
<1>10. MisdirectedUncounted'
  BY <1>0, <1>1, <1>2 DEF SettleInv, MisdirectedUncounted, Uncounted, Untouched
<1>11. \A h \in Handler : StageOK(h)'
  BY <1>0, <1>1 DEF SettleInv, StageOK, Owns, JudgedFor, Quarantines, Settled, IsPayment
<1>12. TransactionFirst' /\ AnsweredIsSettled' /\ ForwardedOnceAfterCredit'
  BY <1>0, <1>1 DEF SettleInv, TransactionFirst, AnsweredIsSettled, Settled, IsPayment,
                    ForwardedOnceAfterCredit
<1> QED BY <1>7, <1>9, <1>10, <1>11, <1>12 DEF SettleInv

\* A fault leaves the records as they are.
LEMMA FaultStep ==
    ASSUME ProfileInv, UNCHANGED <<event, tables, posted, answered>>, faults' = faults + 1,
           UNCHANGED handler \/ handler' = [h \in Handler |-> Idle]
    PROVE  SettleInv' /\ [Ledger!Next]_(Ledger!ledgerVars) /\ CopiesStand
<1>0. SettleInv /\ LedgerInv /\ WalletInv /\ TypeInv /\ TypeOK /\ LocalsOK
  BY DEF ProfileInv, SettleInv, LedgerInv, WalletInv, TypeInv
<1>1. Idle \in HandlerState /\ Idle.pc = "idle"
  BY DEF Idle, HandlerState, PC
<1>2. /\ UNCHANGED <<event, customer, accountStatus, transaction, suspense, audit,
                     processed, registration, posted, answered>>
      /\ RecordsStand
  BY DEF tables, RecordsStand
<1>3. handler' \in [Handler -> HandlerState] /\ faults' \in Nat
  BY <1>0, <1>1 DEF TypeOK
<1>4. TypeOK'
  BY <1>0, <1>2, <1>3 DEF TypeOK
<1>5. LocalsOK'
  BY <1>0, <1>2 DEF LocalsOK, LocalOK, Idle
<1>6. WalletInv'
  BY <1>0, <1>2, <1>4, <1>5, StillStep, RestartStep DEF TypeInv
<1>7. \A h \in Handler : TellOK(h)'
  BY <1>0, <1>2 DEF LedgerInv, TellOK, Heard, Idle
<1>8. LedgerInv'
  BY <1>0, <1>2, <1>6, <1>7 DEF LedgerInv, Heard
<1>9. UNCHANGED Ledger!ledgerVars
  BY <1>2 DEF Ledger!ledgerVars, IsPayment
<1>10. CopiesStand
  BY <1>2 DEF CopiesStand, Backed, Untouched, Idle
<1>11. SettleInv'
  BY <1>0, <1>2, <1>8, StillSettles
<1> QED BY <1>9, <1>10, <1>11

LEMMA LedgerUnderNext ==
    ASSUME ProfileInv, [Next]_vars
    PROVE  SettleInv' /\ [Ledger!Next]_(Ledger!ledgerVars)
BY SettleStep, LedgerStep DEF ProfileInv, SettleInv

-----------------------------------------------------------------------------
(***************************************************************************)
(* The invariant, under every step of the composed service.                *)
(***************************************************************************)

Kept == ProfileInv' /\ [Ledger!Next]_(Ledger!ledgerVars)

\* What is left to show of a step in which PATCH p moves and the names stay.
LEMMA MoveKeeps ==
    ASSUME ProfileInv, SettleInv', [Ledger!Next]_(Ledger!ledgerVars), CopiesStand,
           NEW p \in Patch, NEW pc, PatchMoves(p, pc),
           PatchLocalOK(p)', PatchCopyOK(p)',
           accountName' \in [Customer -> Name \union {None}],
           bankName' \in [Customer -> Name \union {None}],
           \A c \in Customer : accountName'[c] = None <=> accountStatus'[c] = None
    PROVE  Kept
<1>1. ProfileTypeOK'
  BY DEF ProfileTypeOK, PatchMoves, SettleInv, LedgerInv, WalletInv, TypeInv
<1>2. ASSUME NEW q \in Patch PROVE PatchLocalOK(q)' /\ PatchCopyOK(q)'
  <2>1. q # p => patch'[q] = patch[q]
    BY DEF PatchMoves
  <2> QED BY <2>1, PatchStands
<1> QED BY <1>1, <1>2 DEF Kept, ProfileInv

\* The step of a PATCH that is over.
LEMMA OverKeeps ==
    ASSUME ProfileInv, SettleInv', [Ledger!Next]_(Ledger!ledgerVars), CopiesStand,
           NEW p \in Patch, PatchOver(p),
           accountName' \in [Customer -> Name \union {None}],
           bankName' \in [Customer -> Name \union {None}],
           \A c \in Customer : accountName'[c] = None <=> accountStatus'[c] = None
    PROVE  Kept
<1>1. PatchMoves(p, "done") /\ patch'[p].row = None
  BY PatchEnds
<1>2. PatchLocalOK(p)' /\ PatchCopyOK(p)'
  BY <1>1 DEF PatchMoves, PatchLocalOK, PatchCopyOK
<1> QED BY <1>1, <1>2, MoveKeeps

\* A PATCH that goes on with the locals it has.
LEMMA GoKeeps ==
    ASSUME ProfileInv, SettleInv', [Ledger!Next]_(Ledger!ledgerVars), CopiesStand,
           NEW p \in Patch,
           NEW pc \in {"account", "nomba", "respond"}, PatchGoto(p, pc),
           patch[p].pc \in {"save", "account", "rename", "nomba"},
           pc # "respond" => patch[p].name \in Name,
           accountName' \in [Customer -> Name \union {None}],
           bankName' \in [Customer -> Name \union {None}],
           \A c \in Customer : accountName'[c] = None <=> accountStatus'[c] = None
    PROVE  Kept
<1>1. /\ PatchMoves(p, pc)
      /\ patch'[p].who = patch[p].who /\ patch'[p].row = patch[p].row
      /\ patch'[p].name = patch[p].name
  BY PatchGoes
<1>2. PatchLocalOK(p) /\ PatchCopyOK(p)
  BY DEF ProfileInv
<1>3. PatchLocalOK(p)'
  BY <1>1, <1>2 DEF PatchMoves, PatchLocalOK
<1>4. PatchCopyOK(p)'
  BY <1>1, CopyKept
<1> QED BY <1>1, <1>3, <1>4, MoveKeeps

LEMMA PatchSteps ==
    ASSUME ProfileInv, NEW p \in Patch, PatchStep(p)
    PROVE  Kept
<1>0. /\ SettleInv /\ accountStatus \in [Customer -> AccountStatus \union {None}]
      /\ accountName \in [Customer -> Name \union {None}]
      /\ bankName \in [Customer -> Name \union {None}]
      /\ \A c \in Customer : accountName[c] = None <=> accountStatus[c] = None
      /\ patch[p] \in PatchState /\ PatchLocalOK(p) /\ PatchCopyOK(p)
  BY DEF ProfileInv, ProfileTypeOK, TypeOK
<1>1. ASSUME UNCHANGED vars
      PROVE  SettleInv' /\ [Ledger!Next]_(Ledger!ledgerVars) /\ CopiesStand
  BY <1>1, LedgerUnderNext, CopiesUnderNext
<1>2. CASE SaveCustomer(p)
  <2>1. SettleInv' /\ [Ledger!Next]_(Ledger!ledgerVars)
    BY <1>2, SaveStep
  <2>2. CopiesStand
    BY <1>2, CopiesUnmoved DEF SaveCustomer
  <2>3. PICK pc \in {"account", "respond"} :
           PatchGoto(p, pc) /\ (pc # "respond" => patch[p].name \in Name)
    BY <1>0, <1>2 DEF SaveCustomer, PatchState
  <2>4. patch[p].pc = "save" /\ UNCHANGED <<accountName, bankName, accountStatus>>
    BY <1>2 DEF SaveCustomer
  <2> QED BY <1>0, <2>1, <2>2, <2>3, <2>4, GoKeeps
<1>3. CASE FindAccount(p)
  <2>1. /\ patch[p].pc = "account" /\ UNCHANGED <<vars, accountName, bankName, accountStatus>>
        /\ patch[p].who \in Customer /\ patch[p].row \in CustomerRow /\ patch[p].name \in Name
    BY <1>0, <1>3 DEF FindAccount, vars, tables, PatchLocalOK
  <2>2. SettleInv' /\ [Ledger!Next]_(Ledger!ledgerVars) /\ CopiesStand
    BY <1>1, <2>1
  <2>3. CASE PatchGoto(p, "respond")
    BY <1>0, <2>1, <2>2, <2>3, GoKeeps
  <2>4. CASE /\ accountStatus[patch[p].who] # None
             /\ patch' = [patch EXCEPT ![p].pc = "rename",
                                       ![p].status = accountStatus[patch[p].who]]
    <3> DEFINE status == accountStatus[patch[p].who]
               s == [patch[p] EXCEPT !.pc = "rename", !.status = status]
    <3>1. patch \in [Patch -> PatchState] /\ patch' = [patch EXCEPT ![p] = s]
      BY <2>4 DEF ProfileInv, ProfileTypeOK
    <3>2. status \in AccountStatus
      BY <1>0, <2>1, <2>4
    <3>3. /\ s \in PatchState /\ s.pc = "rename" /\ s.status = status
          /\ s.who = patch[p].who /\ s.row = patch[p].row /\ s.name = patch[p].name
      BY <1>0, <3>2 DEF PatchState
    <3> HIDE DEF s
    <3>4. PatchMoves(p, "rename") /\ patch'[p] = s
      BY <3>1, <3>3 DEF PatchMoves
    <3>5. PatchLocalOK(p)'
      BY <2>1, <2>4, <3>2, <3>3, <3>4 DEF PatchLocalOK
    <3>6. PatchCopyOK(p)'
      BY <2>2, <3>3, <3>4, CopyKept
    <3> QED BY <1>0, <2>1, <2>2, <3>4, <3>5, <3>6, MoveKeeps
  <2> QED BY <1>3, <2>3, <2>4 DEF FindAccount
<1>4. CASE RenameAccount(p)
  <2> DEFINE c == patch[p].who
  <2>1. /\ patch[p].pc = "rename" /\ c \in Customer /\ patch[p].name \in Name
        /\ patch[p].status \in AccountStatus /\ accountStatus[c] # None
        /\ accountName' = [accountName EXCEPT ![c] = patch[p].name]
        /\ accountStatus' = [accountStatus EXCEPT ![c] = patch[p].status]
        /\ PatchGoto(p, "nomba")
        /\ UNCHANGED <<event, customer, transaction, suspense, audit, processed,
                       registration, posted, answered, handler, faults, bankName>>
    BY <1>0, <1>4 DEF RenameAccount, PatchLocalOK
  <2> HIDE DEF c
  <2>2. [Next]_vars
    <3>1. CASE accountStatus[c] = patch[p].status
      <4>1. accountStatus' = accountStatus
        BY <1>0, <2>1, <3>1
      <4> QED BY <2>1, <4>1 DEF vars, tables
    <3>2. CASE accountStatus[c] # patch[p].status
      <4>1. SetAccountStatus(c, patch[p].status)
        BY <2>1, <3>2 DEF SetAccountStatus
      <4> QED BY <2>1, <4>1 DEF Next, Environment
    <3> QED BY <3>1, <3>2
  <2>3. SettleInv' /\ [Ledger!Next]_(Ledger!ledgerVars) /\ CopiesStand
    BY <2>2, LedgerUnderNext, CopiesUnderNext
  <2>4. /\ accountName' \in [Customer -> Name \union {None}]
        /\ \A d \in Customer : accountName'[d] = None <=> accountStatus'[d] = None
    BY <1>0, <2>1, NoneIsNoName
  <2> QED BY <1>0, <2>1, <2>3, <2>4, GoKeeps
<1>5. CASE RenameAtNomba(p)
  <2>1. /\ patch[p].pc = "nomba" /\ UNCHANGED <<vars, accountName, accountStatus>>
        /\ patch[p].name \in Name /\ patch[p].who \in Customer
    BY <1>0, <1>5 DEF RenameAtNomba, vars, tables, PatchLocalOK
  <2>2. bankName' \in [Customer -> Name \union {None}]
    BY <1>0, <1>5, <2>1 DEF RenameAtNomba
  <2>3. SettleInv' /\ [Ledger!Next]_(Ledger!ledgerVars) /\ CopiesStand
    BY <1>1, <2>1
  <2>4. PatchGoto(p, "respond") \/ PatchOver(p)
    BY <1>5 DEF RenameAtNomba
  <2> QED BY <1>0, <2>1, <2>2, <2>3, <2>4, GoKeeps, OverKeeps
<1>6. CASE Respond(p)
  <2>1. PatchOver(p) /\ UNCHANGED <<vars, accountName, bankName, accountStatus>>
    BY <1>6 DEF Respond, vars, tables
  <2> QED BY <1>0, <1>1, <2>1, OverKeeps
<1> QED BY <1>2, <1>3, <1>4, <1>5, <1>6 DEF PatchStep

\* The row a PATCH reads is as backed as it is in the table.
LEMMA ResolveStep ==
    ASSUME ProfileInv, NEW p \in Patch, NEW c \in Customer, NEW name \in Name \union {None},
           NEW target \in NewTarget \union {None}, ResolveCustomer(p, c, name, target)
    PROVE  Kept
<1>1. UNCHANGED <<vars, accountName, bankName>>
  BY DEF ResolveCustomer
<1>2. SettleInv' /\ [Ledger!Next]_(Ledger!ledgerVars) /\ CopiesStand
  BY <1>1, LedgerUnderNext, CopiesUnderNext
<1>3. /\ PatchMoves(p, "save") /\ patch'[p].who = c /\ patch'[p].row \in CustomerRow
      /\ patch'[p].row.wallet = customer[c].wallet
  BY PatchStarts
<1>4. PatchLocalOK(p)'
  BY <1>3 DEF PatchMoves, PatchLocalOK
<1>5. PatchCopyOK(p)'
  <2>1. WalletInv
    BY DEF ProfileInv, SettleInv, LedgerInv
  <2>2. UNCHANGED <<event, transaction, suspense, handler>>
    BY <1>1 DEF vars, tables
  <2>3. Backed(customer[c], c)
    BY <2>1 DEF WalletInv
  <2>4. ASSUME NEW h \in Handler, handler[h].pc \in {"credit", "suspend"}
        PROVE  customer[c].wallet[handler[h].request] = 0
    BY <2>1, <2>4 DEF WalletInv, PendingOK, Nowhere
  <2>5. ASSUME NEW r \in Request, transaction[r] # None,
               transaction[r].status = "misdirected", event[r].amount # 0
        PROVE  customer[c].wallet[r] = 0
    BY <2>5 DEF ProfileInv, SettleInv, MisdirectedUncounted, Uncounted
  <2> QED BY <1>3, <2>2, <2>3, <2>4, <2>5 DEF PatchCopyOK, Backed, Untouched
<1>6. /\ accountName' \in [Customer -> Name \union {None}]
      /\ bankName' \in [Customer -> Name \union {None}]
      /\ \A d \in Customer : accountName'[d] = None <=> accountStatus'[d] = None
  BY <1>1 DEF ProfileInv, ProfileTypeOK, vars, tables
<1> QED BY <1>2, <1>3, <1>4, <1>5, <1>6, MoveKeeps

\* A step of webhook processing, or of its surroundings.
LEMMA WebhookStep ==
    ASSUME ProfileInv, [Next]_vars, UNCHANGED patch,
           accountName' \in [Customer -> Name \union {None}],
           bankName' \in [Customer -> Name \union {None}],
           \A c \in Customer : accountName'[c] = None <=> accountStatus'[c] = None
    PROVE  Kept
<1>1. SettleInv' /\ [Ledger!Next]_(Ledger!ledgerVars) /\ CopiesStand
  BY LedgerUnderNext, CopiesUnderNext
<1>2. \A p \in Patch : PatchLocalOK(p)' /\ PatchCopyOK(p)'
  BY <1>1, PatchStands
<1>3. ProfileTypeOK'
  BY <1>1 DEF ProfileInv, ProfileTypeOK, SettleInv, LedgerInv, WalletInv, TypeInv
<1> QED BY <1>1, <1>2, <1>3 DEF Kept, ProfileInv

LEMMA RestartAllStep ==
    ASSUME ProfileInv, RestartAll
    PROVE  Kept
<1>1. SettleInv' /\ [Ledger!Next]_(Ledger!ledgerVars) /\ CopiesStand
  BY FaultStep DEF RestartAll
<1> DEFINE over == [NotMade EXCEPT !.pc = "done"]
<1>2. over \in PatchState /\ over.pc = "done" /\ over.row = None
  BY DEF NotMade, PatchState
<1>3. patch' = [p \in Patch |-> IF PatchBusy(p) THEN over ELSE patch[p]]
  BY DEF RestartAll
<1> HIDE DEF over
<1>4. patch' \in [Patch -> PatchState]
  BY <1>2, <1>3 DEF ProfileInv, ProfileTypeOK
<1>5. ASSUME NEW p \in Patch PROVE PatchLocalOK(p)' /\ PatchCopyOK(p)'
  <2>1. CASE PatchBusy(p)
    <3>1. patch'[p] = over
      BY <1>3, <2>1
    <3> QED BY <1>2, <3>1 DEF PatchLocalOK, PatchCopyOK
  <2>2. CASE ~PatchBusy(p)
    <3>1. patch'[p] = patch[p]
      BY <1>3, <2>2
    <3> QED BY <1>1, <3>1, PatchStands
  <2> QED BY <2>1, <2>2
<1>6. ProfileTypeOK'
  <2>1. UNCHANGED <<accountStatus, accountName, bankName>>
    BY DEF RestartAll, tables
  <2> QED BY <1>1, <1>4, <2>1
          DEF ProfileInv, ProfileTypeOK, SettleInv, LedgerInv, WalletInv, TypeInv
<1> QED BY <1>1, <1>5, <1>6 DEF Kept, ProfileInv

LEMMA ProfileStep ==
    ASSUME ProfileInv, [Arrival \/ Progress]_profileVars
    PROVE  Kept
<1>0. /\ TypeOK /\ accountStatus \in [Customer -> AccountStatus \union {None}]
      /\ accountName \in [Customer -> Name \union {None}]
      /\ bankName \in [Customer -> Name \union {None}]
      /\ \A c \in Customer : accountName[c] = None <=> accountStatus[c] = None
  BY DEF ProfileInv, ProfileTypeOK, TypeOK
<1>1. ASSUME [Next]_vars, Aside, UNCHANGED accountStatus PROVE Kept
  BY <1>0, <1>1, WebhookStep DEF Aside
<1>2. CASE \/ \E r \in Request, p \in Payload : NombaEvent(r, p) /\ Aside
           \/ \E h \in Handler, r \in Request : Deliver(h, r) /\ Aside
           \/ \E h \in Handler : HandlerStep(h) /\ Aside
           \/ \E h \in Handler : DatabaseError(h) /\ Aside
           \/ UNCHANGED profileVars
  <2>1. [Next]_vars /\ Aside
    BY <1>2 DEF Next, Environment, Fault, profileVars, Aside
  <2>2. UNCHANGED accountStatus
    BY <1>2 DEF profileVars, HandlerStep, vars, tables, NombaEvent, Deliver,
           CheckProcessed, FindByNumber, FindByReference, FetchCustomer,
           CreateTransaction, CreditWallet, WriteSuspense, WriteAudit, LoadHooks,
           PostHook, RecordProcessed, DatabaseError
  <2> QED BY <1>1, <2>1, <2>2
<1>3. ASSUME NEW c \in Customer, NEW st \in AccountStatus, SetAccountStatus(c, st), Aside
      PROVE  Kept
  <2>1. [Next]_vars
    BY <1>3 DEF Next, Environment
  <2>2. \A d \in Customer : accountName'[d] = None <=> accountStatus'[d] = None
    BY <1>0, <1>3, NoneIsNoName DEF SetAccountStatus, Aside
  <2> QED BY <1>0, <1>3, <2>1, <2>2, WebhookStep DEF Aside
<1>4. ASSUME NEW c \in Customer, NEW name \in Name, OpenNamedAccount(c, name) PROVE Kept
  <2>1. [Next]_vars /\ UNCHANGED patch
    BY <1>4 DEF OpenNamedAccount, Next, Environment
  <2>2. /\ accountName' \in [Customer -> Name \union {None}]
        /\ bankName' \in [Customer -> Name \union {None}]
    BY <1>0, <1>4 DEF OpenNamedAccount
  <2>3. \A d \in Customer : accountName'[d] = None <=> accountStatus'[d] = None
    <3>1. "active" # None
      BY NoneIsNoName DEF AccountStatus
    <3> QED BY <1>0, <1>4, <3>1, NoneIsNoName DEF OpenNamedAccount, OpenAccount
  <2> QED BY <2>1, <2>2, <2>3, WebhookStep
<1>5. ASSUME NEW p \in Patch, PatchDatabaseError(p) PROVE Kept
  <2>1. /\ PatchOver(p) /\ UNCHANGED <<accountStatus, accountName, bankName>>
        /\ SettleInv' /\ [Ledger!Next]_(Ledger!ledgerVars) /\ CopiesStand
    BY <1>5, FaultStep DEF PatchDatabaseError, tables
  <2> QED BY <1>0, <2>1, OverKeeps
<1> QED BY <1>2, <1>3, <1>4, <1>5, PatchSteps, ResolveStep, RestartAllStep
        DEF Arrival, Progress

LEMMA ProfileStart == ProfileInit => ProfileInv
<1> SUFFICES ASSUME ProfileInit PROVE ProfileInv
  OBVIOUS
<1>1. SettleInv /\ TypeOK
  BY SettleInit DEF ProfileInit, SettleInv, LedgerInv, WalletInv, TypeInv
<1>2. NotMade \in PatchState /\ NotMade.pc = "start" /\ NotMade.row = None
  BY DEF NotMade, PatchState
<1>3. ProfileTypeOK
  BY <1>1, <1>2 DEF ProfileInit, ProfileTypeOK, Init
<1>4. \A p \in Patch : PatchLocalOK(p) /\ PatchCopyOK(p)
  BY <1>2 DEF ProfileInit, PatchLocalOK, PatchCopyOK
<1> QED BY <1>1, <1>3, <1>4 DEF ProfileInv

LEMMA ProfileInvariant == ProfileSpec => []ProfileInv
<1>1. ProfileInv /\ [Arrival \/ Progress]_profileVars => ProfileInv'
  BY ProfileStep DEF Kept
<1> QED BY <1>1, ProfileStart, PTL DEF ProfileSpec

-----------------------------------------------------------------------------

\* Every column and every local of a PATCH keeps its type; in particular a
\* rename is never saved to an account that has no row, nor with no status.
THEOREM ProfileTypeCorrect == ProfileSpec => []ProfileTypeOK
<1>1. ProfileInv => ProfileTypeOK
  BY DEF ProfileInv
<1> QED BY <1>1, ProfileInvariant, PTL

\* However many PATCHes save the stale rows they hold, every payment counted
\* in a balance has its transaction for that customer and is not in suspense.
THEOREM PatchedBalancesAreBacked == ProfileSpec => []WalletBacked
<1>1. ProfileInv => WalletBacked
  BY DEF ProfileInv, SettleInv, LedgerInv, WalletInv, Backed, WalletBacked
<1> QED BY <1>1, ProfileInvariant, PTL

\* Nor does a PATCH at any moment make an answer come before the records of its
\* payment: the stale row it saves is of the customer, and no other table's.
THEOREM PatchedAnswersAreSettled == ProfileSpec => []AnsweredIsSettled
<1>1. ProfileInv => AnsweredIsSettled
  BY DEF ProfileInv, SettleInv
<1> QED BY <1>1, ProfileInvariant, PTL

\* And merchants hear once, of what was recorded and audited, though a PATCH
\* may have taken the credit away again by then.
THEOREM PatchedForwardedOnce == ProfileSpec => []ForwardedOnceAfterCredit
<1>1. ProfileInv => ForwardedOnceAfterCredit
  BY DEF ProfileInv, SettleInv
<1> QED BY <1>1, ProfileInvariant, PTL

\* Webhook processing and PATCHes together still implement the abstract
\* ledger: the save of a PATCH rebalances one customer, nothing else it does
\* is seen.
THEOREM ProfileImplementsLedger == ProfileSpec => LedgerSpec
<1>1. ProfileInit => Ledger!Init
  BY LedgerInitial DEF ProfileInit
<1>2. ProfileInv /\ [Arrival \/ Progress]_profileVars => [Ledger!Next]_(Ledger!ledgerVars)
  BY ProfileStep DEF Kept
<1> QED BY <1>1, <1>2, ProfileInvariant, PTL DEF ProfileSpec, LedgerSpec, Ledger!Spec

-----------------------------------------------------------------------------
(***************************************************************************)
(* When credits stand beside PATCHes.                                      *)
(***************************************************************************)

\* Whoever is about to save a credited balance is the only one that holds it,
\* PATCHes included.
UncontendedRow ==
    /\ Uncontended
    /\ \A h \in Handler, p \in Patch :
          ~(handler[h].pc = "credit" /\ patch[p].pc = "save"
               /\ patch[p].who = handler[h].account)

\* The balance in the copy of a PATCH is the one in the table.
PatchFresh ==
    \A p \in Patch : patch[p].pc = "save" =>
        patch[p].row.wallet = customer[patch[p].who].wallet

CreditInv == SerialLocals /\ AuditedCreditStands /\ PatchFresh

\* What keeps the balances, the logs and the handlers keeps the credits.
LEMMA CreditsUnmoved ==
    ASSUME TypeInv, CreditInv, UNCHANGED <<transaction, audit, suspense, handler>>,
           \A c \in Customer : customer'[c].wallet = customer[c].wallet
    PROVE  SerialLocals' /\ AuditedCreditStands'
<1>1. ASSUME NEW h \in Handler PROVE FreshOK(h)' /\ CountedOK(h)'
  <2>1. FreshOK(h) /\ CountedOK(h) /\ (Quarantines(h)' <=> Quarantines(h))
    BY DEF CreditInv, SerialLocals, Quarantines
  <2>2. FreshOK(h)'
    BY <2>1 DEF FreshOK, HoldsBalance
  <2>3. handler[h].pc = "log" /\ ~Quarantines(h) => handler[h].account \in Customer
    BY HandlerType DEF Quarantines, HandlerState
  <2>4. CountedOK(h)'
    BY <2>1, <2>3 DEF CountedOK
  <2> QED BY <2>2, <2>4
<1>2. AuditedCreditStands'
  BY DEF CreditInv, AuditedCreditStands
<1> QED BY <1>1, <1>2 DEF SerialLocals

\* The balances change only where a handler credits one.
LEMMA BalancesMove ==
    ASSUME SettleInv, [Next]_vars, UncontendedRow, UNCHANGED patch, CreditInv,
           \A p \in Patch : PatchLocalOK(p)
    PROVE  PatchFresh'
<1>1. ASSUME NEW h \in Handler, CreditWallet(h), NEW p \in Patch, patch[p].pc = "save"
      PROVE  customer'[patch[p].who] = customer[patch[p].who]
  <2>1. handler[h].pc = "credit" /\ patch[p].who # handler[h].account
    BY <1>1 DEF CreditWallet, UncontendedRow
  <2>2. patch[p].who \in Customer
    BY <1>1 DEF PatchLocalOK
  <2>3. customer' = [customer EXCEPT ![handler[h].account] = Credited(h)]
    BY <1>1, CreditEffect DEF SettleInv, LedgerInv, WalletInv
  <2> QED BY <2>1, <2>2, <2>3
          DEF SettleInv, LedgerInv, WalletInv, TypeInv, TypeOK
<1>2. UNCHANGED customer \/ \E h \in Handler : CreditWallet(h)
  BY DEF Next, Environment, Fault, HandlerStep, vars, tables, NombaEvent, Deliver,
         Simulate, Register, OpenAccount, SetAccountStatus, CheckProcessed,
         FindByNumber, FindByReference, FetchCustomer, CreateTransaction,
         WriteSuspense, WriteAudit, LoadHooks, PostHook, RecordProcessed,
         DatabaseError, Restart
<1> QED BY <1>1, <1>2 DEF CreditInv, PatchFresh

\* A step of webhook processing, or of its surroundings.
LEMMA WebhookCredits ==
    ASSUME ProfileInv, CreditInv, UncontendedRow, [Next]_vars, UNCHANGED patch
    PROVE  CreditInv'
<1>1. SerialInv
  BY DEF ProfileInv, CreditInv, SerialInv
<1>2. SerialLocals' /\ AuditedCreditStands'
  BY <1>1, SerialStep DEF UncontendedRow, SerialInv
<1>3. PatchFresh'
  BY BalancesMove DEF ProfileInv
<1> QED BY <1>2, <1>3 DEF CreditInv

\* The save of a PATCH leaves the balances: it holds them as they are.
LEMMA SaveCredits ==
    ASSUME ProfileInv, CreditInv, NEW p \in Patch, SaveCustomer(p)
    PROVE  CreditInv'
<1> DEFINE c == patch[p].who
<1>1. /\ c \in Customer /\ patch[p].pc = "save"
      /\ customer \in [Customer -> CustomerRow]
      /\ customer' = [customer EXCEPT ![c] = patch[p].row]
      /\ patch[p].row.wallet = customer[c].wallet
  BY DEF SaveCustomer, ProfileInv, ProfileTypeOK, TypeOK, PatchLocalOK, CreditInv, PatchFresh
<1>2. \A d \in Customer : customer'[d].wallet = customer[d].wallet
  BY <1>1
<1>3. SerialLocals' /\ AuditedCreditStands'
  BY <1>2, CreditsUnmoved DEF SaveCustomer, ProfileInv, SettleInv, LedgerInv, WalletInv
<1>4. ASSUME NEW q \in Patch, patch'[q].pc = "save"
      PROVE  patch'[q].row.wallet = customer'[patch'[q].who].wallet
  <2>1. patch'[p].pc # "save" /\ \A o \in Patch : o # p => patch'[o] = patch[o]
    BY PatchGoes DEF SaveCustomer, PatchMoves
  <2>2. patch'[q] = patch[q] /\ patch[q].who \in Customer
    BY <1>4, <2>1 DEF ProfileInv, PatchLocalOK
  <2> QED BY <1>2, <1>4, <2>2 DEF CreditInv, PatchFresh
<1> QED BY <1>3, <1>4 DEF CreditInv, PatchFresh

\* A step of PATCHes that leaves the customers and brings none to its save, or
\* brings it there with the stored balance.
LEMMA PatchCredits ==
    ASSUME TypeInv, CreditInv, UNCHANGED <<customer, transaction, audit, suspense>>,
           UNCHANGED handler \/ handler' = [h \in Handler |-> Idle],
           \A p \in Patch : patch'[p].pc = "save" =>
              \/ patch'[p] = patch[p]
              \/ patch'[p].row.wallet = customer[patch'[p].who].wallet
    PROVE  CreditInv'
<1>1. CASE UNCHANGED handler
  BY <1>1, CreditsUnmoved DEF CreditInv, PatchFresh
<1>2. CASE handler' = [h \in Handler |-> Idle]
  <2>1. SerialLocals'
    BY <1>2 DEF SerialLocals, FreshOK, CountedOK, HoldsBalance, Idle
  <2> QED BY <2>1 DEF CreditInv, AuditedCreditStands, PatchFresh
<1> QED BY <1>1, <1>2

LEMMA CreditProfileStep ==
    ASSUME ProfileInv, CreditInv, UncontendedRow, [Arrival \/ Progress]_profileVars
    PROVE  CreditInv'
<1>0. TypeInv
  BY DEF ProfileInv, SettleInv, LedgerInv, WalletInv
<1>1. ASSUME [Next]_vars, UNCHANGED patch PROVE CreditInv'
  BY <1>1, WebhookCredits
<1>2. ASSUME NEW p \in Patch, NEW c \in Customer, NEW name \in Name \union {None},
             NEW target \in NewTarget \union {None}, ResolveCustomer(p, c, name, target)
      PROVE  CreditInv'
  <2>1. /\ PatchMoves(p, "save") /\ patch'[p].who = c
        /\ patch'[p].row.wallet = customer[c].wallet
    BY <1>2, PatchStarts
  <2>2. UNCHANGED <<customer, transaction, audit, suspense, handler>>
    BY <1>2 DEF ResolveCustomer, vars, tables
  <2> QED BY <1>0, <2>1, <2>2, PatchCredits DEF PatchMoves
<1>3. ASSUME NEW p \in Patch, PatchStep(p) \/ PatchDatabaseError(p), ~SaveCustomer(p)
      PROVE  CreditInv'
  <2>1. /\ UNCHANGED <<customer, transaction, audit, suspense, handler>>
        /\ \/ PatchOver(p)
           \/ \E pc \in {"nomba", "respond"} : PatchGoto(p, pc)
           \/ patch' = [patch EXCEPT ![p].pc = "rename",
                                     ![p].status = accountStatus[patch[p].who]]
    BY <1>3 DEF PatchStep, PatchDatabaseError, FindAccount, RenameAccount,
                RenameAtNomba, Respond, vars, tables
  <2>2. patch'[p].pc # "save" /\ \A q \in Patch : q # p => patch'[q] = patch[q]
    BY <2>1 DEF PatchOver, PatchGoto, NotMade, ProfileInv, ProfileTypeOK, PatchState
  <2> QED BY <1>0, <2>1, <2>2, PatchCredits
<1>4. CASE RestartAll
  <2>1. \A p \in Patch : patch'[p] = patch[p] \/ patch'[p].pc = "done"
    BY <1>4 DEF RestartAll, NotMade
  <2> QED BY <1>0, <1>4, <2>1, PatchCredits DEF RestartAll, tables
<1>5. \/ [Next]_vars /\ UNCHANGED patch
      \/ RestartAll \/ \E p \in Patch : PatchStep(p) \/ PatchDatabaseError(p)
      \/ \E p \in Patch, c \in Customer, name \in Name \union {None},
            target \in NewTarget \union {None} : ResolveCustomer(p, c, name, target)
  BY DEF Arrival, Progress, Next, Environment, Fault, Aside, profileVars, OpenNamedAccount
<1> QED BY <1>1, <1>2, <1>3, <1>4, <1>5, SaveCredits

LEMMA CreditStart == ProfileInit => CreditInv
BY DEF ProfileInit, Init, Idle, NotMade, CreditInv, SerialLocals, FreshOK, CountedOK,
       HoldsBalance, AuditedCreditStands, PatchFresh

\* Unless a balance is credited and saved while another handler or a PATCH
\* holds it to save it too, no audited credit is lost (reconciliation.py,
\* process_payment; customers.py, update).
THEOREM UncontendedRowsKeepCredits ==
    ProfileSpec /\ []UncontendedRow => []AuditedCreditStands
<1>1. CreditInv => AuditedCreditStands
  BY DEF CreditInv
<1>2. ProfileInv /\ CreditInv /\ UncontendedRow /\ [Arrival \/ Progress]_profileVars
         => CreditInv'
  BY CreditProfileStep
<1> QED BY <1>1, <1>2, CreditStart, ProfileInvariant, PTL DEF ProfileSpec

-----------------------------------------------------------------------------
(***************************************************************************)
(* One request at a time.                                                  *)
(***************************************************************************)

\* At most one request, of either kind, is in flight.
OneInFlight ==
    /\ \A g, h \in Handler : handler[g].pc # "idle" /\ handler[h].pc # "idle" => g = h
    /\ \A p, q \in Patch : PatchBusy(p) /\ PatchBusy(q) => p = q
    /\ \A h \in Handler, p \in Patch : ~(handler[h].pc # "idle" /\ PatchBusy(p))

SerialNext == (Quiet /\ Arrival) \/ Progress

\* A step of a handler is of one that is in flight, and leaves the others.
LEMMA StepsInFlight ==
    ASSUME TypeInv, NEW h \in Handler, HandlerStep(h) \/ DatabaseError(h)
    PROVE  handler[h].pc # "idle" /\ Others(h)
<1>1. handler[h].pc # "idle"
  BY DEF HandlerStep, CheckProcessed, FindByNumber, FindByReference, FetchCustomer,
         CreateTransaction, CreditWallet, WriteSuspense, WriteAudit, LoadHooks,
         PostHook, RecordProcessed, DatabaseError
<1>2. \E s : handler' = [handler EXCEPT ![h] = s]
  BY DEF HandlerStep, CheckProcessed, FindByNumber, FindByReference, FetchCustomer,
         CreateTransaction, CreditWallet, WriteSuspense, WriteAudit, LoadHooks,
         PostHook, RecordProcessed, DatabaseError, Raise, Return, Goto, Found
<1>3. handler' \in [Handler -> HandlerState]
  BY TypeStep DEF Next, Fault, TypeInv, TypeOK
<1> QED BY <1>1, <1>2, <1>3 DEF Others, TypeInv, TypeOK

LEMMA InFlightStep ==
    ASSUME ProfileInv, OneInFlight, [SerialNext]_profileVars
    PROVE  OneInFlight'
<1>1. TypeInv /\ patch \in [Patch -> PatchState]
  BY DEF ProfileInv, ProfileTypeOK, SettleInv, LedgerInv, WalletInv
<1>2. ASSUME NEW h \in Handler, HandlerStep(h) \/ DatabaseError(h), Aside PROVE OneInFlight'
  <2>1. handler[h].pc # "idle" /\ Others(h) /\ UNCHANGED patch
    BY <1>1, <1>2, StepsInFlight DEF Aside
  <2> QED BY <2>1 DEF OneInFlight, Others, PatchBusy
<1>3. ASSUME NEW p \in Patch, PatchStep(p) \/ PatchDatabaseError(p) PROVE OneInFlight'
  <2>1. PatchBusy(p) /\ UNCHANGED handler /\ \E s : patch' = [patch EXCEPT ![p] = s]
    BY <1>3 DEF PatchStep, PatchDatabaseError, SaveCustomer, FindAccount, RenameAccount,
                RenameAtNomba, Respond, PatchGoto, PatchOver, PatchBusy, vars
  <2> QED BY <1>1, <2>1 DEF OneInFlight, PatchBusy
<1>4. CASE RestartAll
  BY <1>4 DEF RestartAll, OneInFlight, Idle, NotMade, PatchBusy
<1>5. ASSUME Quiet, NEW h \in Handler, NEW r \in Request, Deliver(h, r), Aside
      PROVE  OneInFlight'
  <2>1. Others(h) /\ UNCHANGED patch
    BY <1>1, <1>5, StartEffect DEF Deliver, Aside
  <2> QED BY <1>5, <2>1 DEF OneInFlight, Quiet, Others, PatchBusy
<1>6. ASSUME Quiet, NEW p \in Patch, NEW c \in Customer, NEW name \in Name \union {None},
             NEW target \in NewTarget \union {None}, ResolveCustomer(p, c, name, target)
      PROVE  OneInFlight'
  <2>1. UNCHANGED handler /\ \A q \in Patch : q # p => patch'[q] = patch[q]
    BY <1>6, PatchStarts DEF PatchMoves, ResolveCustomer, vars
  <2> QED BY <1>6, <2>1 DEF OneInFlight, Quiet, PatchBusy
<1>7. ASSUME UNCHANGED <<handler, patch>> PROVE OneInFlight'
  BY <1>7 DEF OneInFlight, PatchBusy
<1>8. \/ UNCHANGED <<handler, patch>>
      \/ Quiet /\ \E h \in Handler, r \in Request : Deliver(h, r) /\ Aside
      \/ Quiet /\ \E p \in Patch, c \in Customer, name \in Name \union {None},
            target \in NewTarget \union {None} : ResolveCustomer(p, c, name, target)
      \/ Progress
  BY DEF SerialNext, Arrival, Aside, NombaEvent, SetAccountStatus, OpenNamedAccount,
         OpenAccount, profileVars, vars
<1> QED BY <1>2, <1>3, <1>4, <1>5, <1>6, <1>7, <1>8 DEF Progress

\* Requests that follow one another contend for no row.
LEMMA InFlightUncontended ==
    ASSUME OneInFlight
    PROVE  UncontendedRow
BY DEF OneInFlight, UncontendedRow, Uncontended, HoldsBalance, PatchBusy

\* What a PATCH has done of what it was asked for, at each of its program
\* points, and what it has read since.
EffectOK(p) ==
    LET c == patch[p].who IN
    /\ patch[p].pc = "save" =>
          /\ patch[p].target # None => patch[p].row.target = patch[p].target
          /\ patch[p].name # None => patch[p].row.name = patch[p].name
    /\ patch[p].pc \in {"account", "rename", "nomba", "respond"} =>
          /\ patch[p].target # None => customer[c].target = patch[p].target
          /\ patch[p].name # None => customer[c].name = patch[p].name
    /\ patch[p].pc = "rename" => patch[p].status = accountStatus[c]
    /\ patch[p].pc \in {"nomba", "respond"} =>
          (patch[p].name # None => accountName[c] \in {None, patch[p].name})

\* What the one PATCH in flight does to the rows it has read or written.
LEMMA OwnStep ==
    ASSUME ProfileInv, NEW p \in Patch, PatchStep(p), EffectOK(p)
    PROVE  EffectOK(p)' /\ UNCHANGED accountStatus
<1> DEFINE c == patch[p].who
<1>0. /\ patch \in [Patch -> PatchState] /\ patch[p] \in PatchState /\ PatchLocalOK(p)
      /\ customer \in [Customer -> CustomerRow]
      /\ accountStatus \in [Customer -> AccountStatus \union {None}]
      /\ accountName \in [Customer -> Name \union {None}]
      /\ \A d \in Customer : accountName[d] = None <=> accountStatus[d] = None
  BY DEF ProfileInv, ProfileTypeOK, TypeOK
<1>1. ASSUME PatchOver(p) PROVE EffectOK(p)'
  BY <1>0, <1>1 DEF PatchOver, NotMade, EffectOK
<1>2. ASSUME NEW pc \in {"account", "nomba", "respond"}, PatchGoto(p, pc)
      PROVE  /\ patch'[p].pc = pc /\ patch'[p].who = c
             /\ patch'[p].name = patch[p].name /\ patch'[p].target = patch[p].target
  BY <1>0, <1>2 DEF PatchGoto, PatchState
<1>3. CASE SaveCustomer(p)
  <2>1. /\ patch[p].pc = "save" /\ c \in Customer /\ patch[p].row \in CustomerRow
        /\ customer'[c] = patch[p].row /\ UNCHANGED <<accountStatus, accountName>>
    BY <1>0, <1>3 DEF SaveCustomer, PatchLocalOK
  <2>2. \/ PatchGoto(p, "respond") /\ patch[p].name = None
        \/ PatchGoto(p, "account")
    BY <1>3 DEF SaveCustomer
  <2>3. CASE PatchGoto(p, "account")
    BY <1>2, <2>1, <2>3 DEF EffectOK
  <2>4. CASE PatchGoto(p, "respond") /\ patch[p].name = None
    BY <1>2, <2>1, <2>4 DEF EffectOK
  <2> QED BY <2>1, <2>2, <2>3, <2>4
<1>4. CASE FindAccount(p)
  <2>1. /\ patch[p].pc = "account" /\ c \in Customer
        /\ UNCHANGED <<customer, accountStatus, accountName>>
    BY <1>0, <1>4 DEF FindAccount, PatchLocalOK, vars, tables
  <2>2. CASE accountStatus[c] = None /\ PatchGoto(p, "respond")
    <3>1. accountName[c] = None
      BY <1>0, <2>1, <2>2
    <3> QED BY <1>2, <2>1, <2>2, <3>1 DEF EffectOK
  <2>3. CASE patch' = [patch EXCEPT ![p].pc = "rename", ![p].status = accountStatus[c]]
    <3>1. /\ patch'[p].pc = "rename" /\ patch'[p].who = c
          /\ patch'[p].name = patch[p].name /\ patch'[p].target = patch[p].target
          /\ patch'[p].status = accountStatus[c]
      BY <1>0, <2>3 DEF PatchState
    <3> QED BY <2>1, <3>1 DEF EffectOK
  <2> QED BY <1>4, <2>1, <2>2, <2>3 DEF FindAccount
<1>5. CASE RenameAccount(p)
  <2>1. /\ patch[p].pc = "rename" /\ c \in Customer /\ PatchGoto(p, "nomba")
        /\ accountName'[c] = patch[p].name /\ UNCHANGED customer
    BY <1>0, <1>5 DEF RenameAccount, PatchLocalOK
  <2>2. accountStatus' = [accountStatus EXCEPT ![c] = accountStatus[c]]
    BY <1>5, <2>1 DEF RenameAccount, EffectOK
  <2>3. accountStatus' = accountStatus
    BY <1>0, <2>1, <2>2
  <2> QED BY <1>2, <2>1, <2>3 DEF EffectOK
<1>6. CASE RenameAtNomba(p)
  <2>1. /\ patch[p].pc = "nomba" /\ UNCHANGED <<customer, accountStatus, accountName>>
        /\ PatchGoto(p, "respond") \/ PatchOver(p)
    BY <1>6 DEF RenameAtNomba, vars, tables
  <2>2. CASE PatchGoto(p, "respond")
    BY <1>2, <2>1, <2>2 DEF EffectOK
  <2> QED BY <1>1, <2>1, <2>2
<1>7. CASE Respond(p)
  BY <1>1, <1>7 DEF Respond, vars, tables
<1> QED BY <1>3, <1>4, <1>5, <1>6, <1>7 DEF PatchStep

EffectInv == OneInFlight /\ \A p \in Patch : EffectOK(p)

\* While a PATCH is in flight nothing happens but its own steps.
LEMMA EffectStep ==
    ASSUME ProfileInv, EffectInv, [SerialNext]_profileVars
    PROVE  \A p \in Patch : EffectOK(p)'
<1>1. TypeInv /\ patch \in [Patch -> PatchState]
  BY DEF ProfileInv, ProfileTypeOK, SettleInv, LedgerInv, WalletInv
<1>2. ASSUME NEW p \in Patch, patch'[p].pc \in {"start", "done"} PROVE EffectOK(p)'
  BY <1>2 DEF EffectOK
<1>3. CASE Quiet /\ UNCHANGED patch
  BY <1>2, <1>3 DEF Quiet, PatchBusy
<1>4. ASSUME Quiet, NEW p \in Patch, NEW c \in Customer, NEW name \in Name \union {None},
             NEW target \in NewTarget \union {None}, ResolveCustomer(p, c, name, target)
      PROVE  \A q \in Patch : EffectOK(q)'
  <2>1. customer[c] \in CustomerRow
    BY DEF ProfileInv, ProfileTypeOK, TypeOK
  <2>2. EffectOK(p)'
    BY <1>1, <1>4, <2>1 DEF ResolveCustomer, BodyApplied, CustomerRow, EffectOK
  <2>3. ASSUME NEW q \in Patch, q # p PROVE EffectOK(q)'
    <3>1. patch'[q] = patch[q]
      BY <1>4, <2>3, PatchStarts DEF PatchMoves
    <3> QED BY <1>2, <1>4, <3>1 DEF Quiet, PatchBusy
  <2> QED BY <2>2, <2>3
<1>5. ASSUME NEW h \in Handler, HandlerStep(h) \/ DatabaseError(h), Aside
      PROVE  \A q \in Patch : EffectOK(q)'
  <2>1. handler[h].pc # "idle" /\ UNCHANGED patch
    BY <1>1, <1>5, StepsInFlight DEF Aside
  <2> QED BY <1>2, <2>1 DEF EffectInv, OneInFlight, PatchBusy
<1>6. ASSUME NEW p \in Patch, PatchStep(p) \/ PatchDatabaseError(p)
      PROVE  \A q \in Patch : EffectOK(q)'
  <2>1. PatchBusy(p) /\ \E s : patch' = [patch EXCEPT ![p] = s]
    BY <1>6 DEF PatchStep, PatchDatabaseError, SaveCustomer, FindAccount, RenameAccount,
                RenameAtNomba, Respond, PatchGoto, PatchOver, PatchBusy
  <2>2. ASSUME NEW q \in Patch, q # p PROVE EffectOK(q)'
    <3>1. patch'[q] = patch[q] /\ ~PatchBusy(q)
      BY <1>1, <2>1, <2>2 DEF EffectInv, OneInFlight
    <3> QED BY <1>2, <3>1 DEF PatchBusy
  <2>3. EffectOK(p)'
    <3>1. CASE PatchStep(p)
      BY <3>1, OwnStep DEF EffectInv
    <3>2. CASE PatchDatabaseError(p)
      <4>1. patch'[p].pc = "done"
        BY <1>1, <3>2 DEF PatchDatabaseError, PatchOver, NotMade
      <4> QED BY <1>2, <4>1
    <3> QED BY <1>6, <3>1, <3>2
  <2> QED BY <2>2, <2>3
<1>7. CASE RestartAll
  <2>1. \A p \in Patch : patch'[p].pc \in {"start", "done"}
    BY <1>1, <1>7 DEF RestartAll, NotMade, PatchBusy
  <2> QED BY <1>2, <2>1
<1>8. CASE UNCHANGED profileVars
  BY <1>8 DEF EffectInv, EffectOK, profileVars, vars, tables
<1>9. \/ Quiet /\ UNCHANGED patch
      \/ Quiet /\ \E p \in Patch, c \in Customer, name \in Name \union {None},
            target \in NewTarget \union {None} : ResolveCustomer(p, c, name, target)
      \/ Progress
      \/ UNCHANGED profileVars
  BY DEF SerialNext, Arrival, Aside, OpenNamedAccount
<1> QED BY <1>3, <1>4, <1>5, <1>6, <1>7, <1>8, <1>9 DEF Progress

\* One request at a time is one way for the service to run.
LEMMA SerialIsProfile == SerialSpec => ProfileSpec
<1>1. [SerialNext]_profileVars => [Arrival \/ Progress]_profileVars
  BY DEF SerialNext
<1> QED BY <1>1, PTL DEF SerialSpec, ProfileSpec, SerialNext

LEMMA EffectInvariant == SerialSpec => []EffectInv
<1>1. ProfileInit => EffectInv
  BY DEF ProfileInit, Init, Idle, NotMade, EffectInv, OneInFlight, EffectOK, PatchBusy
<1>2. ProfileInv /\ EffectInv /\ [SerialNext]_profileVars => EffectInv'
  BY InFlightStep, EffectStep DEF EffectInv
<1> QED BY <1>1, <1>2, SerialIsProfile, ProfileInvariant, PTL DEF SerialSpec, SerialNext

\* When requests do not overlap, every audited credit is in its balance for
\* good, whatever PATCHes, deliveries and faults come between.
THEOREM SerialRequestsKeepCredits == SerialSpec => []AuditedCreditStands
<1>1. EffectInv => UncontendedRow
  BY InFlightUncontended DEF EffectInv
<1> QED BY <1>1, EffectInvariant, SerialIsProfile, UncontendedRowsKeepCredits, PTL

\* And a PATCH that is about to be answered has done what it was asked for: the
\* customer has the name and the target, and the account, if any, the name
\* (customers.py, update).
THEOREM SerialPatchTakesEffect == SerialSpec => []PatchTakesEffect
<1>1. EffectInv => PatchTakesEffect
  BY DEF EffectInv, EffectOK, PatchTakesEffect
<1> QED BY <1>1, EffectInvariant, PTL

\* And it leaves the status of the account, though it saves the one it read.
THEOREM SerialPatchLeavesStatus == SerialSpec => PatchLeavesStatus
<1>1. ProfileInv /\ EffectInv
         => [(\E p \in Patch : PatchStep(p)) => UNCHANGED accountStatus]_profileVars
  BY OwnStep DEF EffectInv
<1> QED BY <1>1, EffectInvariant, SerialIsProfile, ProfileInvariant, PTL
        DEF PatchLeavesStatus
=============================================================================
