---------------------------- MODULE SerialProofs ----------------------------
(***************************************************************************)
(* When credits stand.  An audited credit may be overwritten (LostCredit), *)
(* but only by a save that overlaps another of the same customer: as long  *)
(* as no handler saves a balance that a second one has read and is yet to  *)
(* save, every credit of the audit trail is in its balance, whatever the   *)
(* number of handlers, the faults and the redeliveries.                    *)
(***************************************************************************)
EXTENDS SettlementProofs

\* Handler h has read the row of customer c and is to save it, credited.
HoldsBalance(h, c) ==
    /\ handler[h].pc \in {"create", "credit"}
    /\ ~Quarantines(h)
    /\ handler[h].account = c

\* Whoever is about to save a balance is the only one that holds it.
Uncontended ==
    \A g, h \in Handler :
        handler[h].pc = "credit" /\ HoldsBalance(g, handler[h].account) => g = h

\* The balance a handler is about to add to is the one in the table.
FreshOK(h) ==
    \A c \in Customer : HoldsBalance(h, c) =>
        handler[h].row.wallet = customer[c].wallet

\* A payment that is about to be audited as credited is in the balance.
CountedOK(h) ==
    handler[h].pc = "log" /\ ~Quarantines(h) =>
        customer[handler[h].account].wallet[handler[h].request] = 1

SerialLocals == \A h \in Handler : FreshOK(h) /\ CountedOK(h)

SerialInv == SettleInv /\ SerialLocals /\ AuditedCreditStands

\* The save of a fresh balance adds its payment and takes none away.
LEMMA CreditAdds ==
    ASSUME SettleInv, SerialLocals, NEW h \in Handler, CreditWallet(h)
    PROVE  /\ handler[h].account \in Customer /\ handler[h].request \in Request
           /\ handler'[h].pc = "log"
           /\ handler'[h].request = handler[h].request
           /\ handler'[h].account = handler[h].account
           /\ customer'[handler[h].account].wallet[handler[h].request] = 1
           /\ \A c \in Customer, q \in Request :
                 customer[c].wallet[q] = 1 => customer'[c].wallet[q] = 1
<1> USE DEF SettleInv, LedgerInv, WalletInv
<1> DEFINE r == handler[h].request
           a == handler[h].account
<1>1. /\ r \in Request /\ a \in Customer /\ handler[h].row \in CustomerRow
      /\ handler'[h].pc = "log" /\ handler'[h].request = r /\ handler'[h].account = a
      /\ customer' = [customer EXCEPT ![a] = Credited(h)]
  BY CreditEffect DEF Moves
<1>2. handler[h].pc = "credit" /\ HoldsBalance(h, a)
  BY <1>1 DEF CreditWallet, HoldsBalance, StageOK
<1>3. handler[h].row.wallet = customer[a].wallet
  BY <1>1, <1>2 DEF SerialLocals, FreshOK
<1>4. handler[h].row.wallet[r] = 0
  BY <1>1, <1>2, RowIsNotNone DEF PendingOK, Nowhere
<1>5. /\ Credited(h).wallet[r] = handler[h].row.wallet[r] + 1
      /\ \A q \in Request : q # r => Credited(h).wallet[q] = handler[h].row.wallet[q]
  BY <1>1 DEF Credited, CustomerRow
<1>6. customer'[a] = Credited(h) /\ \A c \in Customer : c # a => customer'[c] = customer[c]
  BY <1>1 DEF TypeInv, TypeOK
<1>7. customer'[a].wallet[r] = 1
  BY <1>4, <1>5, <1>6
<1>8. ASSUME NEW c \in Customer, NEW q \in Request, customer[c].wallet[q] = 1
      PROVE  customer'[c].wallet[q] = 1
  <2>1. CASE c # a
    BY <1>6, <1>8, <2>1
  <2>2. CASE c = a /\ q = r
    BY <1>7, <2>2
  <2>3. CASE c = a /\ q # r
    BY <1>3, <1>5, <1>6, <1>8, <2>3
  <2> QED BY <2>1, <2>2, <2>3
<1> QED BY <1>1, <1>7, <1>8

\* Nobody else holds the balance that is saved, and what others have credited
\* is still in it.
LEMMA CreditStays ==
    ASSUME SettleInv, SerialLocals, Uncontended, NEW h \in Handler, CreditWallet(h)
    PROVE  SerialLocals'
<1> USE DEF SettleInv, LedgerInv, WalletInv
<1> DEFINE a == handler[h].account
<1>1. /\ a \in Customer /\ Others(h) /\ handler[h].pc = "credit"
      /\ handler'[h].pc = "log" /\ handler'[h].account = a
      /\ customer' = [customer EXCEPT ![a] = Credited(h)]
  BY CreditEffect DEF Moves, CreditWallet
<1>2. \A c \in Customer : c # a => customer'[c] = customer[c]
  BY <1>1
<1>3. /\ customer'[a].wallet[handler[h].request] = 1
      /\ handler'[h].request = handler[h].request
      /\ \A c \in Customer, q \in Request :
            customer[c].wallet[q] = 1 => customer'[c].wallet[q] = 1
  BY CreditAdds
<1>4. (FreshOK(h) /\ CountedOK(h))'
  BY <1>1, <1>3 DEF FreshOK, CountedOK, HoldsBalance
<1>5. ASSUME NEW g \in Handler, g # h PROVE (FreshOK(g) /\ CountedOK(g))'
  <2>1. handler'[g] = handler[g]
    BY <1>1, <1>5 DEF Others
  <2>2. FreshOK(g)'
    <3> SUFFICES ASSUME NEW c \in Customer, HoldsBalance(g, c)
                 PROVE  handler[g].row.wallet = customer'[c].wallet
      BY <2>1 DEF FreshOK, HoldsBalance, Quarantines
    <3>1. c # a
      BY <1>1, <1>5 DEF Uncontended
    <3> QED BY <1>2, <3>1 DEF SerialLocals, FreshOK
  <2>3. CountedOK(g)'
    <3> SUFFICES ASSUME handler[g].pc = "log", ~Quarantines(g)
                 PROVE  customer'[handler[g].account].wallet[handler[g].request] = 1
      BY <2>1 DEF CountedOK, Quarantines
    <3>1. handler[g].account \in Customer /\ handler[g].request \in Request
      BY HandlerType DEF Quarantines, HandlerState
    <3> QED BY <1>3, <3>1 DEF SerialLocals, CountedOK
  <2> QED BY <2>2, <2>3
<1> QED BY <1>4, <1>5 DEF SerialLocals

\* What a step leaves as it was for handler g.
LEMMA BystanderKeeps ==
    ASSUME SerialLocals, NEW g \in Handler, handler'[g] = handler[g], UNCHANGED customer
    PROVE  (FreshOK(g) /\ CountedOK(g))'
BY DEF SerialLocals, FreshOK, CountedOK, HoldsBalance, Quarantines

LEMMA LocalsSerial ==
    ASSUME SettleInv, SerialLocals, Uncontended, [Next]_vars
    PROVE  SerialLocals'
<1> USE DEF SettleInv, LedgerInv, WalletInv
<1>1. ASSUME NEW h \in Handler, Others(h), UNCHANGED customer, (FreshOK(h) /\ CountedOK(h))'
      PROVE  SerialLocals'
  BY <1>1, BystanderKeeps DEF Others, SerialLocals
<1>2. ASSUME UNCHANGED <<customer, handler>> PROVE SerialLocals'
  BY <1>2, BystanderKeeps DEF SerialLocals
<1>3. ASSUME NEW h \in Handler, Others(h), UNCHANGED customer,
             handler'[h].pc \notin {"create", "credit", "log"}
      PROVE  SerialLocals'
  BY <1>1, <1>3 DEF FreshOK, CountedOK, HoldsBalance
<1>4. CASE UNCHANGED vars
  BY <1>2, <1>4 DEF vars, tables
<1>5. CASE Environment
  <2>1. ASSUME NEW h \in Handler, NEW r \in Request,
               Deliver(h, r) \/ \E p \in Payload : Simulate(h, r, p)
        PROVE  SerialLocals'
    <3>1. Others(h) /\ handler'[h].pc = "check"
      BY <2>1, StartEffect DEF Deliver, Simulate
    <3>2. UNCHANGED customer
      BY <2>1 DEF Deliver, Simulate, tables
    <3> QED BY <1>3, <3>1, <3>2
  <2> QED BY <1>2, <1>5, <2>1
          DEF Environment, NombaEvent, Register, OpenAccount, SetAccountStatus, tables
<1>6. ASSUME NEW h \in Handler, Raise(h) \/ Return(h), UNCHANGED customer PROVE SerialLocals'
  <2>1. Others(h) /\ handler'[h].pc = "idle"
    BY <1>6, LeaveEffect
  <2> QED BY <1>3, <1>6, <2>1
<1>7. CASE Fault
  <2>1. ASSUME Restart PROVE SerialLocals'
    BY <2>1 DEF Restart, Idle, SerialLocals, FreshOK, CountedOK, HoldsBalance
  <2> QED BY <1>6, <1>7, <2>1 DEF Fault, DatabaseError, tables
<1>8. ASSUME NEW h \in Handler, UNCHANGED customer,
             NEW pc \in {"number", "reference", "emit", "suspend", "finish"}, Goto(h, pc)
      PROVE  SerialLocals'
  <2>1. Others(h) /\ handler'[h].pc = pc
    BY <1>8, GotoEffect DEF Moves, PC
  <2> QED BY <1>3, <1>8, <2>1
<1>9. ASSUME NEW h \in Handler, CheckProcessed(h) PROVE SerialLocals'
  BY <1>6, <1>8, <1>9 DEF CheckProcessed, tables
<1>10. ASSUME NEW h \in Handler, FindByNumber(h) \/ FindByReference(h) PROVE SerialLocals'
  <2>1. \/ Goto(h, "reference") \/ Goto(h, "create")
        \/ \E c \in Customer : Found(h, c)
    BY <1>10, HandlerType DEF FindByNumber, FindByReference, IsOpen, PayloadType
  <2>2. UNCHANGED customer
    BY <1>10 DEF FindByNumber, FindByReference, tables
  <2>3. CASE Goto(h, "create")
    <3>1. handler[h].account = None
      BY <1>10 DEF FindByNumber, FindByReference, TypeInv, LocalsOK, LocalOK
    <3>2. Others(h) /\ handler'[h].pc = "create" /\ handler'[h].account = None
      BY <2>3, <3>1, GotoEffect DEF Moves, PC
    <3> QED BY <1>1, <2>2, <3>2 DEF FreshOK, CountedOK, HoldsBalance, Quarantines
  <2>4. CASE \E c \in Customer : Found(h, c)
    <3>1. Others(h) /\ handler'[h].pc = "fetch"
      BY <2>4, FoundEffect DEF Moves
    <3> QED BY <1>3, <2>2, <3>1
  <2> QED BY <1>8, <2>1, <2>2, <2>3, <2>4
<1>11. ASSUME NEW h \in Handler, FetchCustomer(h) PROVE SerialLocals'
  <2>1. /\ Others(h) /\ handler'[h].pc = "create" /\ handler'[h].account = handler[h].account
        /\ handler'[h].row = customer[handler[h].account] /\ UNCHANGED customer
    BY <1>11, FetchEffect DEF FetchCustomer, Moves, tables
  <2> QED BY <1>1, <2>1 DEF FreshOK, CountedOK, HoldsBalance
<1>12. ASSUME NEW h \in Handler, CreateTransaction(h) PROVE SerialLocals'
  <2>1. handler[h].pc = "create" /\ UNCHANGED customer
    BY <1>12 DEF CreateTransaction
  <2>2. ASSUME Goto(h, "credit"), ~Quarantines(h) PROVE SerialLocals'
    <3>1. /\ Others(h) /\ handler'[h].pc = "credit"
          /\ handler'[h].account = handler[h].account /\ handler'[h].row = handler[h].row
      BY <2>2, GotoEffect DEF Moves, PC
    <3>2. \A c \in Customer : HoldsBalance(h, c)' => HoldsBalance(h, c)
      BY <2>1, <2>2, <3>1 DEF HoldsBalance
    <3> QED BY <1>1, <2>1, <3>1, <3>2 DEF SerialLocals, FreshOK, CountedOK
  <2>3. Raise(h) \/ Goto(h, "suspend") \/ (Goto(h, "credit") /\ ~Quarantines(h))
    BY <1>12 DEF CreateTransaction
  <2> QED BY <1>6, <1>8, <2>1, <2>2, <2>3
<1>13. ASSUME NEW h \in Handler, CreditWallet(h) PROVE SerialLocals'
  BY <1>13, CreditStays
<1>14. ASSUME NEW h \in Handler, WriteSuspense(h) PROVE SerialLocals'
  <2>1. handler[h].pc = "suspend" /\ Goto(h, "log") /\ UNCHANGED customer
    BY <1>14 DEF WriteSuspense
  <2>2. Quarantines(h)
    BY <2>1 DEF StageOK
  <2>3. Quarantines(h)'
    BY <2>1, <2>2, SeenStays DEF PC
  <2>4. Others(h) /\ handler'[h].pc = "log"
    BY <2>1, GotoEffect DEF Moves, PC
  <2> QED BY <1>1, <2>1, <2>3, <2>4 DEF FreshOK, CountedOK, HoldsBalance
<1>15. ASSUME NEW h \in Handler, WriteAudit(h) \/ RecordProcessed(h) PROVE SerialLocals'
  BY <1>6, <1>8, <1>15 DEF WriteAudit, RecordProcessed
<1>16. ASSUME NEW h \in Handler, LoadHooks(h) \/ \E k \in Hook : PostHook(h, k)
       PROVE  SerialLocals'
  <2>1. UNCHANGED customer
    BY <1>16 DEF LoadHooks, PostHook, tables
  <2>2. CASE LoadHooks(h)
    <3>1. Others(h) /\ handler'[h].pc \in {"finish", "post"}
      BY <2>2, LoadEffect DEF Moves
    <3> QED BY <1>3, <2>1, <3>1
  <2>3. ASSUME NEW k \in Hook, PostHook(h, k), ~Raise(h) PROVE SerialLocals'
    <3>1. Others(h) /\ handler'[h].pc \in {"finish", "post"}
      BY <2>3, PostEffect DEF Moves
    <3> QED BY <1>3, <2>1, <3>1
  <2> QED BY <1>6, <1>16, <2>1, <2>2, <2>3
<1> QED BY <1>4, <1>5, <1>7, <1>9, <1>10, <1>11, <1>12, <1>13, <1>14, <1>15, <1>16
        DEF Next, HandlerStep

\* What is audited and not in suspense stays in the balance.
LEMMA CreditStandsStep ==
    ASSUME SerialInv, [Next]_vars
    PROVE  AuditedCreditStands'
<1> USE DEF SerialInv, SettleInv, LedgerInv, WalletInv
<1>1. ASSUME NEW r \in Request, audit[r] # <<>>, suspense[r] = <<>>,
             \A c \in Customer : customer[c].wallet[r] = 1 => customer'[c].wallet[r] = 1
      PROVE  \E c \in Customer : transaction'[r].account = c /\ customer'[c].wallet[r] = 1
  <2>1. transaction[r] # None
    BY <1>1 DEF TransactionFirst
  <2>2. transaction'[r] = transaction[r]
    BY <2>1, RecordsGrow
  <2> QED BY <1>1, <2>2 DEF AuditedCreditStands
<1>2. CASE UNCHANGED <<audit, suspense, customer>>
  BY <1>1, <1>2 DEF AuditedCreditStands
<1>3. ASSUME NEW h \in Handler, CreditWallet(h) PROVE AuditedCreditStands'
  <2>1. UNCHANGED <<audit, suspense>>
    BY <1>3 DEF CreditWallet
  <2>2. \A c \in Customer, q \in Request :
           customer[c].wallet[q] = 1 => customer'[c].wallet[q] = 1
    BY <1>3, CreditAdds
  <2> QED BY <1>1, <2>1, <2>2 DEF AuditedCreditStands
<1>4. ASSUME NEW h \in Handler, WriteSuspense(h) PROVE AuditedCreditStands'
  <2>1. UNCHANGED <<audit, customer>>
    BY <1>4 DEF WriteSuspense
  <2>2. \A r \in Request : suspense'[r] = <<>> => suspense[r] = <<>>
    BY SuspenseStays
  <2> QED BY <1>1, <2>1, <2>2 DEF AuditedCreditStands
<1>5. ASSUME NEW h \in Handler, WriteAudit(h) PROVE AuditedCreditStands'
  <2> DEFINE r == handler[h].request
             a == handler[h].account
  <2>1. /\ handler[h].pc = "log" /\ r \in Request
        /\ UNCHANGED <<suspense, customer, transaction>>
    BY <1>5, HandlerType DEF WriteAudit
  <2>2. \A q \in Request : q # r => audit'[q] = audit[q]
    BY <1>5 DEF WriteAudit, TypeInv, TypeOK
  <2>3. ASSUME suspense[r] = <<>>
        PROVE  \E c \in Customer : transaction'[r].account = c /\ customer'[c].wallet[r] = 1
    <3>1. Len(suspense[r]) = (IF Quarantines(h) THEN 1 ELSE 0)
      BY <2>1 DEF StageOK
    <3>2. Len(suspense[r]) = 0
      BY <2>3
    <3>3. ~Quarantines(h)
      BY <3>1, <3>2
    <3>4. customer[a].wallet[r] = 1
      BY <2>1, <3>3 DEF SerialLocals, CountedOK
    <3>5. a \in Customer
      BY <2>1, <3>3, HandlerType DEF Quarantines, HandlerState
    <3>6. transaction[r].account = a
      BY <2>1 DEF OwnerOK, Owns
    <3> QED BY <2>1, <3>4, <3>5, <3>6
  <2> SUFFICES ASSUME NEW q \in Request, audit'[q] # <<>>, suspense'[q] = <<>>
               PROVE  \E c \in Customer : transaction'[q].account = c /\ customer'[c].wallet[q] = 1
    BY DEF AuditedCreditStands
  <2>4. CASE q = r
    BY <2>1, <2>3, <2>4
  <2>5. CASE q # r
    BY <1>1, <2>1, <2>2, <2>5
  <2> QED BY <2>4, <2>5
<1>6. \/ UNCHANGED <<audit, suspense, customer>>
      \/ \E h \in Handler : CreditWallet(h) \/ WriteSuspense(h) \/ WriteAudit(h)
  BY DEF Next, Environment, Fault, HandlerStep, vars, tables, NombaEvent, Deliver,
         Simulate, Register, OpenAccount, SetAccountStatus, CheckProcessed,
         FindByNumber, FindByReference, FetchCustomer, CreateTransaction,
         LoadHooks, PostHook, RecordProcessed, DatabaseError, Restart
<1> QED BY <1>2, <1>3, <1>4, <1>5, <1>6

LEMMA SerialInit == Init => SerialInv
<1> SUFFICES ASSUME Init PROVE SerialInv
  OBVIOUS
<1>1. SettleInv
  BY SettleInit
<1>2. SerialLocals /\ AuditedCreditStands
  BY DEF Init, Idle, SerialLocals, FreshOK, CountedOK, HoldsBalance, AuditedCreditStands
<1> QED BY <1>1, <1>2 DEF SerialInv

LEMMA SerialStep == SerialInv /\ Uncontended /\ [Next]_vars => SerialInv'
<1> SUFFICES ASSUME SerialInv, Uncontended, [Next]_vars PROVE SerialInv'
  OBVIOUS
<1>1. SettleInv'
  BY SettleStep DEF SerialInv
<1>2. SerialLocals'
  BY LocalsSerial DEF SerialInv
<1>3. AuditedCreditStands'
  BY CreditStandsStep
<1> QED BY <1>1, <1>2, <1>3 DEF SerialInv

\* Unless a balance is saved while another handler holds it to save it too, no
\* audited credit is lost: nothing else takes a credit away, be it a fault, a
\* redelivery or a handler of another customer (reconciliation.py,
\* process_payment).
THEOREM UncontendedCreditsStand == Spec /\ []Uncontended => []AuditedCreditStands
<1>1. SerialInv => AuditedCreditStands
  BY DEF SerialInv
<1> QED BY <1>1, SerialInit, SerialStep, PTL DEF Spec

\* In particular with handlers one at a time every credit of the audit trail
\* is in the customer's balance for good.
THEOREM SerialCreditsStand ==
    ASSUME \A g, h \in Handler : g = h
    PROVE  Spec => []AuditedCreditStands
<1>1. Uncontended
  BY DEF Uncontended
<1> QED BY <1>1, UncontendedCreditsStand, PTL
=============================================================================
