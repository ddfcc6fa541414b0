---------------------- MODULE PaymentProcessingProofs ----------------------
(***************************************************************************)
(* Theorems about PaymentProcessing, for any number of handlers, payments, *)
(* customers, merchant urls and faults.                                    *)
(***************************************************************************)
EXTENDS PaymentProcessing, TLAPS

-----------------------------------------------------------------------------
(***************************************************************************)
(* The inductive invariant.                                                *)
(***************************************************************************)

\* What the locals of a handler hold at each of its program points.
LocalOK(h) ==
    /\ handler[h].pc # "idle" =>
          handler[h].request # None /\ event[handler[h].request] # None
    /\ handler[h].pc \in {"check", "number", "reference"} =>
          handler[h].account = None /\ handler[h].row = None
    /\ handler[h].pc \in {"fetch", "credit", "emit", "post"} =>
          handler[h].account # None
    /\ handler[h].pc \notin {"check", "number", "reference", "fetch"} =>
          (handler[h].account # None => handler[h].row # None)

LocalsOK == \A h \in Handler : LocalOK(h)

TypeInv == TypeOK /\ LocalsOK

\* The handler has inserted the transaction of its request and is still
\* writing what belongs to it.
Owns(h) == handler[h].pc \in {"credit", "suspend", "log", "emit", "post"}

\* The unique insert elects one handler per payment, for ever.
OneOwner ==
    \A g, h \in Handler :
        Owns(g) /\ Owns(h) /\ handler[g].request = handler[h].request => g = h

\* The insert came first, and the owner works on the account it names.
OwnerOK(h) ==
    /\ Owns(h) =>
          /\ transaction[handler[h].request] # None
          /\ transaction[handler[h].request].account = handler[h].account
    /\ handler[h].pc = "finish" /\ IsPayment(handler[h].request) =>
          transaction[handler[h].request] # None

\* Payment r is in no balance, in no handler's copy of a balance and in no
\* suspense log.
Nowhere(r) ==
    /\ suspense[r] = <<>>
    /\ \A c \in Customer : customer[c].wallet[r] = 0
    /\ \A g \in Handler : handler[g].row # None => handler[g].row.wallet[r] = 0

\* So it is until its owner has credited or suspended it.
PendingOK(h) ==
    handler[h].pc \in {"credit", "suspend"} => Nowhere(handler[h].request)

\* A balance of c is made of payments recorded for c and not in suspense.
Backed(row, c) ==
    \A r \in Request :
        /\ row.wallet[r] \in {0, 1}
        /\ row.wallet[r] = 1 =>
              /\ transaction[r] # None
              /\ transaction[r].account = c
              /\ suspense[r] = <<>>

\* It is true of the stored balances and of the copies the handlers hold,
\* which is why saving a stale copy loses credits but invents none.
CopyOK(h) == handler[h].row # None => Backed(handler[h].row, handler[h].account)

SuspenseHasTransaction ==
    \A r \in Request : transaction[r] = None => suspense[r] = <<>>

WalletInv ==
    /\ TypeInv
    /\ OneOwner
    /\ \A h \in Handler : OwnerOK(h) /\ PendingOK(h) /\ CopyOK(h)
    /\ \A c \in Customer : Backed(customer[c], c)
    /\ SuspenseHasTransaction

\* url k has heard of payment r.
Heard(k, r) == \E i \in DOMAIN posted[k] : posted[k][i] = r

\* The urls an owner still has to tell have not heard of its payment.
TellOK(h) ==
    /\ handler[h].pc \in {"credit", "suspend", "log", "emit"} =>
          \A k \in Hook : ~Heard(k, handler[h].request)
    /\ handler[h].pc = "post" =>
          \A k \in handler[h].pending : ~Heard(k, handler[h].request)

LedgerInv ==
    /\ WalletInv
    /\ \A h \in Handler : TellOK(h)
    /\ \A k \in Hook, r \in Request : Heard(k, r) => transaction[r] # None
    /\ \A r \in processed : event[r] # None

-----------------------------------------------------------------------------
(***************************************************************************)
(* The pure operators.                                                     *)
(***************************************************************************)

\* The judgement of a payment is total: it covers every amount, received and
\* targeted (derive_transaction_status).
LEMMA DeriveType ==
    ASSUME NEW received \in Nat, NEW target \in Nat \union {None}
    PROVE  DeriveTransactionStatus(received, target) \in TransactionStatus
BY NoneIsNoAmount DEF DeriveTransactionStatus, TransactionStatus

\* Every status has a decision (_decision_for_status).
LEMMA DecisionType ==
    ASSUME NEW status \in TransactionStatus
    PROVE  DecisionForStatus(status) \in Decision
BY DEF DecisionForStatus, Decision, TransactionStatus

-----------------------------------------------------------------------------
(***************************************************************************)
(* Types.                                                                  *)
(***************************************************************************)

\* The status of a payment is defined wherever a handler asks for it.
LEMMA StatusType ==
    ASSUME TypeInv, NEW h \in Handler, handler[h].pc \in {"create", "log"}
    PROVE  StatusOf(h) \in TransactionStatus
<1>1. CASE Quarantines(h)
  BY <1>1 DEF StatusOf, TransactionStatus
<1>2. CASE ~Quarantines(h)
  <2>1. handler[h].account # None /\ handler[h].row # None
    BY <1>2 DEF TypeInv, LocalsOK, LocalOK, Quarantines
  <2>2. handler[h].row.target \in Nat \union {None}
    BY <2>1 DEF TypeInv, TypeOK, HandlerState, CustomerRow
  <2>3. event[handler[h].request] \in Payload
    BY NoneAssumption DEF TypeInv, TypeOK, LocalsOK, LocalOK, HandlerState
  <2>4. event[handler[h].request].amount \in Nat
    BY <2>3, PayloadAssumption DEF PayloadType
  <2> QED BY <1>2, <2>2, <2>4, DeriveType DEF StatusOf
<1> QED BY <1>1, <1>2

\* A row is never mistaken for the absent value.
LEMMA RowIsNotNone == \A row \in CustomerRow : row # None
BY RowAssumption

LEMMA TypeInit == Init => TypeInv
<1> SUFFICES ASSUME Init PROVE TypeInv
  OBVIOUS
<1>1. customer \in [Customer -> CustomerRow]
  <2>1. NothingAdded \in [Request -> Nat]
    BY DEF NothingAdded
  <2>2. \A row \in [wallet: {NothingAdded}, target: Target, name: Name] : row \in CustomerRow
    BY <2>1, TargetAssumption DEF CustomerRow
  <2> QED BY <2>2 DEF Init
<1>2. TypeOK
  BY <1>1 DEF Init, TypeOK, HandlerState, Idle, PC
<1>3. LocalsOK
  BY DEF Init, LocalsOK, LocalOK, Idle
<1> QED BY <1>2, <1>3 DEF TypeInv

-----------------------------------------------------------------------------
(***************************************************************************)
(* What each step does to the locals of its handler.                       *)
(***************************************************************************)

\* The handlers other than h stand still.
Others(h) == \A g \in Handler : g # h => handler'[g] = handler[g]

\* Handler h moves to pc and keeps its request.
Moves(h, pc) ==
    /\ handler' \in [Handler -> HandlerState]
    /\ Others(h)
    /\ handler'[h].pc = pc
    /\ handler'[h].request = handler[h].request

LEMMA UpdateEffect ==
    ASSUME TypeInv, NEW h \in Handler, NEW s \in HandlerState,
           handler' = [handler EXCEPT ![h] = s]
    PROVE  handler' \in [Handler -> HandlerState] /\ Others(h) /\ handler'[h] = s
BY DEF TypeInv, TypeOK, Others

LEMMA HandlerType ==
    ASSUME TypeInv, NEW h \in Handler
    PROVE  /\ handler[h] \in HandlerState
           /\ handler[h].pc # "idle" =>
                 /\ handler[h].request \in Request
                 /\ event[handler[h].request] \in Payload
                 /\ event[handler[h].request] \in PayloadType
BY NoneAssumption, PayloadAssumption DEF TypeInv, TypeOK, LocalsOK, LocalOK, HandlerState

\* A handler that leaves is idle and holds nothing.
LEMMA LeaveEffect ==
    ASSUME TypeInv, NEW h \in Handler, Raise(h) \/ Return(h)
    PROVE  /\ handler' \in [Handler -> HandlerState]
           /\ Others(h)
           /\ handler'[h].pc = "idle"
           /\ handler'[h].row = None
           /\ handler'[h].account = None
<1>1. Idle \in HandlerState /\ Idle.pc = "idle" /\ Idle.row = None /\ Idle.account = None
  BY DEF Idle, HandlerState, PC
<1>2. handler' = [handler EXCEPT ![h] = Idle]
  BY DEF Raise, Return
<1> QED BY <1>1, <1>2, UpdateEffect

LEMMA StartEffect ==
    ASSUME TypeInv, NEW h \in Handler, NEW r \in Request,
           handler' = [handler EXCEPT ![h] =
                          [Idle EXCEPT !.pc = "check", !.request = r]]
    PROVE  /\ handler' \in [Handler -> HandlerState]
           /\ Others(h)
           /\ handler'[h].pc = "check"
           /\ handler'[h].request = r
           /\ handler'[h].row = None
           /\ handler'[h].account = None
<1> DEFINE s == [Idle EXCEPT !.pc = "check", !.request = r]
<1>1. /\ s \in HandlerState /\ s.pc = "check" /\ s.request = r
      /\ s.row = None /\ s.account = None
  BY DEF Idle, HandlerState, PC
<1> HIDE DEF s
<1> QED BY <1>1, UpdateEffect DEF s

LEMMA GotoEffect ==
    ASSUME TypeInv, NEW h \in Handler, NEW pc \in PC, Goto(h, pc)
    PROVE  /\ Moves(h, pc)
           /\ handler'[h].account = handler[h].account
           /\ handler'[h].row = handler[h].row
           /\ handler'[h].pending = handler[h].pending
<1> DEFINE s == [handler[h] EXCEPT !.pc = pc]
<1>1. handler[h] \in HandlerState
  BY HandlerType
<1>2. /\ s \in HandlerState /\ s.pc = pc /\ s.request = handler[h].request
      /\ s.account = handler[h].account /\ s.row = handler[h].row
      /\ s.pending = handler[h].pending
  BY <1>1 DEF HandlerState
<1>3. handler' = [handler EXCEPT ![h] = s]
  BY DEF Goto
<1> HIDE DEF s
<1> QED BY <1>2, <1>3, UpdateEffect DEF Moves

LEMMA FoundEffect ==
    ASSUME TypeInv, NEW h \in Handler, NEW c \in Customer, Found(h, c)
    PROVE  /\ Moves(h, "fetch")
           /\ handler'[h].account = c
           /\ handler'[h].row = handler[h].row
<1> DEFINE s == [handler[h] EXCEPT !.pc = "fetch", !.account = c,
                                   !.seen = accountStatus[c]]
<1>1. handler[h] \in HandlerState /\ accountStatus[c] \in AccountStatus \union {None}
  BY HandlerType DEF TypeInv, TypeOK
<1>2. /\ s \in HandlerState /\ s.pc = "fetch" /\ s.request = handler[h].request
      /\ s.account = c /\ s.row = handler[h].row
  BY <1>1 DEF HandlerState, PC
<1>3. handler' = [handler EXCEPT ![h] = s]
  BY <1>1 DEF Found
<1> HIDE DEF s
<1> QED BY <1>2, <1>3, UpdateEffect DEF Moves

LEMMA FetchEffect ==
    ASSUME TypeInv, NEW h \in Handler, FetchCustomer(h)
    PROVE  /\ Moves(h, "create")
           /\ handler[h].account \in Customer
           /\ handler'[h].account = handler[h].account
           /\ handler'[h].row = customer[handler[h].account]
           /\ handler'[h].row \in CustomerRow
<1> DEFINE row == customer[handler[h].account]
           s == [handler[h] EXCEPT !.pc = "create", !.row = row]
<1>1. handler[h] \in HandlerState /\ handler[h].account \in Customer
  BY HandlerType DEF TypeInv, LocalsOK, LocalOK, FetchCustomer, HandlerState
<1>2. row \in CustomerRow
  BY <1>1 DEF TypeInv, TypeOK
<1> HIDE DEF row
<1>3. /\ s \in HandlerState /\ s.pc = "create" /\ s.request = handler[h].request
      /\ s.account = handler[h].account /\ s.row = row
  BY <1>1, <1>2 DEF HandlerState, PC
<1>4. handler' = [handler EXCEPT ![h] = s]
  BY DEF FetchCustomer, row
<1> HIDE DEF s
<1> QED BY <1>1, <1>2, <1>3, <1>4, UpdateEffect DEF Moves, row

\* The copy with the payment of the handler added.
Credited(h) == [handler[h].row EXCEPT !.wallet[handler[h].request] = @ + 1]

LEMMA CreditEffect ==
    ASSUME TypeInv, NEW h \in Handler, CreditWallet(h)
    PROVE  /\ Moves(h, "log")
           /\ handler[h].request \in Request
           /\ handler[h].account \in Customer
           /\ handler[h].row \in CustomerRow
           /\ handler'[h].account = handler[h].account
           /\ handler'[h].row = Credited(h)
           /\ Credited(h) \in CustomerRow
           /\ customer' = [customer EXCEPT ![handler[h].account] = Credited(h)]
<1> DEFINE s == [handler[h] EXCEPT !.pc = "log", !.row = Credited(h)]
<1>1. /\ handler[h] \in HandlerState
      /\ handler[h].request \in Request
      /\ handler[h].account \in Customer
      /\ handler[h].row \in CustomerRow
  BY HandlerType DEF TypeInv, LocalsOK, LocalOK, CreditWallet, HandlerState
<1>2. Credited(h) \in CustomerRow
  BY <1>1 DEF Credited, CustomerRow
<1>3. /\ s \in HandlerState /\ s.pc = "log" /\ s.request = handler[h].request
      /\ s.account = handler[h].account /\ s.row = Credited(h)
  BY <1>1, <1>2 DEF HandlerState, PC
<1>4. /\ handler' = [handler EXCEPT ![h] = s]
      /\ customer' = [customer EXCEPT ![handler[h].account] = Credited(h)]
  BY DEF CreditWallet, Credited
<1> HIDE DEF s
<1> QED BY <1>1, <1>2, <1>3, <1>4, UpdateEffect DEF Moves

LEMMA LoadEffect ==
    ASSUME TypeInv, NEW h \in Handler, LoadHooks(h)
    PROVE  \E pc \in {"finish", "post"} :
              /\ Moves(h, pc)
              /\ handler'[h].account = handler[h].account
              /\ handler'[h].row = handler[h].row
              /\ handler'[h].pending \subseteq Hook
<1> DEFINE subscribed == {k \in Hook : registration[k] = "payments"}
           pc == IF subscribed = {} THEN "finish" ELSE "post"
           s == [handler[h] EXCEPT !.pc = pc, !.pending = subscribed]
<1>1. handler[h] \in HandlerState /\ subscribed \subseteq Hook /\ pc \in {"finish", "post"}
  BY HandlerType
<1>2. handler' = [handler EXCEPT ![h] = s]
  BY DEF LoadHooks
<1> HIDE DEF subscribed, pc
<1>3. /\ s \in HandlerState /\ s.pc = pc /\ s.request = handler[h].request
      /\ s.account = handler[h].account /\ s.row = handler[h].row
      /\ s.pending \subseteq Hook
  BY <1>1 DEF HandlerState, PC
<1> HIDE DEF s
<1> QED BY <1>1, <1>2, <1>3, UpdateEffect DEF Moves

\* A POST either raises, or is done with the url and may have reached it.
LEMMA PostEffect ==
    ASSUME TypeInv, NEW h \in Handler, NEW k \in Hook, PostHook(h, k)
    PROVE  \/ Raise(h) /\ UNCHANGED posted
           \/ \E pc \in {"finish", "post"} :
                 /\ Moves(h, pc)
                 /\ handler'[h].account = handler[h].account
                 /\ handler'[h].row = handler[h].row
                 /\ handler'[h].pending = handler[h].pending \ {k}
                 /\ UNCHANGED answered
                 /\ \/ posted' = [posted EXCEPT ![k] = Append(@, handler[h].request)]
                    \/ UNCHANGED posted
<1> DEFINE pc == IF handler[h].pending = {k} THEN "finish" ELSE "post"
           s == [handler[h] EXCEPT !.pc = pc, !.pending = handler[h].pending \ {k}]
<1>1. CASE Raise(h) /\ UNCHANGED posted
  BY <1>1
<1>2. CASE ~(Raise(h) /\ UNCHANGED posted)
  <2>1. handler[h] \in HandlerState /\ pc \in {"finish", "post"}
    BY HandlerType
  <2>2. /\ handler' = [handler EXCEPT ![h] = s]
        /\ UNCHANGED answered
        /\ \/ posted' = [posted EXCEPT ![k] = Append(@, handler[h].request)]
           \/ UNCHANGED posted
    BY <1>2 DEF PostHook
  <2> HIDE DEF pc
  <2>3. /\ s \in HandlerState /\ s.pc = pc /\ s.request = handler[h].request
        /\ s.account = handler[h].account /\ s.row = handler[h].row
        /\ s.pending = handler[h].pending \ {k}
    BY <2>1 DEF HandlerState, PC
  <2> HIDE DEF s
  <2> QED BY <2>1, <2>2, <2>3, UpdateEffect DEF Moves
<1> QED BY <1>1, <1>2


\* A step of one handler that leaves the webhooks alone.
LEMMA LocalsStep ==
    ASSUME TypeInv, NEW h \in Handler, Others(h), event' = event, LocalOK(h)'
    PROVE  LocalsOK'
<1> SUFFICES ASSUME NEW g \in Handler, g # h PROVE LocalOK(g)'
  BY DEF LocalsOK
<1>1. handler'[g] = handler[g] /\ LocalOK(g)
  BY DEF Others, TypeInv, LocalsOK
<1> QED BY <1>1 DEF LocalOK

LEMMA TypeStep == TypeInv /\ [Next]_vars => TypeInv'
<1> SUFFICES ASSUME TypeInv, [Next]_vars PROVE TypeInv'
  OBVIOUS
<1>1. ASSUME NEW r \in Request, NEW p \in Payload, NombaEvent(r, p)
      PROVE  TypeInv'
  BY <1>1, NoneAssumption DEF NombaEvent, TypeInv, TypeOK, LocalsOK, LocalOK, tables
<1>2. ASSUME NEW h \in Handler, NEW r \in Request, Deliver(h, r)
      PROVE  TypeInv'
  <2>1. /\ handler' \in [Handler -> HandlerState]
        /\ Others(h)
        /\ handler'[h].pc = "check" /\ handler'[h].request = r
        /\ handler'[h].row = None /\ handler'[h].account = None
    BY <1>2, StartEffect DEF Deliver
  <2>2. TypeOK'
    BY <1>2, <2>1 DEF Deliver, TypeInv, TypeOK, tables
  <2>3. \A q \in Request : event[q] # None \/ q = r => event'[q] # None
    BY <1>2, NoneAssumption DEF Deliver, TypeInv, TypeOK
  <2>4. LocalsOK'
    <3> SUFFICES ASSUME NEW g \in Handler PROVE LocalOK(g)'
      BY DEF LocalsOK
    <3>1. CASE g = h
      BY <2>1, <2>3, <3>1, NoneAssumption DEF LocalOK
    <3>2. CASE g # h
      <4>1. handler'[g] = handler[g] /\ LocalOK(g)
        BY <2>1, <3>2 DEF Others, TypeInv, LocalsOK
      <4> QED BY <2>3, <4>1, HandlerType DEF LocalOK
    <3> QED BY <3>1, <3>2
  <2> QED BY <2>2, <2>4 DEF TypeInv
<1>3. ASSUME NEW h \in Handler, NEW r \in Request, NEW p \in Payload,
             Simulate(h, r, p)
      PROVE  TypeInv'
  <2>1. /\ handler' \in [Handler -> HandlerState]
        /\ Others(h)
        /\ handler'[h].pc = "check" /\ handler'[h].request = r
        /\ handler'[h].row = None /\ handler'[h].account = None
    BY <1>3, StartEffect DEF Simulate
  <2>2. TypeOK'
    BY <1>3, <2>1 DEF Simulate, TypeInv, TypeOK, tables
  <2>3. \A q \in Request : event[q] # None \/ q = r => event'[q] # None
    BY <1>3, NoneAssumption DEF Simulate, TypeInv, TypeOK
  <2>4. LocalsOK'
    <3> SUFFICES ASSUME NEW g \in Handler PROVE LocalOK(g)'
      BY DEF LocalsOK
    <3>1. CASE g = h
      BY <2>1, <2>3, <3>1, NoneAssumption DEF LocalOK
    <3>2. CASE g # h
      <4>1. handler'[g] = handler[g] /\ LocalOK(g)
        BY <2>1, <3>2 DEF Others, TypeInv, LocalsOK
      <4> QED BY <2>3, <4>1, HandlerType DEF LocalOK
    <3> QED BY <3>1, <3>2
  <2> QED BY <2>2, <2>4 DEF TypeInv
<1>4. ASSUME NEW k \in Hook, NEW e \in {"payments", "other"}, Register(k, e)
      PROVE  TypeInv'
  BY <1>4, NoneAssumption DEF Register, TypeInv, TypeOK, LocalsOK, LocalOK
<1>5. ASSUME NEW c \in Customer, OpenAccount(c)
      PROVE  TypeInv'
  BY <1>5, NoneAssumption DEF OpenAccount, TypeInv, TypeOK, LocalsOK, LocalOK, AccountStatus
<1>6. ASSUME NEW c \in Customer, NEW s \in AccountStatus, SetAccountStatus(c, s)
      PROVE  TypeInv'
  BY <1>6, NoneAssumption DEF SetAccountStatus, TypeInv, TypeOK, LocalsOK, LocalOK
<1>7. ASSUME NEW h \in Handler, CheckProcessed(h)
      PROVE  TypeInv'
  <2>1. CASE Return(h)
    <3>1. TypeOK'
      BY <1>7, <2>1, LeaveEffect, HandlerType DEF CheckProcessed, TypeInv, TypeOK, tables, Return
    <3>2. LocalsOK'
      BY <1>7, <2>1, LeaveEffect, LocalsStep DEF CheckProcessed, LocalOK
    <3> QED BY <3>1, <3>2 DEF TypeInv
  <2>2. ASSUME NEW pc \in {"finish", "number"}, Goto(h, pc), UNCHANGED answered
        PROVE  TypeInv'
    <3>1. TypeOK'
      BY <1>7, <2>2, GotoEffect DEF CheckProcessed, TypeInv, TypeOK, tables, Moves, PC
    <3>2. LocalOK(h)'
      BY <1>7, <2>2, GotoEffect DEF CheckProcessed, TypeInv, LocalsOK, LocalOK, Moves, PC
    <3>3. LocalsOK'
      BY <1>7, <2>2, <3>2, GotoEffect, LocalsStep DEF CheckProcessed, Moves, PC
    <3> QED BY <3>1, <3>3 DEF TypeInv
  <2> QED BY <1>7, <2>1, <2>2 DEF CheckProcessed
<1>8. ASSUME NEW h \in Handler, FindByNumber(h)
      PROVE  TypeInv'
  <2> DEFINE c == event[handler[h].request].number
  <2>1. CASE IsOpen(c) /\ Found(h, c)
    <3>1. c \in Customer
      BY <1>8, <2>1, HandlerType DEF FindByNumber, PayloadType, IsOpen
    <3>2. Found(h, c) /\ handler[h].pc = "number" /\ event' = event
          /\ UNCHANGED <<tables, posted, answered, faults>>
      BY <1>8, <2>1 DEF FindByNumber
    <3> HIDE DEF c
    <3>3. TypeOK'
      BY <3>1, <3>2, FoundEffect DEF TypeInv, TypeOK, tables, Moves
    <3>4. LocalOK(h)'
      BY <3>1, <3>2, FoundEffect, NoneAssumption DEF TypeInv, LocalsOK, LocalOK, Moves
    <3>5. LocalsOK'
      BY <3>1, <3>2, <3>4, FoundEffect, LocalsStep DEF Moves
    <3> QED BY <3>3, <3>5 DEF TypeInv
  <2>2. CASE Goto(h, "reference")
    <3>1. TypeOK'
      BY <1>8, <2>2, GotoEffect DEF FindByNumber, TypeInv, TypeOK, tables, Moves, PC
    <3>2. LocalOK(h)'
      BY <1>8, <2>2, GotoEffect DEF FindByNumber, TypeInv, LocalsOK, LocalOK, Moves, PC
    <3>3. LocalsOK'
      BY <1>8, <2>2, <3>2, GotoEffect, LocalsStep DEF FindByNumber, Moves, PC
    <3> QED BY <3>1, <3>3 DEF TypeInv
  <2> QED BY <1>8, <2>1, <2>2 DEF FindByNumber
<1>9. ASSUME NEW h \in Handler, FindByReference(h)
      PROVE  TypeInv'
  <2> DEFINE c == event[handler[h].request].ref
  <2>1. CASE IsOpen(c) /\ Found(h, c)
    <3>1. c \in Customer
      BY <1>9, <2>1, HandlerType DEF FindByReference, PayloadType, IsOpen
    <3>2. Found(h, c) /\ handler[h].pc = "reference" /\ event' = event
          /\ UNCHANGED <<tables, posted, answered, faults>>
      BY <1>9, <2>1 DEF FindByReference
    <3> HIDE DEF c
    <3>3. TypeOK'
      BY <3>1, <3>2, FoundEffect DEF TypeInv, TypeOK, tables, Moves
    <3>4. LocalOK(h)'
      BY <3>1, <3>2, FoundEffect, NoneAssumption DEF TypeInv, LocalsOK, LocalOK, Moves
    <3>5. LocalsOK'
      BY <3>1, <3>2, <3>4, FoundEffect, LocalsStep DEF Moves
    <3> QED BY <3>3, <3>5 DEF TypeInv
  <2>2. CASE Goto(h, "create")
    <3>1. TypeOK'
      BY <1>9, <2>2, GotoEffect DEF FindByReference, TypeInv, TypeOK, tables, Moves, PC
    <3>2. LocalOK(h)'
      BY <1>9, <2>2, GotoEffect DEF FindByReference, TypeInv, LocalsOK, LocalOK, Moves, PC
    <3>3. LocalsOK'
      BY <1>9, <2>2, <3>2, GotoEffect, LocalsStep DEF FindByReference, Moves, PC
    <3> QED BY <3>1, <3>3 DEF TypeInv
  <2> QED BY <1>9, <2>1, <2>2 DEF FindByReference
<1>10. ASSUME NEW h \in Handler, FetchCustomer(h)
      PROVE  TypeInv'
  <2>1. TypeOK'
    BY <1>10, FetchEffect DEF FetchCustomer, TypeInv, TypeOK, tables, Moves
  <2>2. LocalOK(h)'
    BY <1>10, FetchEffect, RowIsNotNone DEF FetchCustomer, TypeInv, LocalsOK, LocalOK, Moves
  <2>3. LocalsOK'
    BY <1>10, <2>2, FetchEffect, LocalsStep DEF FetchCustomer, Moves
  <2> QED BY <2>1, <2>3 DEF TypeInv
<1>11. ASSUME NEW h \in Handler, CreateTransaction(h)
      PROVE  TypeInv'
  <2> DEFINE r == handler[h].request
  <2>1. CASE Raise(h) /\ UNCHANGED transaction
    <3>1. TypeOK'
      BY <1>11, <2>1, LeaveEffect DEF CreateTransaction, TypeInv, TypeOK, Raise
    <3>2. LocalsOK'
      BY <1>11, <2>1, LeaveEffect, LocalsStep DEF CreateTransaction, LocalOK
    <3> QED BY <3>1, <3>2 DEF TypeInv
  <2>2. ASSUME transaction' = [transaction EXCEPT ![r] =
                   [account |-> handler[h].account, status |-> StatusOf(h)]],
               Goto(h, IF Quarantines(h) THEN "suspend" ELSE "credit"),
               UNCHANGED answered
        PROVE  TypeInv'
    <3>1. [account |-> handler[h].account, status |-> StatusOf(h)] \in TransactionRow
      BY <1>11, StatusType, HandlerType DEF CreateTransaction, HandlerState, TransactionRow
    <3>2. transaction' \in [Request -> TransactionRow \union {None}]
      BY <2>2, <3>1 DEF TypeInv, TypeOK
    <3>3. PICK pc \in {"suspend", "credit"} :
             Goto(h, pc) /\ (pc = "credit" => handler[h].account # None)
      BY <2>2 DEF Quarantines
    <3>4. TypeOK'
      BY <1>11, <2>2, <3>2, <3>3, GotoEffect
         DEF CreateTransaction, TypeInv, TypeOK, Moves, PC
    <3>5. LocalOK(h)'
      BY <1>11, <3>3, GotoEffect DEF CreateTransaction, TypeInv, LocalsOK, LocalOK, Moves, PC
    <3>6. LocalsOK'
      BY <1>11, <3>3, <3>5, GotoEffect, LocalsStep DEF CreateTransaction, Moves, PC
    <3> QED BY <3>4, <3>6 DEF TypeInv
  <2> QED BY <1>11, <2>1, <2>2 DEF CreateTransaction
<1>12. ASSUME NEW h \in Handler, CreditWallet(h)
      PROVE  TypeInv'
  <2>1. handler[h].pc = "credit" /\ event' = event
        /\ UNCHANGED <<accountStatus, transaction, suspense, audit, processed,
                       registration, posted, answered, faults>>
    BY <1>12 DEF CreditWallet
  <2>2. TypeOK'
    BY <1>12, <2>1, CreditEffect DEF TypeInv, TypeOK, Moves
  <2>3. LocalOK(h)'
    BY <1>12, <2>1, CreditEffect, RowIsNotNone DEF TypeInv, LocalsOK, LocalOK, Moves
  <2>4. LocalsOK'
    BY <1>12, <2>1, <2>3, CreditEffect, LocalsStep DEF Moves
  <2> QED BY <2>2, <2>4 DEF TypeInv
<1>13. ASSUME NEW h \in Handler, WriteSuspense(h)
      PROVE  TypeInv'
  <2>1. suspense' \in [Request -> Seq({"misdirected", "closed_account"})]
    BY <1>13, HandlerType DEF WriteSuspense, TypeInv, TypeOK
  <2>2. TypeOK'
    BY <1>13, <2>1, GotoEffect DEF WriteSuspense, TypeInv, TypeOK, Moves, PC
  <2>3. LocalOK(h)'
    BY <1>13, GotoEffect DEF WriteSuspense, TypeInv, LocalsOK, LocalOK, Moves, PC
  <2>4. LocalsOK'
    BY <1>13, <2>3, GotoEffect, LocalsStep DEF WriteSuspense, Moves, PC
  <2> QED BY <2>2, <2>4 DEF TypeInv
<1>14. ASSUME NEW h \in Handler, WriteAudit(h)
      PROVE  TypeInv'
  <2>1. DecisionForStatus(StatusOf(h)) \in Decision
    BY <1>14, StatusType, DecisionType DEF WriteAudit
  <2>2. audit' \in [Request -> Seq(Decision)]
    BY <1>14, <2>1, HandlerType DEF WriteAudit, TypeInv, TypeOK
  <2>3. PICK pc \in {"finish", "emit"} :
           Goto(h, pc) /\ (pc = "emit" => handler[h].account # None)
    BY <1>14 DEF WriteAudit, Quarantines
  <2>4. TypeOK'
    BY <1>14, <2>2, <2>3, GotoEffect DEF WriteAudit, TypeInv, TypeOK, Moves, PC
  <2>5. LocalOK(h)'
    BY <1>14, <2>3, GotoEffect DEF WriteAudit, TypeInv, LocalsOK, LocalOK, Moves, PC
  <2>6. LocalsOK'
    BY <1>14, <2>3, <2>5, GotoEffect, LocalsStep DEF WriteAudit, Moves, PC
  <2> QED BY <2>4, <2>6 DEF TypeInv
<1>15. ASSUME NEW h \in Handler, LoadHooks(h)
      PROVE  TypeInv'
  <2>1. handler[h].pc = "emit" /\ event' = event
        /\ UNCHANGED <<tables, posted, answered, faults>>
    BY <1>15 DEF LoadHooks
  <2>2. PICK pc \in {"finish", "post"} :
           /\ Moves(h, pc)
           /\ handler'[h].account = handler[h].account
           /\ handler'[h].row = handler[h].row
    BY <1>15, LoadEffect
  <2>3. TypeOK'
    BY <2>1, <2>2 DEF TypeInv, TypeOK, tables, Moves
  <2>4. LocalOK(h)'
    BY <2>1, <2>2 DEF TypeInv, LocalsOK, LocalOK, Moves
  <2>5. LocalsOK'
    BY <2>1, <2>2, <2>4, LocalsStep DEF Moves
  <2> QED BY <2>3, <2>5 DEF TypeInv
<1>16. ASSUME NEW h \in Handler, NEW k \in Hook, PostHook(h, k)
      PROVE  TypeInv'
  <2>1. handler[h].pc = "post" /\ event' = event /\ UNCHANGED <<tables, faults>>
    BY <1>16 DEF PostHook
  <2>2. CASE Raise(h) /\ UNCHANGED posted
    <3>1. TypeOK'
      BY <2>1, <2>2, LeaveEffect DEF TypeInv, TypeOK, tables, Raise
    <3>2. LocalsOK'
      BY <2>1, <2>2, LeaveEffect, LocalsStep DEF LocalOK
    <3> QED BY <3>1, <3>2 DEF TypeInv
  <2>3. CASE ~(Raise(h) /\ UNCHANGED posted)
    <3>1. PICK pc \in {"finish", "post"} :
             /\ Moves(h, pc)
             /\ handler'[h].account = handler[h].account
             /\ handler'[h].row = handler[h].row
             /\ UNCHANGED answered
             /\ \/ posted' = [posted EXCEPT ![k] = Append(@, handler[h].request)]
                \/ UNCHANGED posted
      BY <1>16, <2>3, PostEffect
    <3>2. handler[h].request \in Request
      BY <2>1, HandlerType
    <3>3. posted' \in [Hook -> Seq(Request)]
      <4>1. posted \in [Hook -> Seq(Request)]
        BY DEF TypeInv, TypeOK
      <4>2. Append(posted[k], handler[h].request) \in Seq(Request)
        BY <3>2, <4>1
      <4> QED BY <3>1, <4>1, <4>2
    <3>4. TypeOK'
      BY <2>1, <3>1, <3>3 DEF TypeInv, TypeOK, tables, Moves
    <3>5. LocalOK(h)'
      BY <2>1, <3>1 DEF TypeInv, LocalsOK, LocalOK, Moves
    <3>6. LocalsOK'
      BY <2>1, <3>1, <3>5, LocalsStep DEF Moves
    <3> QED BY <3>4, <3>6 DEF TypeInv
  <2> QED BY <2>2, <2>3
<1>17. ASSUME NEW h \in Handler, RecordProcessed(h)
      PROVE  TypeInv'
  <2>1. handler[h].request \in Request
    BY <1>17, HandlerType DEF RecordProcessed
  <2>2. Raise(h) \/ Return(h)
    BY <1>17 DEF RecordProcessed
  <2>3. TypeOK'
    BY <1>17, <2>1, <2>2, LeaveEffect
       DEF RecordProcessed, TypeInv, TypeOK, Raise, Return
  <2>4. LocalsOK'
    BY <1>17, <2>2, LeaveEffect, LocalsStep DEF RecordProcessed, LocalOK
  <2> QED BY <2>3, <2>4 DEF TypeInv
<1>18. ASSUME NEW h \in Handler, DatabaseError(h)
      PROVE  TypeInv'
  <2>1. TypeOK'
    <3>1. Raise(h) /\ faults' = faults + 1 /\ UNCHANGED <<event, tables, posted>>
      BY <1>18 DEF DatabaseError
    <3>2. handler' \in [Handler -> HandlerState] /\ answered' = answered
      BY <3>1, LeaveEffect DEF Raise
    <3> QED BY <3>1, <3>2 DEF TypeInv, TypeOK, tables
  <2>2. LocalsOK'
    BY <1>18, LeaveEffect, LocalsStep DEF DatabaseError, LocalOK
  <2> QED BY <2>1, <2>2 DEF TypeInv
<1>19. CASE Restart
  <2>1. Idle \in HandlerState /\ Idle.pc = "idle" /\ Idle.row = None /\ Idle.account = None
    BY DEF Idle, HandlerState, PC
  <2>2. TypeOK'
    BY <1>19, <2>1 DEF Restart, TypeInv, TypeOK, tables
  <2>3. LocalsOK'
    BY <1>19, <2>1 DEF Restart, LocalsOK, LocalOK
  <2> QED BY <2>2, <2>3 DEF TypeInv
<1>20. CASE UNCHANGED vars
  BY <1>20 DEF vars, tables, TypeInv, TypeOK, LocalsOK, LocalOK
<1> QED
  BY <1>1, <1>2, <1>3, <1>4, <1>5, <1>6, <1>7, <1>8, <1>9, <1>10, <1>11, <1>12,
     <1>13, <1>14, <1>15, <1>16, <1>17, <1>18, <1>19, <1>20
     DEF Next, Environment, Fault, HandlerStep

\* Every table, log and handler local holds a value of its type, whatever the
\* interleaving of the handlers and wherever the faults strike.
THEOREM TypeCorrect == Spec => []TypeOK
<1>1. Spec => []TypeInv
  BY TypeInit, TypeStep, PTL DEF Spec
<1>2. TypeInv => TypeOK
  BY DEF TypeInv
<1> QED BY <1>1, <1>2, PTL

-----------------------------------------------------------------------------
(***************************************************************************)
(* Balances.                                                               *)
(***************************************************************************)

LEMMA WalletInit == Init => WalletInv
<1> SUFFICES ASSUME Init PROVE WalletInv
  OBVIOUS
<1>1. \A h \in Handler : handler[h].pc = "idle" /\ handler[h].row = None
  BY DEF Init, Idle
<1>2. \A c \in Customer, r \in Request : customer[c].wallet[r] = 0
  BY DEF Init, NothingAdded
<1>3. OneOwner /\ \A h \in Handler : OwnerOK(h) /\ PendingOK(h) /\ CopyOK(h)
  BY <1>1 DEF OneOwner, Owns, OwnerOK, PendingOK, CopyOK
<1>4. \A c \in Customer : Backed(customer[c], c)
  BY <1>2 DEF Backed
<1>5. SuspenseHasTransaction
  BY DEF Init, SuspenseHasTransaction
<1> QED BY <1>3, <1>4, <1>5, TypeInit DEF WalletInv

\* What the balances, the transactions and the suspense log say is as before,
\* and no webhook that was sent changes.
RecordsStand ==
    /\ UNCHANGED <<customer, transaction, suspense>>
    /\ \A q \in Request : event[q] # None => event'[q] = event[q]

\* A step that neither writes the records nor moves a handler.
LEMMA StillStep ==
    ASSUME WalletInv, TypeInv', RecordsStand, UNCHANGED handler
    PROVE  WalletInv'
<1>1. OneOwner' /\ SuspenseHasTransaction'
  BY DEF WalletInv, RecordsStand, OneOwner, Owns, SuspenseHasTransaction
<1>2. \A c \in Customer : Backed(customer[c], c)'
  BY DEF WalletInv, RecordsStand, Backed
<1>3. ASSUME NEW h \in Handler PROVE (OwnerOK(h) /\ PendingOK(h) /\ CopyOK(h))'
  <2>1. OwnerOK(h)'
    BY HandlerType DEF WalletInv, RecordsStand, OwnerOK, Owns, IsPayment, TypeInv,
       LocalsOK, LocalOK
  <2>2. PendingOK(h)'
    BY DEF WalletInv, RecordsStand, PendingOK, Nowhere
  <2>3. CopyOK(h)'
    BY DEF WalletInv, RecordsStand, CopyOK, Backed
  <2> QED BY <2>1, <2>2, <2>3
<1> QED BY <1>1, <1>2, <1>3 DEF WalletInv

\* A step that moves a handler without writing the records: it may leave, go
\* on as an owner towards the end, or work its way to the insert.
Silent(h) ==
    /\ Others(h)
    /\ RecordsStand
    /\ Owns(h)' =>
          /\ Owns(h)
          /\ handler'[h].pc \notin {"credit", "suspend"}
          /\ handler'[h].request = handler[h].request
          /\ handler'[h].account = handler[h].account
    /\ handler'[h].pc = "finish" =>
          (IsPayment(handler[h].request)' => transaction[handler'[h].request] # None)
    /\ \/ handler'[h].row = None
       \/ /\ handler'[h].row = handler[h].row
          /\ handler'[h].account = handler[h].account

LEMMA QuietStep ==
    ASSUME WalletInv, TypeInv', NEW h \in Handler, Silent(h)
    PROVE  WalletInv'
<1>1. OneOwner'
  BY DEF WalletInv, Silent, Others, OneOwner, Owns
<1>2. SuspenseHasTransaction'
  BY DEF WalletInv, Silent, RecordsStand, SuspenseHasTransaction
<1>3. \A c \in Customer : Backed(customer[c], c)'
  BY DEF WalletInv, Silent, RecordsStand, Backed
<1>4. ASSUME NEW r \in Request, Nowhere(r) PROVE Nowhere(r)'
  BY <1>4 DEF Silent, RecordsStand, Others, Nowhere
<1>5. ASSUME NEW g \in Handler PROVE (OwnerOK(g) /\ PendingOK(g) /\ CopyOK(g))'
  <2>1. CASE g = h
    <3>1. OwnerOK(h)'
      BY DEF WalletInv, Silent, RecordsStand, OwnerOK, Owns
    <3>2. PendingOK(h)'
      BY DEF Silent, PendingOK, Owns
    <3>3. CopyOK(h)'
      BY DEF WalletInv, Silent, RecordsStand, CopyOK, Backed
    <3> QED BY <2>1, <3>1, <3>2, <3>3
  <2>2. CASE g # h
    <3>1. handler'[g] = handler[g]
      BY <2>2 DEF Silent, Others
    <3>2. OwnerOK(g)'
      BY <3>1, HandlerType DEF WalletInv, Silent, RecordsStand, OwnerOK, Owns,
         IsPayment, TypeInv, LocalsOK, LocalOK
    <3>3. PendingOK(g)'
      BY <1>4, <3>1, HandlerType DEF WalletInv, PendingOK
    <3>4. CopyOK(g)'
      BY <3>1 DEF WalletInv, Silent, RecordsStand, CopyOK, Backed
    <3> QED BY <3>2, <3>3, <3>4
  <2> QED BY <2>1, <2>2
<1> QED BY <1>1, <1>2, <1>3, <1>5 DEF WalletInv

\* The handler's own steps that write none of the records.
LEMMA QuietActions ==
    ASSUME WalletInv, TypeInv', NEW h \in Handler,
           \/ CheckProcessed(h) \/ FindByNumber(h) \/ FindByReference(h)
           \/ WriteAudit(h) \/ LoadHooks(h) \/ RecordProcessed(h)
           \/ DatabaseError(h) \/ \E k \in Hook : PostHook(h, k)
    PROVE  Silent(h)
<1> USE DEF WalletInv
<1>0. ASSUME RecordsStand, Raise(h) \/ Return(h) PROVE Silent(h)
  <2>1. Others(h) /\ handler'[h].pc = "idle" /\ handler'[h].row = None
    BY <1>0, LeaveEffect
  <2> QED BY <1>0, <2>1 DEF Silent, Owns
<1>1. CASE CheckProcessed(h)
  <2>1. RecordsStand /\ handler[h].pc = "check"
    BY <1>1 DEF CheckProcessed, RecordsStand, tables
  <2>2. CASE Return(h)
    BY <1>0, <2>1, <2>2
  <2>3. CASE event[handler[h].request].kind = "ignored" /\ Goto(h, "finish")
    <3>1. ~IsPayment(handler[h].request)'
      BY <1>1, <2>3, GotoEffect DEF CheckProcessed, Moves, IsPayment, PC
    <3> QED BY <2>1, <2>3, <3>1, GotoEffect DEF Silent, Owns, Moves, PC
  <2>4. CASE Goto(h, "number")
    BY <2>1, <2>4, GotoEffect DEF Silent, Owns, Moves, PC
  <2> QED BY <1>1, <2>2, <2>3, <2>4 DEF CheckProcessed
<1>2. CASE FindByNumber(h) \/ FindByReference(h)
  <2>1. RecordsStand /\ handler[h].pc \in {"number", "reference"}
    BY <1>2 DEF FindByNumber, FindByReference, RecordsStand, tables
  <2>2. CASE \E c \in Customer : Found(h, c)
    <3>1. handler[h].row = None
      BY <2>1 DEF TypeInv, LocalsOK, LocalOK
    <3>2. Moves(h, "fetch") /\ handler'[h].row = handler[h].row
      BY <2>2, FoundEffect
    <3> QED BY <2>1, <3>1, <3>2 DEF Silent, Owns, Moves
  <2>3. CASE \E pc \in {"reference", "create"} : Goto(h, pc)
    BY <2>1, <2>3, GotoEffect DEF Silent, Owns, Moves, PC
  <2>4. /\ IsOpen(event[handler[h].request].number) =>
              event[handler[h].request].number \in Customer
        /\ IsOpen(event[handler[h].request].ref) =>
              event[handler[h].request].ref \in Customer
    BY <2>1, HandlerType DEF PayloadType, IsOpen
  <2> QED BY <1>2, <2>2, <2>3, <2>4 DEF FindByNumber, FindByReference
<1>3. CASE WriteAudit(h)
  <2>1. RecordsStand /\ handler[h].pc = "log"
    BY <1>3 DEF WriteAudit, RecordsStand
  <2>2. PICK pc \in {"finish", "emit"} : Goto(h, pc)
    BY <1>3 DEF WriteAudit
  <2>3. transaction[handler[h].request] # None
    BY <2>1 DEF OwnerOK, Owns
  <2> QED BY <2>1, <2>2, <2>3, GotoEffect DEF Silent, Owns, Moves, PC
<1>4. CASE LoadHooks(h)
  <2>1. RecordsStand /\ handler[h].pc = "emit"
    BY <1>4 DEF LoadHooks, RecordsStand, tables
  <2>2. transaction[handler[h].request] # None
    BY <2>1 DEF OwnerOK, Owns
  <2> QED BY <1>4, <2>1, <2>2, LoadEffect DEF Silent, Owns, Moves
<1>5. ASSUME NEW k \in Hook, PostHook(h, k) PROVE Silent(h)
  <2>1. RecordsStand /\ handler[h].pc = "post"
    BY <1>5 DEF PostHook, RecordsStand, tables
  <2>2. transaction[handler[h].request] # None
    BY <2>1 DEF OwnerOK, Owns
  <2>3. CASE Raise(h)
    BY <1>0, <2>1, <2>3
  <2>4. CASE ~Raise(h)
    <3>1. PICK pc \in {"finish", "post"} :
             /\ Moves(h, pc)
             /\ handler'[h].account = handler[h].account
             /\ handler'[h].row = handler[h].row
      BY <1>5, <2>4, PostEffect
    <3> QED BY <2>1, <2>2, <3>1 DEF Silent, Owns, Moves
  <2> QED BY <2>3, <2>4
<1>6. CASE RecordProcessed(h) \/ DatabaseError(h)
  BY <1>0, <1>6 DEF RecordProcessed, DatabaseError, RecordsStand, tables
<1> QED BY <1>1, <1>2, <1>3, <1>4, <1>5, <1>6

\* The copy fetched is as backed as the stored row.
LEMMA FetchStep ==
    ASSUME WalletInv, TypeInv', NEW h \in Handler, FetchCustomer(h)
    PROVE  WalletInv'
<1>1. /\ RecordsStand /\ Others(h) /\ handler'[h].pc = "create"
      /\ handler[h].account \in Customer
      /\ handler'[h].account = handler[h].account
      /\ handler'[h].row = customer[handler[h].account]
  BY FetchEffect DEF WalletInv, FetchCustomer, RecordsStand, tables, Moves
<1>2. OneOwner' /\ SuspenseHasTransaction'
  BY <1>1 DEF WalletInv, RecordsStand, Others, OneOwner, Owns, SuspenseHasTransaction
<1>3. \A c \in Customer : Backed(customer[c], c)'
  BY <1>1 DEF WalletInv, RecordsStand, Backed
<1>4. ASSUME NEW r \in Request, Nowhere(r) PROVE Nowhere(r)'
  <2>1. ASSUME NEW g \in Handler, handler'[g].row # None
        PROVE  handler'[g].row.wallet[r] = 0
    BY <1>1, <1>4, <2>1 DEF Others, Nowhere
  <2> QED BY <1>1, <1>4, <2>1 DEF RecordsStand, Nowhere
<1>5. ASSUME NEW g \in Handler PROVE (OwnerOK(g) /\ PendingOK(g) /\ CopyOK(g))'
  <2>1. CASE g = h
    <3>1. OwnerOK(h)' /\ PendingOK(h)'
      BY <1>1 DEF OwnerOK, PendingOK, Owns
    <3>2. CopyOK(h)'
      BY <1>1 DEF WalletInv, RecordsStand, CopyOK, Backed
    <3> QED BY <2>1, <3>1, <3>2
  <2>2. CASE g # h
    <3>1. handler'[g] = handler[g]
      BY <1>1, <2>2 DEF Others
    <3>2. OwnerOK(g)'
      BY <1>1, <3>1, HandlerType DEF WalletInv, RecordsStand, OwnerOK, Owns,
         IsPayment, TypeInv, LocalsOK, LocalOK
    <3>3. PendingOK(g)'
      BY <1>4, <3>1, HandlerType DEF WalletInv, PendingOK
    <3>4. CopyOK(g)'
      BY <1>1, <3>1 DEF WalletInv, RecordsStand, CopyOK, Backed
    <3> QED BY <3>2, <3>3, <3>4
  <2> QED BY <2>1, <2>2
<1> QED BY <1>2, <1>3, <1>5 DEF WalletInv

\* The insert finds the payment nowhere: no transaction, so nothing counted.
LEMMA CreateStep ==
    ASSUME WalletInv, TypeInv', NEW h \in Handler, CreateTransaction(h)
    PROVE  WalletInv'
<1> DEFINE r == handler[h].request
<1>0. handler[h].pc = "create" /\ r \in Request
  BY HandlerType DEF CreateTransaction, WalletInv
<1>1. CASE Raise(h) /\ UNCHANGED transaction
  <2>1. RecordsStand
    BY <1>1 DEF CreateTransaction, RecordsStand
  <2>2. Silent(h)
    BY <1>1, <2>1, LeaveEffect DEF WalletInv, Silent, Owns
  <2> QED BY <2>2, QuietStep
<1>2. CASE ~(Raise(h) /\ UNCHANGED transaction)
  <2> DEFINE pc == IF Quarantines(h) THEN "suspend" ELSE "credit"
  <2>1. /\ transaction[r] = None
        /\ transaction' = [transaction EXCEPT ![r] =
              [account |-> handler[h].account, status |-> StatusOf(h)]]
        /\ Goto(h, pc)
        /\ UNCHANGED <<event, customer, suspense>>
    BY <1>2 DEF CreateTransaction
  <2>2. pc \in {"suspend", "credit"}
    OBVIOUS
  <2> HIDE DEF pc
  <2>3. /\ Others(h) /\ handler'[h].pc = pc /\ handler'[h].request = r
        /\ handler'[h].account = handler[h].account
        /\ handler'[h].row = handler[h].row
    BY <2>1, <2>2, GotoEffect DEF WalletInv, Moves, PC
  <2>4. /\ transaction'[r].account = handler[h].account
        /\ transaction'[r] # None
        /\ \A q \in Request : q # r => transaction'[q] = transaction[q]
    <3>1. transaction \in [Request -> TransactionRow \union {None}]
      BY DEF WalletInv, TypeInv, TypeOK
    <3>2. [account |-> handler[h].account, status |-> StatusOf(h)] \in TransactionRow
      BY <1>0, StatusType, HandlerType DEF WalletInv, HandlerState, TransactionRow
    <3> QED BY <1>0, <2>1, <3>1, <3>2, RowAssumption
  <2>5. ASSUME NEW row, NEW c, Backed(row, c) PROVE Backed(row, c)'
    BY <2>1, <2>4, <2>5 DEF Backed
  <2>6. \A c \in Customer : Backed(customer[c], c)'
    BY <2>1, <2>5 DEF WalletInv, Backed
  <2>7. \A g \in Handler : CopyOK(g)'
    BY <2>3, <2>5 DEF WalletInv, CopyOK, Others
  <2>8. Nowhere(r)
    <3>1. suspense[r] = <<>>
      BY <1>0, <2>1 DEF WalletInv, SuspenseHasTransaction
    <3>2. \A row, c : Backed(row, c) => row.wallet[r] = 0
      BY <1>0, <2>1 DEF Backed
    <3> QED BY <3>1, <3>2 DEF WalletInv, Nowhere, CopyOK
  <2>9. ASSUME NEW q \in Request, Nowhere(q) PROVE Nowhere(q)'
    BY <2>1, <2>3, <2>9 DEF Nowhere, Others
  <2>10. \A g \in Handler : g # h /\ Owns(g) => handler[g].request # r
    BY <2>1 DEF WalletInv, OwnerOK
  <2>11. OneOwner'
    BY <2>3, <2>10 DEF WalletInv, OneOwner, Owns, Others
  <2>12. SuspenseHasTransaction'
    BY <2>1, <2>4 DEF WalletInv, SuspenseHasTransaction
  <2>13. ASSUME NEW g \in Handler PROVE OwnerOK(g)' /\ PendingOK(g)'
    <3>1. CASE g = h
      <4>1. PendingOK(h)'
        BY <1>0, <2>3, <2>8, <2>9 DEF PendingOK
      <4>2. OwnerOK(h)'
        BY <2>2, <2>3, <2>4 DEF OwnerOK, Owns
      <4> QED BY <3>1, <4>1, <4>2
    <3>2. CASE g # h
      <4>1. handler'[g] = handler[g]
        BY <2>3, <3>2 DEF Others
      <4>2. PendingOK(g)'
        BY <2>9, <4>1, HandlerType DEF WalletInv, PendingOK
      <4>3. OwnerOK(g)'
        BY <2>1, <2>4, <2>10, <3>2, <4>1, HandlerType
           DEF WalletInv, OwnerOK, Owns, IsPayment
      <4> QED BY <4>2, <4>3
    <3> QED BY <3>1, <3>2
  <2> QED BY <2>6, <2>7, <2>11, <2>12, <2>13 DEF WalletInv
<1> QED BY <1>1, <1>2

\* Only the owner adds its payment, once, to a copy of its own customer's row.
LEMMA CreditStep ==
    ASSUME WalletInv, TypeInv', NEW h \in Handler, CreditWallet(h)
    PROVE  WalletInv'
<1> DEFINE r == handler[h].request
           a == handler[h].account
<1>1. /\ handler[h].pc = "credit"
      /\ UNCHANGED <<event, transaction, suspense>>
  BY DEF CreditWallet
<1>2. /\ Others(h) /\ handler'[h].pc = "log" /\ handler'[h].request = r
      /\ r \in Request /\ a \in Customer
      /\ handler[h].row \in CustomerRow
      /\ handler'[h].account = a
      /\ handler'[h].row = Credited(h)
      /\ customer' = [customer EXCEPT ![a] = Credited(h)]
  BY CreditEffect DEF WalletInv, Moves
<1>3. /\ transaction[r] # None /\ transaction[r].account = a
      /\ suspense[r] = <<>>
      /\ handler[h].row # None => handler[h].row.wallet[r] = 0
  BY <1>1 DEF WalletInv, OwnerOK, Owns, PendingOK, Nowhere
<1>4. /\ Credited(h).wallet[r] = handler[h].row.wallet[r] + 1
      /\ \A q \in Request : q # r =>
            Credited(h).wallet[q] = handler[h].row.wallet[q]
  BY <1>2 DEF Credited, CustomerRow
<1>5. handler[h].row # None /\ Backed(handler[h].row, a)
  BY <1>2, RowIsNotNone DEF WalletInv, CopyOK
<1>6. Backed(Credited(h), a)
  BY <1>3, <1>4, <1>5 DEF Backed
<1>7. ASSUME NEW row, NEW c, Backed(row, c) PROVE Backed(row, c)'
  BY <1>1, <1>7 DEF Backed
<1>8. customer'[a] = Credited(h) /\ \A c \in Customer : c # a => customer'[c] = customer[c]
  BY <1>2 DEF WalletInv, TypeInv, TypeOK
<1>9. \A c \in Customer : Backed(customer[c], c)'
  BY <1>1, <1>6, <1>8 DEF WalletInv, Backed
<1>10. ASSUME NEW q \in Request, q # r, Nowhere(q) PROVE Nowhere(q)'
  <2>1. Credited(h).wallet[q] = 0
    BY <1>4, <1>5, <1>10 DEF Nowhere
  <2>2. \A c \in Customer : customer'[c].wallet[q] = 0
    BY <1>8, <1>10, <2>1 DEF Nowhere
  <2>3. ASSUME NEW g \in Handler, handler'[g].row # None
        PROVE  handler'[g].row.wallet[q] = 0
    BY <1>2, <1>10, <2>1, <2>3 DEF Nowhere, Others
  <2> QED BY <1>1, <1>10, <2>2, <2>3 DEF Nowhere
<1>11. OneOwner' /\ SuspenseHasTransaction'
  BY <1>1, <1>2 DEF WalletInv, OneOwner, Owns, Others, SuspenseHasTransaction
<1>12. ASSUME NEW g \in Handler PROVE (OwnerOK(g) /\ PendingOK(g) /\ CopyOK(g))'
  <2>1. CASE g = h
    <3>1. OwnerOK(h)' /\ PendingOK(h)'
      BY <1>1, <1>2, <1>3 DEF OwnerOK, PendingOK, Owns
    <3>2. CopyOK(h)'
      BY <1>1, <1>2, <1>6 DEF CopyOK, Backed
    <3> QED BY <2>1, <3>1, <3>2
  <2>2. CASE g # h
    <3>1. handler'[g] = handler[g]
      BY <1>2, <2>2 DEF Others
    <3>2. OwnerOK(g)'
      BY <1>1, <3>1 DEF WalletInv, OwnerOK, Owns, IsPayment
    <3>3. CopyOK(g)'
      BY <1>1, <3>1 DEF WalletInv, CopyOK, Backed
    <3>4. PendingOK(g)'
      <4>1. CASE handler[g].pc \in {"credit", "suspend"}
        <5>1. handler[g].request \in Request /\ handler[g].request # r
          BY <1>1, <2>2, <4>1, HandlerType DEF WalletInv, OneOwner, Owns
        <5>2. Nowhere(handler[g].request)
          BY <4>1 DEF WalletInv, PendingOK
        <5> QED BY <1>10, <3>1, <5>1, <5>2 DEF PendingOK
      <4>2. CASE handler[g].pc \notin {"credit", "suspend"}
        BY <3>1, <4>2 DEF PendingOK
      <4> QED BY <4>1, <4>2
    <3> QED BY <3>2, <3>3, <3>4
  <2> QED BY <2>1, <2>2
<1> QED BY <1>9, <1>11, <1>12 DEF WalletInv

\* A payment that goes into suspense is in no balance.
LEMMA SuspenseStep ==
    ASSUME WalletInv, TypeInv', NEW h \in Handler, WriteSuspense(h)
    PROVE  WalletInv'
<1> DEFINE r == handler[h].request
<1>1. /\ handler[h].pc = "suspend"
      /\ UNCHANGED <<event, customer, transaction>>
      /\ r \in Request
  BY HandlerType DEF WalletInv, WriteSuspense
<1>2. /\ Others(h) /\ handler'[h].pc = "log" /\ handler'[h].request = r
      /\ handler'[h].account = handler[h].account
      /\ handler'[h].row = handler[h].row
  BY GotoEffect DEF WalletInv, WriteSuspense, Moves, PC
<1>3. \A q \in Request : q # r => suspense'[q] = suspense[q]
  BY DEF WalletInv, TypeInv, TypeOK, WriteSuspense
<1>4. transaction[r] # None /\ transaction[r].account = handler[h].account /\ Nowhere(r)
  BY <1>1 DEF WalletInv, OwnerOK, Owns, PendingOK
<1>5. ASSUME NEW row, NEW c, Backed(row, c), row.wallet[r] = 0 PROVE Backed(row, c)'
  BY <1>1, <1>3, <1>5 DEF Backed
<1>6. \A c \in Customer : Backed(customer[c], c)'
  BY <1>1, <1>3, <1>4 DEF WalletInv, Nowhere, Backed
<1>7. \A g \in Handler : CopyOK(g)'
  <2> SUFFICES ASSUME NEW g \in Handler PROVE CopyOK(g)'
    OBVIOUS
  <2>1. handler'[g].row = handler[g].row /\ handler'[g].account = handler[g].account
    BY <1>2 DEF Others
  <2> QED BY <1>1, <1>3, <1>4, <2>1 DEF WalletInv, CopyOK, Nowhere, Backed
<1>8. ASSUME NEW q \in Request, q # r, Nowhere(q) PROVE Nowhere(q)'
  BY <1>1, <1>2, <1>3, <1>8 DEF Nowhere, Others
<1>9. OneOwner' /\ SuspenseHasTransaction'
  BY <1>1, <1>2, <1>3, <1>4 DEF WalletInv, OneOwner, Owns, Others, SuspenseHasTransaction
<1>10. ASSUME NEW g \in Handler PROVE (OwnerOK(g) /\ PendingOK(g))'
  <2>1. CASE g = h
    BY <1>1, <1>2, <1>4, <2>1 DEF OwnerOK, PendingOK, Owns
  <2>2. CASE g # h
    <3>1. handler'[g] = handler[g]
      BY <1>2, <2>2 DEF Others
    <3>2. OwnerOK(g)'
      BY <1>1, <3>1 DEF WalletInv, OwnerOK, Owns, IsPayment
    <3>3. CASE handler[g].pc \in {"credit", "suspend"}
      <4>1. handler[g].request \in Request /\ handler[g].request # r
        BY <1>1, <2>2, <3>3, HandlerType DEF WalletInv, OneOwner, Owns
      <4>2. Nowhere(handler[g].request)
        BY <3>3 DEF WalletInv, PendingOK
      <4> QED BY <1>8, <3>1, <3>2, <4>1, <4>2 DEF PendingOK
    <3>4. CASE handler[g].pc \notin {"credit", "suspend"}
      BY <3>1, <3>2, <3>4 DEF PendingOK
    <3> QED BY <3>3, <3>4
  <2> QED BY <2>1, <2>2
<1> QED BY <1>6, <1>7, <1>9, <1>10 DEF WalletInv

\* A restart leaves the records as they are and every handler idle.
LEMMA RestartStep ==
    ASSUME WalletInv, TypeInv', RecordsStand, handler' = [h \in Handler |-> Idle]
    PROVE  WalletInv'
<1>1. RecordsStand /\ handler' = [h \in Handler |-> Idle]
  OBVIOUS
<1>2. \A h \in Handler : handler'[h].pc = "idle" /\ handler'[h].row = None
  BY <1>1 DEF Idle
<1>3. OneOwner' /\ \A h \in Handler : (OwnerOK(h) /\ PendingOK(h) /\ CopyOK(h))'
  BY <1>2 DEF OneOwner, Owns, OwnerOK, PendingOK, CopyOK
<1>4. \A c \in Customer : Backed(customer[c], c)'
  BY <1>1 DEF WalletInv, RecordsStand, Backed
<1>5. SuspenseHasTransaction'
  BY <1>1 DEF WalletInv, RecordsStand, SuspenseHasTransaction
<1> QED BY <1>3, <1>4, <1>5 DEF WalletInv

LEMMA WalletStep == WalletInv /\ [Next]_vars => WalletInv'
<1> SUFFICES ASSUME WalletInv, [Next]_vars PROVE WalletInv'
  OBVIOUS
<1>1. TypeInv'
  BY TypeStep DEF WalletInv
<1>2. CASE UNCHANGED vars \/ \E r \in Request, p \in Payload : NombaEvent(r, p)
  <2>1. RecordsStand /\ UNCHANGED handler
    BY <1>2 DEF NombaEvent, RecordsStand, vars, tables, WalletInv, TypeInv, TypeOK
  <2> QED BY <1>1, <2>1, StillStep
<1>3. CASE \/ \E k \in Hook, e \in {"payments", "other"} : Register(k, e)
           \/ \E c \in Customer : OpenAccount(c)
           \/ \E c \in Customer, s \in AccountStatus : SetAccountStatus(c, s)
  <2>1. RecordsStand /\ UNCHANGED handler
    BY <1>3 DEF Register, OpenAccount, SetAccountStatus, RecordsStand
  <2> QED BY <1>1, <2>1, StillStep
<1>4. ASSUME NEW h \in Handler, NEW r \in Request,
             Deliver(h, r) \/ \E p \in Payload : Simulate(h, r, p)
      PROVE  WalletInv'
  <2>1. RecordsStand
    BY <1>4 DEF Deliver, Simulate, RecordsStand, tables, WalletInv, TypeInv, TypeOK
  <2>2. Others(h) /\ handler'[h].pc = "check" /\ handler'[h].row = None
    BY <1>4, StartEffect DEF Deliver, Simulate, WalletInv
  <2>3. Silent(h)
    BY <2>1, <2>2 DEF Silent, Owns
  <2> QED BY <1>1, <2>3, QuietStep
<1>5. ASSUME NEW h \in Handler, HandlerStep(h) PROVE WalletInv'
  BY <1>1, <1>5, QuietActions, QuietStep, FetchStep, CreateStep, CreditStep, SuspenseStep
     DEF HandlerStep
<1>6. CASE Fault
  <2>1. Restart => RecordsStand /\ handler' = [h \in Handler |-> Idle]
    BY DEF Restart, RecordsStand, tables
  <2> QED BY <1>1, <1>6, <2>1, QuietActions, QuietStep, RestartStep DEF Fault
<1> QED BY <1>2, <1>3, <1>4, <1>5, <1>6 DEF Next, Environment

LEMMA WalletInvariant == Spec => []WalletInv
BY WalletInit, WalletStep, PTL DEF Spec

\* No payment is ever added twice into a balance, whatever the number of
\* deliveries and handlers, their interleaving, and the faults.
THEOREM CreditedOnce == Spec => []CreditedAtMostOnce
<1>1. WalletInv => CreditedAtMostOnce
  BY DEF WalletInv, Backed, CreditedAtMostOnce
<1> QED BY <1>1, WalletInvariant, PTL

\* Every payment counted in a balance has its transaction, for that customer's
\* account, and is not in suspense.
THEOREM BalancesAreBacked == Spec => []WalletBacked
<1>1. WalletInv => WalletBacked
  BY DEF WalletInv, Backed, WalletBacked
<1> QED BY <1>1, WalletInvariant, PTL

-----------------------------------------------------------------------------
(***************************************************************************)
(* The abstract ledger.                                                    *)
(***************************************************************************)

LEMMA LedgerInvInit == Init => LedgerInv
<1> SUFFICES ASSUME Init PROVE LedgerInv
  OBVIOUS
<1>1. \A h \in Handler : TellOK(h)
  BY DEF Init, Idle, TellOK
<1>2. \A k \in Hook, r \in Request : ~Heard(k, r)
  BY DEF Init, Heard
<1> QED BY <1>1, <1>2, WalletInit DEF Init, LedgerInv

\* No transaction is withdrawn and no webhook that was sent changes.
LEMMA RecordsGrow ==
    ASSUME TypeInv, [Next]_vars
    PROVE  /\ \A q \in Request : transaction[q] # None => transaction'[q] = transaction[q]
           /\ \A q \in Request : event[q] # None => event'[q] = event[q]
<1> USE DEF TypeInv, TypeOK
<1>1. CASE UNCHANGED transaction
  <2>1. CASE UNCHANGED event
    BY <1>1, <2>1
  <2>2. CASE \E r \in Request, p \in Payload :
                event[r] = None /\ event' = [event EXCEPT ![r] = p]
    BY <1>1, <2>2
  <2> QED
    BY <2>1, <2>2
       DEF Next, Environment, Fault, HandlerStep, vars, tables, NombaEvent, Deliver,
           Simulate, Register, OpenAccount, SetAccountStatus, CheckProcessed,
           FindByNumber, FindByReference, FetchCustomer, CreateTransaction,
           CreditWallet, WriteSuspense, WriteAudit, LoadHooks, PostHook,
           RecordProcessed, DatabaseError, Restart
<1>2. ASSUME NEW h \in Handler, CreateTransaction(h)
      PROVE  /\ \A q \in Request : transaction[q] # None => transaction'[q] = transaction[q]
             /\ \A q \in Request : event[q] # None => event'[q] = event[q]
  BY <1>2 DEF CreateTransaction
<1>3. UNCHANGED transaction \/ \E h \in Handler : CreateTransaction(h)
  BY DEF Next, Environment, Fault, HandlerStep, vars, tables, NombaEvent, Deliver,
         Simulate, Register, OpenAccount, SetAccountStatus, CheckProcessed,
         FindByNumber, FindByReference, FetchCustomer,
         CreditWallet, WriteSuspense, WriteAudit, LoadHooks, PostHook,
         RecordProcessed, DatabaseError, Restart
<1> QED BY <1>1, <1>2, <1>3

\* What one handler step does to the urls its handler still has to tell.
LEMMA TellHandlerStep ==
    ASSUME LedgerInv, NEW h \in Handler, UNCHANGED posted,
           \/ HandlerStep(h) \/ DatabaseError(h)
           \/ \E r \in Request : Deliver(h, r) \/ \E p \in Payload : Simulate(h, r, p)
    PROVE  Others(h) /\ TellOK(h)'
<1> USE DEF LedgerInv, WalletInv
<1>1. ASSUME Others(h),
             handler'[h].pc \in {"idle", "check", "number", "reference", "fetch",
                                "create", "finish"}
      PROVE  Others(h) /\ TellOK(h)'
  BY <1>1 DEF TellOK
<1>2. ASSUME Others(h), handler'[h].request = handler[h].request,
             handler[h].pc \in {"credit", "suspend", "log", "emit"},
             handler'[h].pc = "post" => handler'[h].pending \subseteq Hook
      PROVE  Others(h) /\ TellOK(h)'
  BY <1>2 DEF TellOK, Heard
<1>3. ASSUME NEW r \in Request, Deliver(h, r) \/ \E p \in Payload : Simulate(h, r, p)
      PROVE  Others(h) /\ TellOK(h)'
  BY <1>1, <1>3, StartEffect DEF Deliver, Simulate
<1>4. CASE Raise(h) \/ Return(h)
  BY <1>1, <1>4, LeaveEffect
<1>5. CASE CheckProcessed(h)
  BY <1>1, <1>4, <1>5, GotoEffect DEF CheckProcessed, Moves, PC
<1>6. CASE FindByNumber(h) \/ FindByReference(h)
  <2>1. \/ Goto(h, "reference") \/ Goto(h, "create")
        \/ \E c \in Customer : Found(h, c)
    BY <1>6, HandlerType DEF FindByNumber, FindByReference, IsOpen, PayloadType
  <2> QED BY <1>1, <2>1, GotoEffect, FoundEffect DEF Moves, PC
<1>7. CASE FetchCustomer(h)
  BY <1>1, <1>7, FetchEffect DEF Moves
<1>8. CASE CreateTransaction(h)
  <2>1. CASE Raise(h)
    BY <1>4, <2>1
  <2>2. CASE ~Raise(h)
    <3>1. transaction[handler[h].request] = None /\ handler[h].request \in Request
      BY <1>8, <2>2, HandlerType DEF CreateTransaction
    <3>2. PICK pc \in {"suspend", "credit"} : Goto(h, pc)
      BY <1>8, <2>2 DEF CreateTransaction
    <3>3. Others(h) /\ handler'[h].pc = pc /\ handler'[h].request = handler[h].request
      BY <3>2, GotoEffect DEF Moves, PC
    <3> QED BY <3>1, <3>3 DEF TellOK, Heard
  <2> QED BY <2>1, <2>2
<1>9. CASE CreditWallet(h)
  BY <1>2, <1>9, CreditEffect DEF Moves, CreditWallet
<1>10. CASE WriteSuspense(h)
  BY <1>2, <1>10, GotoEffect DEF Moves, WriteSuspense, PC
<1>11. CASE WriteAudit(h)
  <2>1. PICK pc \in {"finish", "emit"} : Goto(h, pc)
    BY <1>11 DEF WriteAudit
  <2>2. handler[h].pc = "log"
    BY <1>11 DEF WriteAudit
  <2> QED BY <1>2, <2>1, <2>2, GotoEffect DEF Moves, PC
<1>12. CASE LoadHooks(h)
  <2>1. handler[h].pc = "emit"
    BY <1>12 DEF LoadHooks
  <2> QED BY <1>2, <1>12, <2>1, LoadEffect DEF Moves
<1>13. ASSUME NEW k \in Hook, PostHook(h, k) PROVE Others(h) /\ TellOK(h)'
  <2>1. handler[h].pc = "post"
    BY <1>13 DEF PostHook
  <2>2. CASE ~Raise(h)
    <3>1. PICK pc \in {"finish", "post"} :
             Moves(h, pc) /\ handler'[h].pending = handler[h].pending \ {k}
      BY <1>13, <2>2, PostEffect
    <3> QED BY <2>1, <3>1 DEF TellOK, Heard, Moves
  <2> QED BY <1>4, <2>2
<1>14. CASE RecordProcessed(h) \/ DatabaseError(h)
  BY <1>4, <1>14 DEF RecordProcessed, DatabaseError
<1> QED
  BY <1>3, <1>5, <1>6, <1>7, <1>8, <1>9, <1>10, <1>11, <1>12, <1>13, <1>14
     DEF HandlerStep

\* A POST that reaches its url: the url hears of that payment only.
LEMMA TellPost ==
    ASSUME LedgerInv, NEW h \in Handler, NEW k \in Hook, PostHook(h, k),
           posted' # posted
    PROVE  /\ handler[h].request \in Request
           /\ ~Heard(k, handler[h].request)
           /\ transaction[handler[h].request] # None
           /\ \E c \in Customer : transaction[handler[h].request].account = c
           /\ posted' = [posted EXCEPT ![k] = Append(@, handler[h].request)]
           /\ \A j \in Hook, q \in Request :
                 Heard(j, q)' => Heard(j, q) \/ (j = k /\ q = handler[h].request)
           /\ \A g \in Handler : TellOK(g)'
<1> USE DEF LedgerInv, WalletInv
<1> DEFINE r == handler[h].request
<1>1. handler[h].pc = "post" /\ k \in handler[h].pending /\ r \in Request
  BY HandlerType DEF PostHook
<1>2. ~Heard(k, r)
  BY <1>1 DEF TellOK
<1>3. transaction[r] # None /\ transaction[r].account = handler[h].account
  BY <1>1 DEF OwnerOK, Owns
<1>4. handler[h].account \in Customer
  BY <1>1, HandlerType DEF TypeInv, LocalsOK, LocalOK, HandlerState
<1>5. PICK pc \in {"finish", "post"} :
         /\ Moves(h, pc)
         /\ handler'[h].pending = handler[h].pending \ {k}
         /\ posted' = [posted EXCEPT ![k] = Append(@, r)]
  BY PostEffect
<1>6. posted \in [Hook -> Seq(Request)]
  BY DEF TypeInv, TypeOK
<1>7. \A j \in Hook, q \in Request : Heard(j, q)' => Heard(j, q) \/ (j = k /\ q = r)
  <2> SUFFICES ASSUME NEW j \in Hook, NEW q \in Request, Heard(j, q)'
               PROVE  Heard(j, q) \/ (j = k /\ q = r)
    OBVIOUS
  <2>1. CASE j = k
    <3>1. posted'[k] = Append(posted[k], r)
      BY <1>5, <1>6
    <3>2. PICK i \in DOMAIN posted'[k] : posted'[k][i] = q
      BY <2>1 DEF Heard
    <3>3. \/ /\ i \in DOMAIN posted[k]
             /\ posted'[k][i] = posted[k][i]
          \/ posted'[k][i] = r
      BY <1>1, <1>6, <3>1, <3>2
    <3> QED BY <2>1, <3>2, <3>3 DEF Heard
  <2>2. CASE j # k
    BY <1>5, <1>6, <2>2 DEF Heard
  <2> QED BY <2>1, <2>2
<1>8. ASSUME NEW g \in Handler PROVE TellOK(g)'
  <2>1. CASE g = h
    BY <1>1, <1>5, <1>7, <2>1, HandlerType DEF TellOK, Moves, HandlerState
  <2>2. CASE g # h
    <3>1. handler'[g] = handler[g]
      BY <1>5, <2>2 DEF Moves, Others
    <3>2. Owns(g) => handler[g].request # r
      BY <1>1, <2>2 DEF OneOwner, Owns
    <3> QED BY <1>7, <3>1, <3>2, HandlerType DEF TellOK, Owns, HandlerState
  <2> QED BY <2>1, <2>2
<1> QED BY <1>1, <1>2, <1>3, <1>4, <1>5, <1>7, <1>8

LEMMA LedgerInvStep == LedgerInv /\ [Next]_vars => LedgerInv'
<1> SUFFICES ASSUME LedgerInv, [Next]_vars PROVE LedgerInv'
  OBVIOUS
<1>1. WalletInv' /\ TypeInv
  BY WalletStep DEF LedgerInv, WalletInv
<1>2. \A r \in processed' : event'[r] # None
  <2>1. CASE UNCHANGED processed
    BY <1>1, <2>1, RecordsGrow DEF LedgerInv, TypeInv, TypeOK
  <2>2. ASSUME NEW h \in Handler, RecordProcessed(h)
        PROVE  \A r \in processed' : event'[r] # None
    BY <1>1, <2>2, HandlerType, NoneAssumption DEF RecordProcessed, LedgerInv
  <2>3. UNCHANGED processed \/ \E h \in Handler : RecordProcessed(h)
    BY DEF Next, Environment, Fault, HandlerStep, vars, tables, NombaEvent, Deliver,
           Simulate, Register, OpenAccount, SetAccountStatus, CheckProcessed,
           FindByNumber, FindByReference, FetchCustomer, CreateTransaction,
           CreditWallet, WriteSuspense, WriteAudit, LoadHooks, PostHook,
           DatabaseError, Restart
  <2> QED BY <2>1, <2>2, <2>3
<1>3. CASE posted' # posted
  <2>1. PICK h \in Handler, k \in Hook : PostHook(h, k)
    BY <1>3
       DEF Next, Environment, Fault, HandlerStep, vars, tables, NombaEvent, Deliver,
           Simulate, Register, OpenAccount, SetAccountStatus, CheckProcessed,
           FindByNumber, FindByReference, FetchCustomer, CreateTransaction,
           CreditWallet, WriteSuspense, WriteAudit, LoadHooks, RecordProcessed,
           DatabaseError, Restart
  <2>2. transaction' = transaction
    BY <2>1 DEF PostHook, tables
  <2> QED BY <1>1, <1>2, <1>3, <2>1, <2>2, TellPost DEF LedgerInv
<1>4. CASE posted' = posted
  <2>1. \A k \in Hook, r \in Request : Heard(k, r)' => transaction'[r] # None
    BY <1>1, <1>4, RecordsGrow DEF LedgerInv, Heard
  <2>2. ASSUME NEW h \in Handler, Others(h), TellOK(h)'
        PROVE  \A g \in Handler : TellOK(g)'
    <3> SUFFICES ASSUME NEW g \in Handler, g # h PROVE TellOK(g)'
      BY <2>2
    <3>1. handler'[g] = handler[g] /\ TellOK(g)
      BY <2>2 DEF Others, LedgerInv
    <3> QED BY <1>4, <3>1 DEF TellOK, Heard
  <2>3. ASSUME UNCHANGED handler PROVE \A g \in Handler : TellOK(g)'
    BY <1>4, <2>3 DEF LedgerInv, TellOK, Heard
  <2>4. ASSUME Restart PROVE \A g \in Handler : TellOK(g)'
    BY <2>4 DEF Restart, Idle, TellOK
  <2>5. ASSUME NEW h \in Handler,
               \/ HandlerStep(h) \/ DatabaseError(h)
               \/ \E r \in Request : Deliver(h, r) \/ \E p \in Payload : Simulate(h, r, p)
        PROVE  \A g \in Handler : TellOK(g)'
    BY <1>4, <2>2, <2>5, TellHandlerStep
  <2>6. \A g \in Handler : TellOK(g)'
    BY <2>3, <2>4, <2>5
       DEF Next, Environment, Fault, vars, NombaEvent, Register, OpenAccount,
           SetAccountStatus
  <2> QED BY <1>1, <1>2, <2>1, <2>6 DEF LedgerInv
<1> QED BY <1>3, <1>4

LEMMA LedgerInitial == Init => Ledger!Init
BY DEF Init, Ledger!Init, NothingAdded

\* Every step of the program is a step of the ledger, or none of its business.
LEMMA LedgerStep ==
    ASSUME LedgerInv, LedgerInv', [Next]_vars
    PROVE  [Ledger!Next]_(Ledger!ledgerVars)
<1> USE DEF LedgerInv, WalletInv
<1>1. ASSUME UNCHANGED <<transaction, customer, posted, processed>>
      PROVE  UNCHANGED Ledger!ledgerVars
  <2>1. \A r \in processed : IsPayment(r)' <=> IsPayment(r)
    BY RecordsGrow DEF IsPayment, TypeInv, TypeOK
  <2> QED BY <1>1, <2>1 DEF Ledger!ledgerVars
<1>2. ASSUME NEW h \in Handler, CreateTransaction(h)
      PROVE  UNCHANGED Ledger!ledgerVars \/ \E r \in Request : Ledger!Enter(r)
  <2> DEFINE r == handler[h].request
  <2>1. CASE transaction' = transaction
    BY <1>1, <1>2, <2>1 DEF CreateTransaction
  <2>2. CASE transaction' # transaction
    <3>1. /\ r \in Request /\ transaction[r] = None
          /\ transaction' = [transaction EXCEPT ![r] =
                [account |-> handler[h].account, status |-> StatusOf(h)]]
          /\ UNCHANGED <<event, customer, posted, processed>>
      BY <1>2, <2>2, HandlerType DEF CreateTransaction
    <3>2. [account |-> handler[h].account, status |-> StatusOf(h)] \in TransactionRow
      BY <1>2, StatusType, HandlerType DEF CreateTransaction, HandlerState, TransactionRow
    <3>3. transaction'[r] # None /\ transaction' = [transaction EXCEPT ![r] = transaction'[r]]
      BY <3>1, <3>2, RowAssumption DEF TypeInv, TypeOK
    <3>4. Ledger!Enter(r)
      BY <3>1, <3>3 DEF Ledger!Enter, IsPayment
    <3> QED BY <3>1, <3>4
  <2> QED BY <2>1, <2>2
<1>3. ASSUME NEW h \in Handler, CreditWallet(h)
      PROVE  \E c \in Customer : Ledger!Rebalance(c)
  <2> DEFINE balance == [c \in Customer |-> customer[c].wallet]
  <2>1. PICK a \in Customer :
           /\ customer' = [customer EXCEPT ![a] = Credited(h)]
           /\ UNCHANGED <<event, transaction, posted, processed>>
    BY <1>3, CreditEffect DEF CreditWallet
  <2>2. customer'[a] \in CustomerRow /\ Backed(customer[a], a)'
    BY DEF TypeInv, TypeOK
  <2>3. balance' = [balance EXCEPT ![a] = balance'[a]]
    <3>1. \A c \in Customer : c # a => customer'[c] = customer[c]
      BY <2>1 DEF TypeInv, TypeOK
    <3> QED BY <3>1
  <2>4. balance'[a] \in [Request -> {0, 1}]
    BY <2>1, <2>2 DEF Backed, CustomerRow
  <2>5. \A r \in Request : balance'[a][r] = 1 => r \in Ledger!EnteredFor(a)
    BY <2>1, <2>2 DEF Backed, Ledger!EnteredFor
  <2>6. Ledger!Rebalance(a)
    BY <2>1, <2>3, <2>4, <2>5 DEF Ledger!Rebalance, IsPayment
  <2> QED BY <2>1, <2>6
<1>4. ASSUME NEW h \in Handler, NEW k \in Hook, PostHook(h, k)
      PROVE  UNCHANGED Ledger!ledgerVars \/ \E r \in Request : Ledger!Tell(k, r)
  <2> DEFINE r == handler[h].request
  <2>1. UNCHANGED <<event, transaction, customer, processed>>
    BY <1>4 DEF PostHook, tables
  <2>2. CASE posted' = posted
    BY <1>1, <2>1, <2>2
  <2>3. CASE posted' # posted
    <3>1. /\ r \in Request /\ ~Heard(k, r) /\ transaction[r] # None
          /\ \E c \in Customer : transaction[r].account = c
          /\ posted' = [posted EXCEPT ![k] = Append(@, r)]
      BY <1>4, <2>3, TellPost
    <3>2. Ledger!Tell(k, r)
      BY <2>1, <3>1 DEF Ledger!Tell, Ledger!EnteredFor, Heard, IsPayment
    <3> QED BY <3>1, <3>2
  <2> QED BY <2>2, <2>3
<1>5. ASSUME NEW h \in Handler, RecordProcessed(h)
      PROVE  UNCHANGED Ledger!ledgerVars \/ \E r \in Request : Ledger!Settle(r)
  <2> DEFINE r == handler[h].request
  <2>1. /\ r \in Request /\ handler[h].pc = "finish"
        /\ UNCHANGED <<event, transaction, customer, posted>>
    BY <1>5, HandlerType DEF RecordProcessed
  <2>2. CASE processed' = processed
    BY <1>1, <2>1, <2>2
  <2>3. CASE processed' # processed
    <3>1. r \notin processed /\ processed' = processed \union {r}
      BY <1>5, <2>3 DEF RecordProcessed
    <3>2. CASE IsPayment(r)
      <4>1. transaction[r] # None
        BY <2>1, <3>2 DEF OwnerOK
      <4>2. Ledger!Settle(r)
        BY <2>1, <3>1, <3>2, <4>1 DEF Ledger!Settle, IsPayment
      <4> QED BY <2>1, <4>2
    <3>3. CASE ~IsPayment(r)
      BY <2>1, <3>1, <3>3 DEF Ledger!ledgerVars, IsPayment
    <3> QED BY <3>2, <3>3
  <2> QED BY <2>2, <2>3
<1>6. \/ UNCHANGED <<transaction, customer, posted, processed>>
      \/ \E h \in Handler : \/ CreateTransaction(h) \/ CreditWallet(h)
                            \/ RecordProcessed(h) \/ \E k \in Hook : PostHook(h, k)
  BY DEF Next, Environment, Fault, HandlerStep, vars, tables, NombaEvent, Deliver,
         Simulate, Register, OpenAccount, SetAccountStatus, CheckProcessed,
         FindByNumber, FindByReference, FetchCustomer, WriteSuspense, WriteAudit,
         LoadHooks, DatabaseError, Restart
<1> QED BY <1>1, <1>2, <1>3, <1>4, <1>5, <1>6 DEF Ledger!Next

\* Webhook processing implements the abstract ledger: initial states map to
\* initial states, and every step to one entry, one rebalanced customer, one
\* settled payment, one notified url, or nothing.
THEOREM ImplementsLedger == Spec => LedgerSpec
<1>1. Spec => []LedgerInv
  BY LedgerInvInit, LedgerInvStep, PTL DEF Spec
<1>2. LedgerInv /\ LedgerInv' /\ [Next]_vars => [Ledger!Next]_(Ledger!ledgerVars)
  BY LedgerStep
<1> QED BY <1>1, <1>2, LedgerInitial, PTL DEF Spec, LedgerSpec, Ledger!Spec
=============================================================================
