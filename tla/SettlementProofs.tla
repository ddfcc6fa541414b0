-------------------------- MODULE SettlementProofs --------------------------
(***************************************************************************)
(* Theorems about the records of PaymentProcessing: what is answered is    *)
(* settled, merchants hear once of what was credited, and what a fault has *)
(* cut short is never finished, but nothing else is cut short.             *)
(***************************************************************************)
EXTENDS PaymentProcessingProofs

\* The judgement on the transaction of r fits the branch taken for it.
JudgedFor(r, quarantined) ==
    /\ quarantined => transaction[r].status = "misdirected"
    /\ ~quarantined /\ transaction[r].status = "misdirected" => event[r].amount = 0

\* The records of a payment at each program point of the handler that writes
\* them.
StageOK(h) ==
    LET r == handler[h].request IN
    /\ Owns(h) => JudgedFor(r, Quarantines(h))
    /\ handler[h].pc \in {"credit", "suspend", "log"} => audit[r] = <<>>
    /\ handler[h].pc = "suspend" => Quarantines(h)
    /\ handler[h].pc \in {"credit", "emit", "post"} => ~Quarantines(h)
    /\ handler[h].pc = "log" => Len(suspense[r]) = (IF Quarantines(h) THEN 1 ELSE 0)
    /\ handler[h].pc \in {"emit", "post"} => Len(audit[r]) = 1 /\ suspense[r] = <<>>
    /\ handler[h].pc = "finish" /\ IsPayment(r) => Settled(r)

\* No transaction, no other record; and a transaction comes from a webhook.
TransactionFirst ==
    \A r \in Request :
        /\ transaction[r] = None => audit[r] = <<>>
        /\ transaction[r] # None => event[r] # None

\* A payment judged misdirected, though not of zero, is in no balance.
Uncounted(r) ==
    /\ \A c \in Customer : customer[c].wallet[r] = 0
    /\ \A g \in Handler : handler[g].row # None => handler[g].row.wallet[r] = 0

MisdirectedUncounted ==
    \A r \in Request :
        (transaction[r] # None /\ transaction[r].status = "misdirected" /\ event[r].amount # 0) =>
            Uncounted(r)

SettleInv ==
    /\ LedgerInv
    /\ \A h \in Handler : StageOK(h)
    /\ TransactionFirst
    /\ MisdirectedUncounted
    /\ AnsweredIsSettled
    /\ ForwardedOnceAfterCredit

LEMMA SettleInit == Init => SettleInv
<1> SUFFICES ASSUME Init PROVE SettleInv
  OBVIOUS
<1>1. \A h \in Handler : handler[h].pc = "idle" /\ handler[h].row = None
  BY DEF Init, Idle
<1>2. \A h \in Handler : StageOK(h)
  BY <1>1 DEF StageOK, Owns
<1>3. MisdirectedUncounted /\ TransactionFirst
  BY <1>1 DEF Init, MisdirectedUncounted, TransactionFirst
<1>4. AnsweredIsSettled /\ ForwardedOnceAfterCredit
  BY DEF Init, AnsweredIsSettled, ForwardedOnceAfterCredit
<1> QED BY <1>2, <1>3, <1>4, LedgerInvInit DEF SettleInv

-----------------------------------------------------------------------------
(***************************************************************************)
(* What a step of one handler leaves alone.                                *)
(***************************************************************************)

\* What was recorded stays, except in the log handler h writes to, about its
\* own request.
Writes(h) ==
    /\ Others(h)
    /\ \A q \in Request : transaction[q] # None => transaction'[q] = transaction[q]
    /\ \A q \in Request : event[q] # None => event'[q] = event[q]
    /\ \A q \in Request : q # handler[h].request =>
          audit'[q] = audit[q] /\ suspense'[q] = suspense[q]
    /\ \/ UNCHANGED <<audit, suspense>>
       \/ handler[h].pc = "suspend" /\ UNCHANGED audit
       \/ handler[h].pc = "log" /\ UNCHANGED suspense

\* A log is written to while the payment has no audit entry yet.
LEMMA WrittenUnaudited ==
    ASSUME SettleInv, NEW h \in Handler, Writes(h), ~UNCHANGED <<audit, suspense>>
    PROVE  Owns(h) /\ Len(audit[handler[h].request]) = 0
<1>1. handler[h].pc \in {"suspend", "log"} /\ StageOK(h)
  BY DEF Writes, SettleInv
<1>2. audit[handler[h].request] = <<>>
  BY <1>1 DEF StageOK
<1> QED BY <1>1, <1>2 DEF Owns

\* The records of the other handlers' payments stay: nobody owns the same
\* payment, and one that is settled has its audit entry.
LEMMA StageOthers ==
    ASSUME SettleInv, NEW h \in Handler, Writes(h), NEW g \in Handler, g # h
    PROVE  StageOK(g)'
<1> DEFINE r == handler[g].request
           matters == Owns(g) \/ (handler[g].pc = "finish" /\ IsPayment(r))
<1>0. handler'[g] = handler[g] /\ StageOK(g)
  BY DEF Writes, Others, SettleInv
<1>1. CASE handler[g].pc = "idle"
  BY <1>0, <1>1 DEF StageOK, Owns
<1>2. CASE handler[g].pc # "idle"
  <2>1. r \in Request /\ event[r] # None
    BY <1>2, HandlerType, NoneAssumption DEF SettleInv, LedgerInv, WalletInv
  <2>2. event'[r] = event[r]
    BY <2>1 DEF Writes
  <2>3. matters => transaction'[r] = transaction[r]
    <3>1. matters => transaction[r] # None
      BY DEF SettleInv, LedgerInv, WalletInv, OwnerOK
    <3> QED BY <2>1, <3>1 DEF Writes
  <2>4. matters => audit'[r] = audit[r] /\ suspense'[r] = suspense[r]
    <3>1. CASE UNCHANGED <<audit, suspense>>
      BY <3>1
    <3>2. CASE ~UNCHANGED <<audit, suspense>>
      <4>1. Owns(h) /\ Len(audit[handler[h].request]) = 0
        BY <3>2, WrittenUnaudited
      <4>2. Owns(g) => r # handler[h].request
        BY <4>1 DEF SettleInv, LedgerInv, WalletInv, OneOwner
      <4>3. handler[g].pc = "finish" /\ IsPayment(r) => r # handler[h].request
        <5> SUFFICES ASSUME handler[g].pc = "finish", IsPayment(r), r = handler[h].request
                     PROVE  FALSE
          OBVIOUS
        <5>1. Len(audit[r]) = 1
          BY <1>0 DEF StageOK, Settled
        <5>2. 0 # 1
          OBVIOUS
        <5> QED BY <4>1, <5>1, <5>2, Zenon
      <4>4. matters => r # handler[h].request
        BY <4>2, <4>3
      <4> QED BY <2>1, <4>4 DEF Writes
    <3> QED BY <3>1, <3>2
  <2>5. (IsPayment(r)' <=> IsPayment(r)) /\ (Quarantines(g)' <=> Quarantines(g))
    BY <1>0, <2>2 DEF IsPayment, Quarantines
  <2>6. Owns(g) => StageOK(g)'
    BY <1>0, <2>2, <2>3, <2>4, <2>5 DEF StageOK, Owns, JudgedFor
  <2>7. handler[g].pc = "finish" => StageOK(g)'
    BY <1>0, <2>2, <2>3, <2>4, <2>5 DEF StageOK, Owns, Settled
  <2>8. handler[g].pc # "finish" /\ ~Owns(g) => StageOK(g)'
    BY <1>0 DEF StageOK, Owns
  <2> QED BY <2>6, <2>7, <2>8
<1> QED BY <1>1, <1>2

\* What is settled stays settled, and a payment audited and not suspended stays
\* so: nobody writes to its logs any more.
LEMMA CompleteStays ==
    ASSUME SettleInv, NEW h \in Handler, Writes(h), NEW r \in Request,
           transaction[r] # None, Len(audit[r]) # 0
    PROVE  /\ transaction'[r] = transaction[r]
           /\ event[r] # None /\ event'[r] = event[r]
           /\ audit'[r] = audit[r] /\ suspense'[r] = suspense[r]
<1>1. audit'[r] = audit[r] /\ suspense'[r] = suspense[r]
  BY WrittenUnaudited DEF Writes
<1> QED BY <1>1 DEF Writes, SettleInv, TransactionFirst

\* So what was settled stays settled ...
LEMMA SettledStays ==
    ASSUME SettleInv, NEW h \in Handler, Writes(h), NEW r \in Request,
           event[r] # None, IsPayment(r) => Settled(r)
    PROVE  (IsPayment(r) => Settled(r))'
<1>1. event'[r] = event[r]
  BY DEF Writes
<1>2. IsPayment(r)' <=> IsPayment(r)
  BY <1>1 DEF IsPayment
<1>3. ASSUME IsPayment(r) PROVE Settled(r)'
  <2>1. Settled(r)
    BY <1>3
  <2>2. 0 # 1
    OBVIOUS
  <2>3. transaction[r] # None /\ Len(audit[r]) # 0
    BY <2>1, <2>2, Zenon DEF Settled
  <2>4. transaction'[r] = transaction[r] /\ audit'[r] = audit[r] /\ suspense'[r] = suspense[r]
    BY <2>3, CompleteStays
  <2> QED BY <1>1, <2>1, <2>4 DEF Settled
<1> QED BY <1>2, <1>3

\* ... and what the merchants were told stays true.
LEMMA ToldStays ==
    ASSUME SettleInv, NEW h \in Handler, Writes(h), UNCHANGED posted
    PROVE  ForwardedOnceAfterCredit'
<1> SUFFICES ASSUME NEW k \in Hook, NEW i \in DOMAIN posted[k]
             PROVE  /\ transaction'[posted[k][i]].account # None
                    /\ audit'[posted[k][i]] # <<>>
                    /\ suspense'[posted[k][i]] = <<>>
  BY DEF SettleInv, ForwardedOnceAfterCredit
<1> DEFINE r == posted[k][i]
<1>1. r \in Request
  BY DEF SettleInv, LedgerInv, WalletInv, TypeInv, TypeOK
<1>2. transaction[r] # None
  BY <1>1 DEF SettleInv, LedgerInv, Heard
<1>3. transaction[r].account # None /\ audit[r] # <<>> /\ suspense[r] = <<>>
  BY DEF SettleInv, ForwardedOnceAfterCredit
<1>4. Len(audit[r]) # 0
  BY <1>1, <1>3 DEF SettleInv, LedgerInv, WalletInv, TypeInv, TypeOK
<1> QED BY <1>1, <1>2, <1>3, <1>4, CompleteStays

\* A step that keeps the balances and the judgements, by a handler that gets
\* no copy of a balance but the stored one.
LEMMA UncountedStays ==
    ASSUME SettleInv, NEW h \in Handler, Writes(h), UNCHANGED <<customer, transaction>>,
           \/ handler'[h].row = None
           \/ handler'[h].row = handler[h].row
           \/ \E c \in Customer : handler'[h].row = customer[c]
    PROVE  MisdirectedUncounted'
<1> SUFFICES ASSUME NEW r \in Request, transaction[r] # None,
                    transaction[r].status = "misdirected", event'[r].amount # 0
             PROVE  Uncounted(r)'
  BY DEF MisdirectedUncounted
<1>1. event'[r] = event[r]
  BY DEF SettleInv, TransactionFirst, Writes
<1>2. Uncounted(r)
  BY <1>1 DEF SettleInv, MisdirectedUncounted
<1>3. ASSUME NEW g \in Handler, handler'[g].row # None
      PROVE  handler'[g].row.wallet[r] = 0
  <2>1. CASE g = h
    BY <1>2, <1>3, <2>1 DEF Uncounted
  <2>2. CASE g # h
    BY <1>2, <1>3, <2>2 DEF Uncounted, Writes, Others
  <2> QED BY <2>1, <2>2
<1> QED BY <1>2, <1>3 DEF Uncounted

\* What is left to show of a step of one handler.
LEMMA Gather ==
    ASSUME SettleInv, [Next]_vars, NEW h \in Handler, Writes(h),
           StageOK(h)', MisdirectedUncounted',
           \A r \in Request : transaction'[r] = None => audit'[r] = <<>>,
           \A r \in Request : transaction'[r] # None => event'[r] # None,
           ForwardedOnceAfterCredit' \/ UNCHANGED posted,
           \/ UNCHANGED processed /\ answered' \subseteq answered \union processed
           \/ /\ processed' = processed \union {handler[h].request}
              /\ answered' = answered \union {handler[h].request}
              /\ handler[h].request \in Request
              /\ handler[h].pc = "finish"
    PROVE  SettleInv'
<1>1. LedgerInv'
  BY LedgerInvStep DEF SettleInv
<1>2. \A g \in Handler : StageOK(g)'
  BY StageOthers
<1>3. ForwardedOnceAfterCredit'
  BY ToldStays
<1>4. AnsweredIsSettled'
  <2>1. answered' \subseteq processed'
    BY DEF SettleInv, AnsweredIsSettled
  <2>2. ASSUME NEW r \in processed' PROVE (IsPayment(r) => Settled(r))'
    <3>1. r \in Request
      BY <2>2 DEF SettleInv, LedgerInv, WalletInv, TypeInv, TypeOK
    <3>2. event[r] # None
      BY <2>2, HandlerType, NoneAssumption DEF SettleInv, LedgerInv, WalletInv
    <3>3. CASE r \in processed
      BY <3>1, <3>2, <3>3, SettledStays DEF SettleInv, AnsweredIsSettled
    <3>4. CASE r \notin processed
      <4>1. handler[h].pc = "finish" /\ r = handler[h].request
        BY <2>2, <3>4
      <4>2. IsPayment(r) => Settled(r)
        BY <4>1 DEF SettleInv, StageOK
      <4> QED BY <3>1, <3>2, <4>2, SettledStays
    <3> QED BY <3>3, <3>4
  <2> QED BY <2>1, <2>2 DEF AnsweredIsSettled
<1>5. TransactionFirst'
  BY DEF TransactionFirst
<1> QED BY <1>1, <1>2, <1>3, <1>4, <1>5 DEF SettleInv

-----------------------------------------------------------------------------
(***************************************************************************)
(* The steps.                                                              *)
(***************************************************************************)

\* What a handler was told of the account stays with it.
LEMMA SeenStays ==
    ASSUME TypeInv, NEW h \in Handler,
           \/ \E pc \in PC : Goto(h, pc)
           \/ CreditWallet(h) \/ LoadHooks(h)
           \/ (\E k \in Hook : PostHook(h, k)) /\ ~Raise(h)
    PROVE  Quarantines(h)' <=> Quarantines(h)
<1>1. handler[h] \in HandlerState /\ handler \in [Handler -> HandlerState]
  BY HandlerType DEF TypeInv, TypeOK
<1>2. handler'[h].seen = handler[h].seen /\ handler'[h].account = handler[h].account
  BY <1>1 DEF HandlerState, Goto, CreditWallet, LoadHooks, PostHook
<1> QED BY <1>2 DEF Quarantines

\* On its way through the forwarding the payment is settled.
LEMMA ForwardingIsSettled ==
    ASSUME SettleInv, NEW h \in Handler, handler[h].pc \in {"emit", "post"}
    PROVE  Settled(handler[h].request)
<1> DEFINE r == handler[h].request
<1>1. StageOK(h) /\ Owns(h)
  BY DEF SettleInv, Owns
<1>2. Len(audit[r]) = 1 /\ suspense[r] = <<>> /\ JudgedFor(r, FALSE)
  BY <1>1 DEF StageOK, JudgedFor
<1>3. transaction[r] # None
  BY <1>1 DEF SettleInv, LedgerInv, WalletInv, OwnerOK
<1>4. event[r].amount > 0 => transaction[r].status # "misdirected"
  BY <1>2 DEF JudgedFor
<1>5. Len(suspense[r]) = 0
  BY <1>2
<1> QED BY <1>2, <1>3, <1>4, <1>5 DEF Settled

\* A step that leaves all the records and only moves its handler.
LEMMA SilentStep ==
    ASSUME SettleInv, [Next]_vars, NEW h \in Handler, Others(h),
           UNCHANGED <<customer, transaction, audit, suspense>>,
           StageOK(h)',
           \/ handler'[h].row = None
           \/ handler'[h].row = handler[h].row
           \/ \E c \in Customer : handler'[h].row = customer[c],
           ForwardedOnceAfterCredit' \/ UNCHANGED posted,
           \/ UNCHANGED processed /\ answered' \subseteq answered \union processed
           \/ /\ processed' = processed \union {handler[h].request}
              /\ answered' = answered \union {handler[h].request}
              /\ handler[h].request \in Request
              /\ handler[h].pc = "finish"
    PROVE  SettleInv'
<1>1. /\ \A q \in Request : transaction[q] # None => transaction'[q] = transaction[q]
      /\ \A q \in Request : event[q] # None => event'[q] = event[q]
  BY RecordsGrow DEF SettleInv, LedgerInv, WalletInv
<1>2. Writes(h)
  BY <1>1 DEF Writes
<1>3. MisdirectedUncounted'
  BY <1>2, UncountedStays
<1>4. \A r \in Request : transaction'[r] = None => audit'[r] = <<>>
  BY DEF SettleInv, TransactionFirst
<1>5. \A r \in Request : transaction'[r] # None => event'[r] # None
  BY <1>1 DEF SettleInv, TransactionFirst
<1> QED BY <1>2, <1>3, <1>4, <1>5, Gather

\* A handler that is not yet at the insert has written nothing.
LEMMA EarlyStage ==
    ASSUME NEW h \in Handler,
           handler'[h].pc \in {"idle", "check", "number", "reference", "fetch", "create"}
    PROVE  StageOK(h)'
BY DEF StageOK, Owns

LEMMA SilentActions ==
    ASSUME SettleInv, [Next]_vars, NEW h \in Handler,
           \/ \E r \in Request : Deliver(h, r) \/ \E p \in Payload : Simulate(h, r, p)
           \/ CheckProcessed(h) \/ FindByNumber(h) \/ FindByReference(h)
           \/ FetchCustomer(h) \/ DatabaseError(h)
    PROVE  SettleInv'
<1> USE DEF SettleInv, LedgerInv, WalletInv
<1>1. UNCHANGED <<customer, transaction, audit, suspense, posted, processed>>
  BY DEF Deliver, Simulate, CheckProcessed, FindByNumber, FindByReference,
         FetchCustomer, DatabaseError, tables
<1>2. answered' \subseteq answered \union processed
  BY DEF Deliver, Simulate, CheckProcessed, FindByNumber, FindByReference,
         FetchCustomer, DatabaseError, Raise, Return
<1>3. ASSUME Others(h), handler'[h].row = None, StageOK(h)' PROVE SettleInv'
  BY <1>1, <1>2, <1>3, SilentStep
<1>4. CASE \E r \in Request : Deliver(h, r) \/ \E p \in Payload : Simulate(h, r, p)
  BY <1>3, <1>4, StartEffect, EarlyStage DEF Deliver, Simulate
<1>5. CASE Raise(h) \/ Return(h)
  BY <1>3, <1>5, LeaveEffect, EarlyStage
<1>6. CASE CheckProcessed(h)
  <2>1. handler[h].row = None
    BY <1>6 DEF TypeInv, LocalsOK, LocalOK, CheckProcessed
  <2>2. CASE Goto(h, "number")
    BY <1>3, <2>1, <2>2, GotoEffect, EarlyStage DEF Moves, PC
  <2>3. CASE event[handler[h].request].kind = "ignored" /\ Goto(h, "finish")
    <3>1. Others(h) /\ handler'[h].pc = "finish" /\ handler'[h].row = None
      BY <2>1, <2>3, GotoEffect DEF Moves, PC
    <3>2. ~IsPayment(handler[h].request)' /\ handler'[h].request = handler[h].request
      BY <1>6, <2>3, GotoEffect DEF CheckProcessed, Moves, IsPayment, PC
    <3>3. StageOK(h)'
      BY <3>1, <3>2 DEF StageOK, Owns
    <3> QED BY <1>3, <3>1, <3>3
  <2> QED BY <1>5, <1>6, <2>2, <2>3 DEF CheckProcessed
<1>7. CASE FindByNumber(h) \/ FindByReference(h)
  <2>1. handler[h].row = None
    BY <1>7 DEF TypeInv, LocalsOK, LocalOK, FindByNumber, FindByReference
  <2>2. \/ Goto(h, "reference") \/ Goto(h, "create")
        \/ \E c \in Customer : Found(h, c)
    BY <1>7, HandlerType DEF FindByNumber, FindByReference, IsOpen, PayloadType
  <2> QED BY <1>3, <2>1, <2>2, GotoEffect, FoundEffect, EarlyStage DEF Moves, PC
<1>8. CASE FetchCustomer(h)
  <2>1. Others(h) /\ StageOK(h)' /\ \E c \in Customer : handler'[h].row = customer[c]
    BY <1>8, FetchEffect, EarlyStage DEF Moves
  <2> QED BY <1>1, <1>2, <2>1, SilentStep
<1> QED BY <1>4, <1>5, <1>6, <1>7, <1>8 DEF DatabaseError

\* A payment that is forwarded is settled, so its handler may finish.
LEMMA ForwardingStep ==
    ASSUME SettleInv, NEW h \in Handler, handler[h].pc \in {"emit", "post"},
           UNCHANGED <<event, transaction, audit, suspense>>,
           handler'[h].request = handler[h].request,
           handler'[h].pc \in {"finish", "post"},
           Quarantines(h)' <=> Quarantines(h)
    PROVE  StageOK(h)'
<1> DEFINE r == handler[h].request
<1>1. Settled(r)'
  BY ForwardingIsSettled DEF Settled
<1>2. StageOK(h) /\ Owns(h)
  BY DEF SettleInv, Owns
<1>3. ~Quarantines(h) /\ JudgedFor(r, FALSE) /\ Len(audit[r]) = 1 /\ suspense[r] = <<>>
  BY <1>2 DEF StageOK, JudgedFor
<1>4. ~Quarantines(h)' /\ JudgedFor(r, FALSE)'
  BY <1>3 DEF JudgedFor
<1> QED BY <1>1, <1>3, <1>4 DEF StageOK, JudgedFor

LEMMA LoadSettles ==
    ASSUME SettleInv, [Next]_vars, NEW h \in Handler, LoadHooks(h)
    PROVE  SettleInv'
<1> USE DEF SettleInv, LedgerInv, WalletInv
<1>1. /\ UNCHANGED <<customer, transaction, audit, suspense, posted, processed, answered>>
      /\ UNCHANGED event /\ handler[h].pc = "emit"
  BY DEF LoadHooks, tables
<1>2. PICK pc \in {"finish", "post"} : Moves(h, pc) /\ handler'[h].row = handler[h].row
  BY LoadEffect
<1>3. Quarantines(h)' <=> Quarantines(h)
  BY SeenStays
<1>4. StageOK(h)'
  BY <1>1, <1>2, <1>3, ForwardingStep DEF Moves
<1> QED BY <1>1, <1>2, <1>4, SilentStep DEF Moves

\* The url that hears of a payment hears of it for the first time, and after
\* its credit and its audit entry.
LEMMA PostTells ==
    ASSUME SettleInv, NEW h \in Handler, NEW k \in Hook, PostHook(h, k), posted' # posted
    PROVE  ForwardedOnceAfterCredit'
<1> USE DEF SettleInv, LedgerInv, WalletInv
<1> DEFINE r == handler[h].request
<1>1. /\ r \in Request /\ ~Heard(k, r)
      /\ transaction[r].account # None
      /\ posted' = [posted EXCEPT ![k] = Append(@, r)]
  BY TellPost, NoneAssumption
<1>2. UNCHANGED <<transaction, audit, suspense>> /\ handler[h].pc = "post"
  BY DEF PostHook, tables
<1>3. audit[r] # <<>> /\ suspense[r] = <<>>
  <2>1. Len(audit[r]) = 1 /\ suspense[r] = <<>>
    BY <1>2 DEF StageOK
  <2>2. Len(<<>>) = 0 /\ 0 # 1
    OBVIOUS
  <2> QED BY <2>1, <2>2, Zenon
<1>4. posted \in [Hook -> Seq(Request)]
  BY DEF TypeInv, TypeOK
<1>5. \A j \in Hook : j # k => posted'[j] = posted[j]
  BY <1>1, <1>4
<1>6. posted'[k] = Append(posted[k], r) /\ posted[k] \in Seq(Request)
  BY <1>1, <1>4
<1>7. \A i \in DOMAIN posted[k] : posted[k][i] # r
  BY <1>1 DEF Heard
<1>8. ASSUME NEW i \in DOMAIN posted'[k], NEW j \in DOMAIN posted'[k],
             posted'[k][i] = posted'[k][j]
      PROVE  i = j
  <2>1. \A m \in DOMAIN posted'[k] :
           \/ m = Len(posted[k]) + 1 /\ posted'[k][m] = r
           \/ m \in DOMAIN posted[k] /\ posted'[k][m] = posted[k][m]
    BY <1>1, <1>6
  <2> QED BY <1>7, <1>8, <2>1 DEF ForwardedOnceAfterCredit
<1>9. ASSUME NEW i \in DOMAIN posted'[k]
      PROVE  posted'[k][i] = r \/ \E j \in DOMAIN posted[k] : posted'[k][i] = posted[k][j]
  BY <1>1, <1>6
<1>10. ASSUME NEW i \in DOMAIN posted'[k]
       PROVE  /\ transaction[posted'[k][i]].account # None
              /\ audit[posted'[k][i]] # <<>>
              /\ suspense[posted'[k][i]] = <<>>
  BY <1>1, <1>3, <1>9 DEF ForwardedOnceAfterCredit
<1> QED BY <1>2, <1>5, <1>8, <1>10 DEF ForwardedOnceAfterCredit

LEMMA PostSettles ==
    ASSUME SettleInv, [Next]_vars, NEW h \in Handler, NEW k \in Hook, PostHook(h, k)
    PROVE  SettleInv'
<1> USE DEF SettleInv, LedgerInv, WalletInv
<1>1. /\ UNCHANGED <<event, customer, transaction, audit, suspense, processed, answered>>
      /\ handler[h].pc = "post"
  BY DEF PostHook, Raise, tables
<1>2. ForwardedOnceAfterCredit' \/ UNCHANGED posted
  BY PostTells
<1>3. CASE Raise(h)
  BY <1>1, <1>2, <1>3, LeaveEffect, EarlyStage, SilentStep
<1>4. CASE ~Raise(h)
  <2>1. PICK pc \in {"finish", "post"} : Moves(h, pc) /\ handler'[h].row = handler[h].row
    BY <1>4, PostEffect
  <2>2. Quarantines(h)' <=> Quarantines(h)
    BY <1>4, SeenStays
  <2>3. StageOK(h)'
    BY <1>1, <2>1, <2>2, ForwardingStep DEF Moves
  <2> QED BY <1>1, <1>2, <2>1, <2>3, SilentStep DEF Moves
<1> QED BY <1>3, <1>4

\* The processed ledger and the answer come from a handler that has finished.
LEMMA RecordSettles ==
    ASSUME SettleInv, [Next]_vars, NEW h \in Handler, RecordProcessed(h)
    PROVE  SettleInv'
<1> USE DEF SettleInv, LedgerInv, WalletInv
<1>1. /\ UNCHANGED <<event, customer, transaction, audit, suspense, posted>>
      /\ handler[h].pc = "finish" /\ handler[h].request \in Request
  BY HandlerType DEF RecordProcessed
<1>2. Others(h) /\ handler'[h].row = None /\ StageOK(h)'
  BY LeaveEffect, EarlyStage DEF RecordProcessed
<1> QED BY <1>1, <1>2, SilentStep DEF RecordProcessed, Raise, Return

\* A payment judged misdirected on its way to a balance amounts to nothing.
LEMMA MisdirectedIsZero ==
    ASSUME TypeInv, NEW h \in Handler, handler[h].pc = "create",
           ~Quarantines(h), StatusOf(h) = "misdirected"
    PROVE  event[handler[h].request].amount = 0
<1>1. handler[h].account # None /\ handler[h].row # None
  BY DEF TypeInv, LocalsOK, LocalOK, Quarantines
<1>2. handler[h].row.target \in Nat \union {None}
  BY <1>1 DEF TypeInv, TypeOK, HandlerState, CustomerRow
<1>3. event[handler[h].request].amount \in Nat
  BY HandlerType DEF PayloadType
<1> QED BY <1>2, <1>3 DEF StatusOf, DeriveTransactionStatus

\* The insert: the payment has no other record and is in no balance, and its
\* judgement decides the branch.
LEMMA CreateSettles ==
    ASSUME SettleInv, [Next]_vars, NEW h \in Handler, CreateTransaction(h)
    PROVE  SettleInv'
<1> USE DEF SettleInv, LedgerInv, WalletInv
<1> DEFINE r == handler[h].request
<1>0. /\ handler[h].pc = "create" /\ r \in Request /\ event[r] # None
      /\ UNCHANGED <<event, customer, audit, suspense, posted, processed>>
  BY HandlerType, NoneAssumption DEF CreateTransaction
<1>1. CASE Raise(h) /\ UNCHANGED transaction
  BY <1>0, <1>1, LeaveEffect, EarlyStage, SilentStep DEF Raise
<1>2. CASE ~(Raise(h) /\ UNCHANGED transaction)
  <2> DEFINE pc == IF Quarantines(h) THEN "suspend" ELSE "credit"
             row == [account |-> handler[h].account, status |-> StatusOf(h)]
  <2>1. /\ transaction[r] = None
        /\ transaction' = [transaction EXCEPT ![r] = row]
        /\ Goto(h, pc)
        /\ UNCHANGED answered
    BY <1>2 DEF CreateTransaction
  <2>2. /\ Quarantines(h) => pc = "suspend"
        /\ ~Quarantines(h) => pc = "credit"
        /\ pc \in PC
    BY DEF PC
  <2> HIDE DEF pc
  <2>3. /\ Others(h) /\ handler'[h].pc = pc /\ handler'[h].request = r
        /\ handler'[h].row = handler[h].row
    BY <2>1, <2>2, GotoEffect DEF Moves
  <2>4. Quarantines(h)' <=> Quarantines(h)
    BY <2>1, <2>2, SeenStays
  <2>5. transaction'[r] = row /\ \A q \in Request : q # r => transaction'[q] = transaction[q]
    BY <1>0, <2>1 DEF TypeInv, TypeOK
  <2>6. row.status = StatusOf(h) /\ row # None
    <3>1. row \in TransactionRow
      BY <1>0, StatusType, HandlerType DEF HandlerState, TransactionRow
    <3> QED BY <3>1, RowAssumption
  <2>7. /\ Quarantines(h) => StatusOf(h) = "misdirected"
        /\ ~Quarantines(h) /\ StatusOf(h) = "misdirected" => event[r].amount = 0
    BY <1>0, MisdirectedIsZero DEF StatusOf
  <2>8. JudgedFor(r, Quarantines(h))'
    <3>1. transaction'[r].status = StatusOf(h)
      BY <2>5, <2>6
    <3>2. Quarantines(h)' => transaction'[r].status = "misdirected"
      BY <2>4, <2>7, <3>1
    <3>3. ~Quarantines(h)' /\ transaction'[r].status = "misdirected" => event'[r].amount = 0
      BY <1>0, <2>4, <2>7, <3>1
    <3> QED BY <2>3, <3>2, <3>3 DEF JudgedFor
  <2>9. StageOK(h)'
    <3>1. audit[r] = <<>>
      BY <1>0, <2>1 DEF TransactionFirst
    <3>2. handler'[h].pc = "suspend" => Quarantines(h)'
      BY <2>2, <2>3, <2>4
    <3>3. handler'[h].pc = "credit" => ~Quarantines(h)'
      BY <2>2, <2>3, <2>4
    <3>4. handler'[h].pc \in {"suspend", "credit"}
      BY <2>2, <2>3
    <3> QED BY <1>0, <2>3, <2>8, <3>1, <3>2, <3>3, <3>4 DEF StageOK
  <2>10. Writes(h)
    BY <1>0, <2>1, <2>3, <2>5 DEF Writes
  <2>11. Uncounted(r)
    <3>1. \A copy, c : Backed(copy, c) => copy.wallet[r] = 0
      BY <1>0, <2>1 DEF Backed
    <3> QED BY <3>1 DEF Uncounted, CopyOK
  <2>12. ASSUME NEW q \in Request, Uncounted(q) PROVE Uncounted(q)'
    BY <1>0, <2>3, <2>12 DEF Uncounted, Others
  <2>13. MisdirectedUncounted'
    BY <1>0, <2>5, <2>11, <2>12 DEF MisdirectedUncounted
  <2>14. \A q \in Request : transaction'[q] = None => audit'[q] = <<>>
    BY <1>0, <2>5, <2>6 DEF TransactionFirst
  <2>15. \A q \in Request : transaction'[q] # None => event'[q] # None
    BY <1>0, <2>5 DEF TransactionFirst
  <2> QED BY <1>0, <2>1, <2>9, <2>10, <2>13, <2>14, <2>15, Gather
<1> QED BY <1>1, <1>2

\* The credit is of a payment on the crediting branch.
LEMMA CreditSettles ==
    ASSUME SettleInv, [Next]_vars, NEW h \in Handler, CreditWallet(h)
    PROVE  SettleInv'
<1> USE DEF SettleInv, LedgerInv, WalletInv
<1> DEFINE r == handler[h].request
           a == handler[h].account
<1>1. /\ handler[h].pc = "credit"
      /\ UNCHANGED <<event, transaction, audit, suspense, posted, processed, answered>>
  BY DEF CreditWallet
<1>2. /\ Others(h) /\ handler'[h].pc = "log" /\ handler'[h].request = r
      /\ r \in Request /\ a \in Customer
      /\ handler[h].row \in CustomerRow
      /\ handler'[h].row = Credited(h)
      /\ customer' = [customer EXCEPT ![a] = Credited(h)]
  BY CreditEffect DEF Moves
<1>3. Quarantines(h)' <=> Quarantines(h)
  BY SeenStays
<1>4. StageOK(h) /\ Owns(h)
  BY <1>1 DEF Owns
<1>5. ~Quarantines(h) /\ JudgedFor(r, FALSE) /\ audit[r] = <<>>
  BY <1>1, <1>4 DEF StageOK, JudgedFor
<1>6. Len(suspense[r]) = 0
  BY <1>1 DEF PendingOK, Nowhere
<1>7. ~Quarantines(h)' /\ JudgedFor(r, Quarantines(h))'
  <2>1. ~Quarantines(h)'
    BY <1>3, <1>5
  <2>2. transaction'[r].status = "misdirected" => event'[r].amount = 0
    BY <1>1, <1>5 DEF JudgedFor
  <2> QED BY <1>2, <2>1, <2>2 DEF JudgedFor
<1>8. StageOK(h)'
  BY <1>1, <1>2, <1>5, <1>6, <1>7 DEF StageOK
<1>9. \A q \in Request : q # r => Credited(h).wallet[q] = handler[h].row.wallet[q]
  BY <1>2 DEF Credited, CustomerRow
<1>10. ASSUME NEW q \in Request, q # r, Uncounted(q) PROVE Uncounted(q)'
  <2>1. Credited(h).wallet[q] = 0
    BY <1>2, <1>9, <1>10, RowIsNotNone DEF Uncounted
  <2>2. \A c \in Customer : customer'[c] = customer[c] \/ customer'[c] = Credited(h)
    BY <1>2 DEF TypeInv, TypeOK
  <2>3. \A c \in Customer : customer'[c].wallet[q] = 0
    BY <1>10, <2>1, <2>2 DEF Uncounted
  <2>4. \A g \in Handler : handler'[g] = handler[g] \/ handler'[g].row = Credited(h)
    BY <1>2 DEF Others
  <2> QED BY <1>10, <2>1, <2>3, <2>4 DEF Uncounted
<1>11. MisdirectedUncounted'
  BY <1>1, <1>5, <1>10 DEF MisdirectedUncounted, JudgedFor
<1>12. Writes(h)
  BY <1>1, <1>2 DEF Writes
<1>13. \A q \in Request : transaction[q] = None => audit[q] = <<>>
  BY DEF TransactionFirst
<1>14. \A q \in Request : transaction[q] # None => event[q] # None
  BY DEF TransactionFirst
<1> QED BY <1>1, <1>8, <1>11, <1>12, <1>13, <1>14, Gather

\* The suspense entry of a quarantined payment is its first and only one.
LEMMA SuspenseSettles ==
    ASSUME SettleInv, [Next]_vars, NEW h \in Handler, WriteSuspense(h)
    PROVE  SettleInv'
<1> USE DEF SettleInv, LedgerInv, WalletInv
<1> DEFINE r == handler[h].request
<1>1. /\ handler[h].pc = "suspend" /\ r \in Request
      /\ UNCHANGED <<event, customer, transaction, audit, posted, processed, answered>>
  BY HandlerType DEF WriteSuspense
<1>2. /\ Others(h) /\ handler'[h].pc = "log" /\ handler'[h].request = r
      /\ handler'[h].row = handler[h].row
  BY GotoEffect DEF WriteSuspense, Moves, PC
<1>3. StageOK(h) /\ Owns(h) /\ suspense[r] = <<>>
  BY <1>1 DEF Owns, PendingOK, Nowhere
<1>4. Quarantines(h) /\ JudgedFor(r, TRUE) /\ audit[r] = <<>>
  BY <1>1, <1>3 DEF StageOK, JudgedFor
<1>5. Quarantines(h)'
  BY <1>4, SeenStays DEF WriteSuspense, PC
<1>6. Len(suspense'[r]) = 1
  <2>1. PICK reason \in {"misdirected", "closed_account"} :
           suspense' = [suspense EXCEPT ![r] = Append(@, reason)]
    BY DEF WriteSuspense
  <2>2. suspense'[r] = Append(<<>>, reason)
    BY <1>1, <1>3, <2>1 DEF TypeInv, TypeOK
  <2> QED BY <2>2
<1>7. StageOK(h)'
  BY <1>1, <1>2, <1>4, <1>5, <1>6 DEF StageOK, JudgedFor
<1>8. \A q \in Request : q # r => suspense'[q] = suspense[q]
  BY DEF WriteSuspense, TypeInv, TypeOK
<1>9. Writes(h)
  BY <1>1, <1>2, <1>8 DEF Writes
<1>10. MisdirectedUncounted'
  BY <1>1, <1>2, <1>9, UncountedStays
<1>11. \A q \in Request : transaction[q] = None => audit[q] = <<>>
  BY DEF TransactionFirst
<1>12. \A q \in Request : transaction[q] # None => event[q] # None
  BY DEF TransactionFirst
<1> QED BY <1>1, <1>7, <1>9, <1>10, <1>11, <1>12, Gather

\* The audit entry completes the records.
LEMMA AuditSettles ==
    ASSUME SettleInv, [Next]_vars, NEW h \in Handler, WriteAudit(h)
    PROVE  SettleInv'
<1> USE DEF SettleInv, LedgerInv, WalletInv
<1> DEFINE r == handler[h].request
           pc == IF Quarantines(h) THEN "finish" ELSE "emit"
<1>1. /\ handler[h].pc = "log" /\ r \in Request /\ Goto(h, pc)
      /\ UNCHANGED <<event, customer, transaction, suspense, posted, processed, answered>>
  BY HandlerType DEF WriteAudit
<1>2. /\ Quarantines(h) => pc = "finish"
      /\ ~Quarantines(h) => pc = "emit"
      /\ pc \in PC
  BY DEF PC
<1> HIDE DEF pc
<1>3. /\ Others(h) /\ handler'[h].pc = pc /\ handler'[h].request = r
      /\ handler'[h].row = handler[h].row
  BY <1>1, <1>2, GotoEffect DEF Moves
<1>4. StageOK(h) /\ Owns(h) /\ transaction[r] # None
  BY <1>1 DEF Owns, OwnerOK
<1>5. audit[r] = <<>>
  BY <1>1, <1>4 DEF StageOK
<1>6. Quarantines(h)' <=> Quarantines(h)
  BY <1>1, <1>2, SeenStays
<1>7. /\ \A q \in Request : q # r => audit'[q] = audit[q]
      /\ Len(audit'[r]) = 1
  <2>1. audit' = [audit EXCEPT ![r] = Append(@, DecisionForStatus(StatusOf(h)))]
    BY DEF WriteAudit
  <2>2. audit'[r] = Append(<<>>, DecisionForStatus(StatusOf(h)))
    BY <1>1, <1>5, <2>1 DEF TypeInv, TypeOK
  <2>3. \A d : Len(Append(<<>>, d)) = 1
    OBVIOUS
  <2>4. Len(audit'[r]) = 1
    BY <2>2, <2>3
  <2> QED BY <1>1, <2>1, <2>4 DEF TypeInv, TypeOK
<1>8. StageOK(h)'
  <2>1. CASE Quarantines(h)
    <3>1. transaction[r].status = "misdirected" /\ Len(suspense[r]) = 1
      BY <1>1, <1>4, <2>1 DEF StageOK, JudgedFor
    <3>2. Settled(r)'
      BY <1>1, <1>3, <1>4, <1>7, <3>1 DEF Settled
    <3>3. handler'[h].pc = "finish"
      BY <1>2, <1>3, <2>1
    <3> QED BY <1>3, <3>2, <3>3 DEF StageOK, Owns
  <2>2. CASE ~Quarantines(h)
    <3>1. Len(suspense[r]) = 0 /\ JudgedFor(r, FALSE)
      BY <1>1, <1>4, <2>2 DEF StageOK, JudgedFor
    <3>2. suspense'[r] = <<>>
      BY <1>1, <3>1 DEF TypeInv, TypeOK
    <3>3. handler'[h].pc = "emit" /\ ~Quarantines(h)'
      BY <1>2, <1>3, <1>6, <2>2
    <3>4. transaction'[r].status = "misdirected" => event'[r].amount = 0
      BY <1>1, <3>1 DEF JudgedFor
    <3> QED BY <1>3, <1>7, <3>2, <3>3, <3>4 DEF StageOK, JudgedFor
  <2> QED BY <2>1, <2>2
<1>9. Writes(h)
  BY <1>1, <1>3, <1>7 DEF Writes
<1>10. MisdirectedUncounted'
  BY <1>1, <1>3, <1>9, UncountedStays
<1>11. \A q \in Request : transaction'[q] = None => audit'[q] = <<>>
  BY <1>1, <1>4, <1>7 DEF TransactionFirst
<1>12. \A q \in Request : transaction[q] # None => event[q] # None
  BY DEF TransactionFirst
<1> QED BY <1>1, <1>8, <1>9, <1>10, <1>11, <1>12, Gather

\* A step that leaves the records of payments, and brings no handler anywhere
\* but to its end.
LEMMA StillSettles ==
    ASSUME SettleInv, LedgerInv',
           UNCHANGED <<customer, transaction, suspense, audit, processed, posted, answered>>,
           UNCHANGED handler \/ handler' = [h \in Handler |-> Idle],
           \A q \in Request : event[q] # None => event'[q] = event[q]
    PROVE  SettleInv'
<1> USE DEF SettleInv, LedgerInv, WalletInv
<1>1. \A h \in Handler : handler'[h] = handler[h] \/ (handler'[h].pc = "idle" /\ handler'[h].row = None)
  BY DEF Idle
<1>2. ASSUME NEW h \in Handler PROVE StageOK(h)'
  <2>1. CASE handler'[h].pc = "idle"
    BY <2>1, EarlyStage
  <2>2. CASE handler'[h].pc # "idle"
    <3>1. handler'[h] = handler[h] /\ StageOK(h)
      BY <1>1, <2>2
    <3>2. event'[handler[h].request] = event[handler[h].request]
      BY <2>2, <3>1, HandlerType, NoneAssumption
    <3>3. (Quarantines(h)' <=> Quarantines(h)) /\ (Owns(h)' <=> Owns(h))
      BY <3>1 DEF Quarantines, Owns
    <3> QED BY <3>1, <3>2, <3>3 DEF StageOK, JudgedFor, Settled, IsPayment
  <2> QED BY <2>1, <2>2
<1>3. TransactionFirst'
  BY DEF TransactionFirst
<1>4. MisdirectedUncounted'
  <2>1. \A r \in Request : Uncounted(r) => Uncounted(r)'
    BY <1>1 DEF Uncounted
  <2>2. \A r \in Request : transaction[r] # None => event'[r] = event[r]
    BY DEF TransactionFirst
  <2> QED BY <2>1, <2>2 DEF MisdirectedUncounted
<1>5. AnsweredIsSettled'
  <2> SUFFICES ASSUME NEW r \in processed, IsPayment(r)' PROVE Settled(r)'
    BY DEF AnsweredIsSettled
  <2>1. event'[r] = event[r]
    BY DEF TypeInv, TypeOK
  <2>2. Settled(r)
    BY <2>1 DEF AnsweredIsSettled, IsPayment
  <2> QED BY <2>1, <2>2 DEF Settled
<1>6. ForwardedOnceAfterCredit'
  BY DEF ForwardedOnceAfterCredit
<1> QED BY <1>2, <1>3, <1>4, <1>5, <1>6

\* A step of the outside, or a restart, is of that kind.
LEMMA OutsideSettles ==
    ASSUME SettleInv, [Next]_vars,
           \/ UNCHANGED vars
           \/ \E r \in Request, p \in Payload : NombaEvent(r, p)
           \/ \E k \in Hook, e \in {"payments", "other"} : Register(k, e)
           \/ \E c \in Customer : OpenAccount(c)
           \/ \E c \in Customer, s \in AccountStatus : SetAccountStatus(c, s)
           \/ Restart
    PROVE  SettleInv'
<1>1. /\ UNCHANGED <<customer, transaction, suspense, audit, processed, posted, answered>>
      /\ UNCHANGED handler \/ handler' = [h \in Handler |-> Idle]
  BY DEF vars, tables, NombaEvent, Register, OpenAccount, SetAccountStatus, Restart
<1>2. \A q \in Request : event[q] # None => event'[q] = event[q]
  BY RecordsGrow DEF SettleInv, LedgerInv, WalletInv
<1>3. LedgerInv'
  BY LedgerInvStep DEF SettleInv
<1> QED BY <1>1, <1>2, <1>3, StillSettles

LEMMA SettleStep == SettleInv /\ [Next]_vars => SettleInv'
<1> SUFFICES ASSUME SettleInv, [Next]_vars PROVE SettleInv'
  OBVIOUS
<1>1. ASSUME NEW h \in Handler, HandlerStep(h) PROVE SettleInv'
  BY <1>1, SilentActions, CreateSettles, CreditSettles, SuspenseSettles, AuditSettles,
     LoadSettles, PostSettles, RecordSettles
     DEF HandlerStep
<1>2. CASE Fault
  BY <1>2, SilentActions, OutsideSettles DEF Fault
<1>3. CASE Environment
  BY <1>3, SilentActions, OutsideSettles DEF Environment
<1> QED BY <1>1, <1>2, <1>3, OutsideSettles DEF Next

LEMMA SettleInvariant == Spec => []SettleInv
BY SettleInit, SettleStep, PTL DEF Spec

\* A payment that was answered 200, or that the processed ledger will skip,
\* has all its records, whatever was delivered twice and wherever a fault cut
\* a handler short (webhooks.py, receive).
THEOREM AnswersAreSettled == Spec => []AnsweredIsSettled
<1>1. SettleInv => AnsweredIsSettled
  BY DEF SettleInv
<1> QED BY <1>1, SettleInvariant, PTL

\* A merchant url hears of a payment at most once, after its credit and its
\* audit entry, and never of a payment in quarantine (webhook_forwarder.py,
\* emit_payment_received).
THEOREM ForwardedOnce == Spec => []ForwardedOnceAfterCredit
<1>1. SettleInv => ForwardedOnceAfterCredit
  BY DEF SettleInv
<1> QED BY <1>1, SettleInvariant, PTL

-----------------------------------------------------------------------------
(***************************************************************************)
(* Decisions to quarantine.                                                *)
(***************************************************************************)

\* Every payment Nomba notifies amounts to something.
AmountsPositive == \A p \in Payload : p.amount > 0

\* An audit entry that says quarantine is written on the quarantine branch.
LEMMA QuarantineDecision ==
    ASSUME AmountsPositive, TypeInv, NEW h \in Handler, handler[h].pc = "log",
           DecisionForStatus(StatusOf(h)) = "quarantine"
    PROVE  Quarantines(h)
<1> SUFFICES ASSUME ~Quarantines(h) PROVE FALSE
  OBVIOUS
<1> DEFINE amount == event[handler[h].request].amount
           target == handler[h].row.target
<1>1. StatusOf(h) = DeriveTransactionStatus(amount, target)
  BY DEF StatusOf
<1>2. amount \in Nat /\ amount > 0
  BY HandlerType DEF AmountsPositive, PayloadType
<1>3. target \in Nat \union {None}
  <2>1. handler[h].row # None
    BY DEF TypeInv, LocalsOK, LocalOK, Quarantines
  <2> QED BY <2>1 DEF TypeInv, TypeOK, HandlerState, CustomerRow
<1> HIDE DEF amount, target
<1>4. StatusOf(h) # "misdirected"
  BY <1>1, <1>2, <1>3, NoneIsNoAmount DEF DeriveTransactionStatus
<1>5. StatusOf(h) \in TransactionStatus
  BY StatusType
<1> QED BY <1>4, <1>5 DEF TransactionStatus, DecisionForStatus

LEMMA SuspenseStays ==
    ASSUME TypeInv, [Next]_vars
    PROVE  \A r \in Request : suspense[r] # <<>> => suspense'[r] # <<>>
<1>1. ASSUME NEW h \in Handler, WriteSuspense(h), NEW r \in Request, suspense[r] # <<>>
      PROVE  suspense'[r] # <<>>
  <2> DEFINE Reason == {"misdirected", "closed_account"}
  <2>1. suspense \in [Request -> Seq(Reason)]
    BY DEF TypeInv, TypeOK
  <2>2. PICK reason \in Reason :
           suspense' = [suspense EXCEPT ![handler[h].request] = Append(@, reason)]
    BY <1>1 DEF WriteSuspense
  <2> HIDE DEF Reason
  <2>3. suspense'[r] = suspense[r] \/ suspense'[r] = Append(suspense[r], reason)
    BY <2>1, <2>2
  <2>4. Len(Append(suspense[r], reason)) = Len(suspense[r]) + 1 /\ Len(suspense[r]) \in Nat
    BY <2>1
  <2>5. Len(Append(suspense[r], reason)) # 0
    BY <2>4
  <2>6. Len(<<>>) = 0
    OBVIOUS
  <2> QED BY <1>1, <2>3, <2>5, <2>6, Zenon
<1>2. UNCHANGED suspense \/ \E h \in Handler : WriteSuspense(h)
  BY DEF Next, Environment, Fault, HandlerStep, vars, tables, NombaEvent, Deliver,
         Simulate, Register, OpenAccount, SetAccountStatus, CheckProcessed,
         FindByNumber, FindByReference, FetchCustomer, CreateTransaction,
         CreditWallet, WriteAudit, LoadHooks, PostHook, RecordProcessed,
         DatabaseError, Restart
<1> QED BY <1>1, <1>2

LEMMA QuarantineStep ==
    ASSUME AmountsPositive, SettleInv, QuarantineHasSuspense, [Next]_vars
    PROVE  QuarantineHasSuspense'
<1> USE DEF SettleInv, LedgerInv, WalletInv
<1>1. CASE UNCHANGED audit
  BY <1>1, SuspenseStays DEF QuarantineHasSuspense
<1>2. ASSUME NEW h \in Handler, WriteAudit(h) PROVE QuarantineHasSuspense'
  <2> DEFINE r == handler[h].request
             d == DecisionForStatus(StatusOf(h))
  <2>1. /\ handler[h].pc = "log" /\ r \in Request /\ UNCHANGED suspense
        /\ audit' = [audit EXCEPT ![r] = Append(@, d)]
    BY <1>2, HandlerType DEF WriteAudit
  <2>2. /\ audit[r] = <<>>
        /\ Len(suspense[r]) = (IF Quarantines(h) THEN 1 ELSE 0)
    BY <2>1 DEF StageOK
  <2>3. d = "quarantine" => suspense[r] # <<>>
    <3>1. d = "quarantine" => Len(suspense[r]) = 1
      BY <2>1, <2>2, QuarantineDecision
    <3>2. Len(<<>>) = 0 /\ 0 # 1
      OBVIOUS
    <3> HIDE DEF d
    <3> QED BY <3>1, <3>2, Zenon
  <2> HIDE DEF d
  <2>4. audit'[r] = Append(<<>>, d) /\ \A q \in Request : q # r => audit'[q] = audit[q]
    BY <2>1, <2>2 DEF TypeInv, TypeOK
  <2>5. \A i \in DOMAIN audit'[r] : audit'[r][i] = d
    BY <2>4
  <2> SUFFICES ASSUME NEW q \in Request, NEW i \in DOMAIN audit'[q],
                      audit'[q][i] = "quarantine"
               PROVE  suspense'[q] # <<>>
    BY DEF QuarantineHasSuspense
  <2>6. CASE q = r
    BY <2>1, <2>3, <2>5, <2>6
  <2>7. CASE q # r
    BY <2>1, <2>4, <2>7 DEF QuarantineHasSuspense
  <2> QED BY <2>6, <2>7
<1>3. UNCHANGED audit \/ \E h \in Handler : WriteAudit(h)
  BY DEF Next, Environment, Fault, HandlerStep, vars, tables, NombaEvent, Deliver,
         Simulate, Register, OpenAccount, SetAccountStatus, CheckProcessed,
         FindByNumber, FindByReference, FetchCustomer, CreateTransaction,
         CreditWallet, WriteSuspense, LoadHooks, PostHook, RecordProcessed,
         DatabaseError, Restart
<1> QED BY <1>1, <1>2, <1>3

\* When every payment amounts to something, one that the audit trail decides
\* to quarantine has its suspense entry; a payment of zero against a target
\* would not (derive_transaction_status, _quarantine_payment).
THEOREM QuarantinesHaveSuspense ==
    ASSUME AmountsPositive
    PROVE  Spec => []QuarantineHasSuspense
<1>1. Init => QuarantineHasSuspense
  BY DEF Init, QuarantineHasSuspense
<1>2. SettleInv /\ QuarantineHasSuspense /\ [Next]_vars => QuarantineHasSuspense'
  BY QuarantineStep
<1> QED BY <1>1, <1>2, SettleInvariant, PTL DEF Spec

-----------------------------------------------------------------------------
(***************************************************************************)
(* Payments whose processing was cut short.                                *)
(***************************************************************************)

Working == {"credit", "suspend", "log", "emit", "post", "finish"}
Looking == {"number", "reference", "fetch", "create"}

\* The handler looks for the account of a payment; it forwards to subscribers.
CourseOK(h) ==
    /\ handler[h].pc \in Looking => IsPayment(handler[h].request)
    /\ handler[h].pc = "post" =>
          \A k \in handler[h].pending : registration[k] = "payments"

StrandInv ==
    /\ SettleInv
    /\ \A h \in Handler : CourseOK(h)
    /\ \A r \in Request : transaction[r] # None => IsPayment(r)

\* Handler h stays with its request and goes on to a point of its course that
\* follows on the one it is at.
Advances(h) ==
    LET r    == handler[h].request
        from == handler[h].pc
        to   == handler'[h].pc
    IN
    /\ handler'[h].request = r
    /\ \/ from = "check" /\ to = "number" /\ IsPayment(r)
       \/ from = "check" /\ to = "finish" /\ ~IsPayment(r)
       \/ from \in Looking /\ to \in Looking
       \/ from = "create" /\ to \in {"credit", "suspend"} /\ transaction[r] = None
       \/ from \in Working \ {"finish"} /\ to \in Working
    /\ to = "post" =>
          \/ from = "emit" /\ \A k \in handler'[h].pending : registration[k] = "payments"
          \/ from = "post" /\ handler'[h].pending \subseteq handler[h].pending

\* Or it is done, at the latest with the entry in the processed ledger.
Leaves(h) ==
    /\ handler'[h].pc = "idle"
    /\ handler[h].pc \in Working =>
          \/ handler[h].pc = "finish" /\ handler[h].request \in processed'
          \/ handler[h].pc = "post" /\ \E k \in handler[h].pending : k \in MalformedHook

\* What one step does to the place of its handler in its course.
LEMMA Course ==
    ASSUME TypeInv, NEW h \in Handler, HandlerStep(h)
    PROVE  Others(h) /\ (Advances(h) \/ Leaves(h))
<1> DEFINE r == handler[h].request
<1>1. CASE CheckProcessed(h)
  <2>1. handler[h].pc = "check" /\ event[r] # None
    BY <1>1, HandlerType, NoneAssumption DEF CheckProcessed
  <2>2. CASE Return(h)
    BY <2>1, <2>2, LeaveEffect DEF Leaves, Working
  <2>3. CASE event[r].kind = "ignored" /\ Goto(h, "finish")
    <3>1. ~IsPayment(r)
      BY <2>3 DEF IsPayment
    <3> QED BY <2>1, <2>3, <3>1, GotoEffect DEF Moves, Advances, PC
  <2>4. CASE event[r].kind = "vact_transfer" /\ Goto(h, "number")
    <3>1. IsPayment(r)
      BY <2>1, <2>4 DEF IsPayment
    <3> QED BY <2>1, <2>4, <3>1, GotoEffect DEF Moves, Advances, PC
  <2> QED BY <1>1, <2>2, <2>3, <2>4 DEF CheckProcessed
<1>2. CASE FindByNumber(h) \/ FindByReference(h)
  <2>1. handler[h].pc \in {"number", "reference"}
    BY <1>2 DEF FindByNumber, FindByReference
  <2>2. \/ Goto(h, "reference") \/ Goto(h, "create")
        \/ \E c \in Customer : Found(h, c)
    BY <1>2, HandlerType DEF FindByNumber, FindByReference, IsOpen, PayloadType
  <2>3. \E pc \in {"reference", "create", "fetch"} : Moves(h, pc)
    BY <2>2, GotoEffect, FoundEffect DEF PC
  <2> QED BY <2>1, <2>3 DEF Moves, Advances, Looking
<1>3. CASE FetchCustomer(h)
  BY <1>3, FetchEffect DEF FetchCustomer, Moves, Advances, Looking
<1>4. CASE CreateTransaction(h)
  <2>1. handler[h].pc = "create"
    BY <1>4 DEF CreateTransaction
  <2>2. CASE Raise(h)
    BY <2>1, <2>2, LeaveEffect DEF Leaves, Working
  <2>3. CASE ~Raise(h)
    <3>1. transaction[r] = None /\ \E pc \in {"credit", "suspend"} : Goto(h, pc)
      BY <1>4, <2>3 DEF CreateTransaction
    <3> QED BY <2>1, <3>1, GotoEffect DEF Moves, Advances, PC
  <2> QED BY <2>2, <2>3
<1>5. CASE CreditWallet(h)
  BY <1>5, CreditEffect DEF CreditWallet, Moves, Advances, Working
<1>6. CASE WriteSuspense(h) \/ WriteAudit(h)
  <2>1. /\ handler[h].pc \in {"suspend", "log"}
        /\ \E pc \in {"log", "finish", "emit"} : Goto(h, pc)
    BY <1>6 DEF WriteSuspense, WriteAudit
  <2>2. \E pc \in {"log", "finish", "emit"} : Moves(h, pc)
    BY <2>1, GotoEffect DEF PC
  <2> QED BY <2>1, <2>2 DEF Moves, Advances, Working
<1>7. CASE LoadHooks(h)
  <2> DEFINE subscribed == {k \in Hook : registration[k] = "payments"}
  <2>1. handler[h].pc = "emit" /\ \E pc \in {"finish", "post"} : Moves(h, pc)
    BY <1>7, LoadEffect DEF LoadHooks
  <2>2. handler'[h].pending = subscribed
    <3>1. handler[h] \in HandlerState
      BY HandlerType
    <3>2. PICK pc : handler' = [handler EXCEPT ![h].pc = pc, ![h].pending = subscribed]
      BY <1>7 DEF LoadHooks
    <3> HIDE DEF subscribed
    <3> QED BY <3>1, <3>2 DEF HandlerState, TypeInv, TypeOK
  <2> QED BY <2>1, <2>2 DEF Moves, Advances, Working
<1>8. ASSUME NEW k \in Hook, PostHook(h, k)
      PROVE  Others(h) /\ (Advances(h) \/ Leaves(h))
  <2>1. handler[h].pc = "post" /\ k \in handler[h].pending
    BY <1>8 DEF PostHook
  <2>2. CASE Raise(h)
    <3>1. k \in MalformedHook \/ ~Raise(h)
      <4>1. CASE k \notin MalformedHook
        <5>1. PICK pc \in {"finish", "post"} :
                 handler' = [handler EXCEPT ![h].pc = pc, ![h].pending = @ \ {k}]
          BY <1>8, <4>1 DEF PostHook
        <5>2. handler'[h].pc = pc
          BY <5>1, HandlerType DEF TypeInv, TypeOK, HandlerState
        <5> QED BY <5>2, LeaveEffect
      <4> QED BY <4>1
    <3> QED BY <2>1, <2>2, <3>1, LeaveEffect DEF Leaves
  <2>3. CASE ~Raise(h)
    <3>1. \E pc \in {"finish", "post"} :
             Moves(h, pc) /\ handler'[h].pending = handler[h].pending \ {k}
      BY <1>8, <2>3, PostEffect
    <3> QED BY <2>1, <3>1 DEF Moves, Advances, Working
  <2> QED BY <2>2, <2>3
<1>9. CASE RecordProcessed(h)
  BY <1>9, LeaveEffect DEF RecordProcessed, Leaves
<1> QED BY <1>1, <1>2, <1>3, <1>4, <1>5, <1>6, <1>7, <1>8, <1>9 DEF HandlerStep

\* Outside the steps of the handlers, one is called or all are cut.
LEMMA CalledOrCut ==
    ASSUME TypeInv, [Next]_vars, \A h \in Handler : ~HandlerStep(h)
    PROVE  /\ UNCHANGED <<transaction, processed>>
           /\ \A g \in Handler :
                 \/ handler'[g] = handler[g]
                 \/ handler'[g].pc = "check" /\ handler[g].pc = "idle"
                 \/ handler'[g].pc = "idle" /\ faults' # faults
<1>1. UNCHANGED <<transaction, processed>>
  BY DEF Next, Environment, Fault, vars, tables, NombaEvent, Deliver, Simulate,
         Register, OpenAccount, SetAccountStatus, DatabaseError, Restart
<1>2. ASSUME NEW h \in Handler, NEW r \in Request,
             Deliver(h, r) \/ \E p \in Payload : Simulate(h, r, p)
      PROVE  handler[h].pc = "idle" /\ Others(h) /\ handler'[h].pc = "check"
  BY <1>2, StartEffect DEF Deliver, Simulate
<1>3. CASE Fault
  <2>1. faults' # faults
    BY <1>3 DEF Fault, DatabaseError, Restart, TypeInv, TypeOK
  <2>2. CASE Restart
    BY <1>1, <2>1, <2>2 DEF Restart, Idle
  <2>3. ASSUME NEW h \in Handler, DatabaseError(h)
        PROVE  Others(h) /\ handler'[h].pc = "idle"
    BY <2>3, LeaveEffect DEF DatabaseError
  <2> QED BY <1>1, <1>3, <2>1, <2>2, <2>3 DEF Fault, Others
<1>4. CASE UNCHANGED handler
  BY <1>1, <1>4
<1>5. \/ UNCHANGED handler \/ Fault
      \/ \E h \in Handler, r \in Request :
            Deliver(h, r) \/ \E p \in Payload : Simulate(h, r, p)
  BY DEF Next, Environment, vars, NombaEvent, Register, OpenAccount, SetAccountStatus
<1> QED BY <1>1, <1>2, <1>3, <1>4, <1>5 DEF Others

\* A subscription, once made, is there for good.
LEMMA SubscribersStay ==
    ASSUME TypeInv, [Next]_vars, NEW k \in Hook
    PROVE  registration[k] = "payments" => registration'[k] = "payments"
<1>1. CASE UNCHANGED registration
  BY <1>1
<1>2. ASSUME NEW j \in Hook, NEW e \in {"payments", "other"}, Register(j, e)
      PROVE  registration[k] = "payments" => registration'[k] = "payments"
  BY <1>2 DEF Register, TypeInv, TypeOK
<1>3. \/ UNCHANGED registration
      \/ \E j \in Hook, e \in {"payments", "other"} : Register(j, e)
  BY DEF Next, Environment, Fault, HandlerStep, vars, tables, NombaEvent, Deliver,
         Simulate, OpenAccount, SetAccountStatus, CheckProcessed, FindByNumber,
         FindByReference, FetchCustomer, CreateTransaction, CreditWallet,
         WriteSuspense, WriteAudit, LoadHooks, PostHook, RecordProcessed,
         DatabaseError, Restart
<1> QED BY <1>1, <1>2, <1>3

\* A transaction is new only by the insert, after which its handler is at work.
LEMMA NewTransaction ==
    ASSUME TypeInv, [Next]_vars, NEW r \in Request, transaction[r] = None,
           transaction'[r] # None
    PROVE  \E h \in Handler :
              /\ HandlerStep(h)
              /\ handler[h].request = r /\ handler[h].pc = "create"
              /\ WorksOn(h, r)'
<1>1. PICK h \in Handler : HandlerStep(h)
  BY CalledOrCut
<1>2. CreateTransaction(h)
  BY <1>1 DEF HandlerStep, tables, CheckProcessed, FindByNumber, FindByReference,
              FetchCustomer, CreditWallet, WriteSuspense, WriteAudit, LoadHooks,
              PostHook, RecordProcessed
<1>3. handler[h].request = r /\ handler[h].pc = "create"
  BY <1>2 DEF CreateTransaction, TypeInv, TypeOK
<1>4. \E pc \in {"credit", "suspend"} : Goto(h, pc)
  BY <1>2 DEF CreateTransaction
<1>5. WorksOn(h, r)'
  BY <1>3, <1>4, GotoEffect DEF Moves, WorksOn, PC
<1> QED BY <1>1, <1>3, <1>5

LEMMA ProcessedGrows ==
    ASSUME TypeInv, [Next]_vars
    PROVE  /\ processed \subseteq processed'
           /\ \A r \in processed' \ processed : \E h \in Handler :
                 handler[h].request = r /\ handler[h].pc = "finish"
<1>1. CASE UNCHANGED processed
  BY <1>1
<1>2. ASSUME NEW h \in Handler, RecordProcessed(h)
      PROVE  /\ processed \subseteq processed'
             /\ \A r \in processed' \ processed :
                   handler[h].request = r /\ handler[h].pc = "finish"
  BY <1>2 DEF RecordProcessed
<1>3. UNCHANGED processed \/ \E h \in Handler : RecordProcessed(h)
  BY CalledOrCut
     DEF HandlerStep, tables, CheckProcessed, FindByNumber, FindByReference,
         FetchCustomer, CreateTransaction, CreditWallet, WriteSuspense, WriteAudit,
         LoadHooks, PostHook
<1> QED BY <1>1, <1>2, <1>3

LEMMA StrandInit == Init => StrandInv
BY SettleInit DEF Init, StrandInv, CourseOK, Idle, Looking

LEMMA StrandStep == StrandInv /\ [Next]_vars => StrandInv'
<1> SUFFICES ASSUME StrandInv, [Next]_vars PROVE StrandInv'
  OBVIOUS
<1>0. TypeInv /\ SettleInv'
  BY SettleStep DEF StrandInv, SettleInv, LedgerInv, WalletInv
<1>1. ASSUME NEW r \in Request, IsPayment(r) PROVE IsPayment(r)'
  BY <1>0, <1>1, RecordsGrow DEF IsPayment
<1>2. ASSUME NEW g \in Handler PROVE CourseOK(g)'
  <2>1. CourseOK(g) /\ (handler[g].pc # "idle" => handler[g].request \in Request)
    BY <1>0, HandlerType DEF StrandInv
  <2>2. handler[g].pc = "post" => handler[g].pending \subseteq Hook
    BY <1>0, HandlerType DEF HandlerState
  <2>3. CASE handler'[g] = handler[g]
    BY <1>0, <1>1, <2>1, <2>2, <2>3, SubscribersStay DEF CourseOK, Looking
  <2>4. CASE handler'[g].pc \in {"idle", "check"}
    BY <2>4 DEF CourseOK, Looking
  <2>5. CASE HandlerStep(g)
    <3>1. Advances(g) \/ Leaves(g)
      BY <1>0, <2>5, Course
    <3>2. CASE Leaves(g)
      BY <2>4, <3>2 DEF Leaves
    <3>3. CASE Advances(g)
      <4>1. handler'[g].pc \in Looking => IsPayment(handler[g].request)'
        <5>1. handler'[g].request = handler[g].request
          BY <3>3 DEF Advances
        <5>2. handler'[g].pc \in Looking =>
                 IsPayment(handler[g].request) /\ handler[g].pc # "idle"
          BY <2>1, <3>3 DEF Advances, CourseOK, Looking, Working
        <5> QED BY <1>1, <2>1, <5>1, <5>2 DEF IsPayment
      <4>2. ASSUME handler'[g].pc = "post", NEW k \in handler'[g].pending
            PROVE  registration'[k] = "payments"
        <5>1. registration[k] = "payments"
          BY <2>1, <3>3, <4>2 DEF Advances, CourseOK
        <5>2. k \in Hook
          BY <1>0, <4>2 DEF SettleInv, LedgerInv, WalletInv, TypeInv, TypeOK, HandlerState
        <5> QED BY <1>0, <5>1, <5>2, SubscribersStay
      <4> QED BY <4>1, <4>2 DEF CourseOK
    <3> QED BY <3>1, <3>2, <3>3
  <2> QED BY <1>0, <2>3, <2>4, <2>5, Course, CalledOrCut DEF Others
<1>3. ASSUME NEW r \in Request, transaction'[r] # None PROVE IsPayment(r)'
  <2>1. CASE transaction[r] # None
    BY <1>1, <2>1 DEF StrandInv
  <2>2. CASE transaction[r] = None
    <3>1. PICK h \in Handler : handler[h].request = r /\ handler[h].pc = "create"
      BY <1>0, <1>3, <2>2, NewTransaction
    <3> QED BY <1>1, <3>1 DEF StrandInv, CourseOK, Looking
  <2> QED BY <2>1, <2>2
<1> QED BY <1>0, <1>2, <1>3 DEF StrandInv

LEMMA StrandInvariant == Spec => []StrandInv
BY StrandInit, StrandStep, PTL DEF Spec

\* Who is at work on a payment stays at work until it is processed, or until a
\* fault or a url that makes the forwarding raise.
LEMMA WorkGoesOn ==
    ASSUME StrandInv, [Next]_vars, UNCHANGED faults,
           \A k \in MalformedHook : registration[k] # "payments",
           NEW g \in Handler, NEW r \in Request, WorksOn(g, r)
    PROVE  WorksOn(g, r)' \/ r \in processed'
<1>0. TypeInv /\ CourseOK(g)
  BY DEF StrandInv, SettleInv, LedgerInv, WalletInv
<1>1. handler[g].request = r /\ handler[g].pc \in Working
  BY DEF WorksOn, Working
<1>2. CASE HandlerStep(g)
  <2>1. CASE Advances(g)
    BY <1>1, <2>1 DEF Advances, WorksOn, Working, Looking
  <2>2. CASE Leaves(g)
    BY <1>0, <1>1, <2>2 DEF Leaves, CourseOK
  <2> QED BY <1>0, <1>2, <2>1, <2>2, Course
<1>3. CASE handler'[g] = handler[g]
  BY <1>3 DEF WorksOn
<1>4. handler[g].pc # "idle"
  BY <1>1 DEF Working
<1> QED BY <1>0, <1>2, <1>3, <1>4, Course, CalledOrCut DEF Others

\* Nobody goes to work on a payment that is recorded already.
LEMMA WorkIsNotTakenUp ==
    ASSUME StrandInv, [Next]_vars, NEW g \in Handler, NEW r \in Request,
           transaction[r] # None, ~WorksOn(g, r)
    PROVE  ~WorksOn(g, r)'
<1>0. TypeInv /\ CourseOK(g) /\ IsPayment(r)
  BY DEF StrandInv, SettleInv, LedgerInv, WalletInv
<1>1. CASE HandlerStep(g)
  <2>1. CASE Advances(g)
    BY <1>0, <2>1 DEF Advances, WorksOn, Working, Looking
  <2>2. CASE Leaves(g)
    BY <2>2 DEF Leaves, WorksOn
  <2> QED BY <1>0, <1>1, <2>1, <2>2, Course
<1>2. CASE handler'[g] = handler[g]
  BY <1>2 DEF WorksOn
<1>3. CASE handler'[g].pc \in {"idle", "check"}
  BY <1>3 DEF WorksOn
<1> QED BY <1>0, <1>1, <1>2, <1>3, Course, CalledOrCut DEF Others

\* A payment that is recorded but not processed, with no handler left at work
\* on it, was left so by a fault, unless the merchant subscribes a url httpx
\* cannot parse: no interleaving of deliveries stops its processing
\* (webhooks.py, receive; webhook_forwarder.py, emit_payment_received).
THEOREM StrandedByFaultsOnly == Spec => OnlyFaultsStrand
<1> DEFINE Parsed == \A k \in MalformedHook : registration[k] # "payments"
           Calm == Parsed /\ UNCHANGED faults =>
                      \A r \in Request : Stranded(r)' => Stranded(r)
<1>1. ASSUME StrandInv, [Next]_vars PROVE [Calm]_vars
  <2> SUFFICES ASSUME Parsed, UNCHANGED faults, NEW r \in Request, Stranded(r)'
               PROVE  Stranded(r)
    OBVIOUS
  <2>0. TypeInv
    BY <1>1 DEF StrandInv, SettleInv, LedgerInv, WalletInv
  <2>1. transaction'[r] # None /\ r \notin processed' /\ \A h \in Handler : ~WorksOn(h, r)'
    BY DEF Stranded
  <2>2. transaction[r] # None
    BY <1>1, <2>0, <2>1, NewTransaction
  <2>3. r \notin processed
    BY <1>1, <2>0, <2>1, ProcessedGrows
  <2>4. \A h \in Handler : ~WorksOn(h, r)
    BY <1>1, <2>1, WorkGoesOn
  <2> QED BY <2>2, <2>3, <2>4 DEF Stranded
<1>2. [][Calm]_vars => OnlyFaultsStrand
  BY PTL DEF OnlyFaultsStrand
<1> QED BY <1>1, <1>2, StrandInvariant, PTL DEF Spec

\* And no later delivery takes such a payment up again: its insert raises, so
\* it is neither credited nor recorded as processed (reconciliation.py,
\* process_payment).
THEOREM StrandedStay == Spec => StrandedForGood
<1> DEFINE Kept == \A r \in Request : Stranded(r) => Stranded(r)'
<1>1. ASSUME StrandInv, [Next]_vars PROVE [Kept]_vars
  <2> SUFFICES ASSUME NEW r \in Request, Stranded(r) PROVE Stranded(r)'
    OBVIOUS
  <2>0. TypeInv
    BY <1>1 DEF StrandInv, SettleInv, LedgerInv, WalletInv
  <2>1. transaction[r] # None /\ r \notin processed /\ \A h \in Handler : ~WorksOn(h, r)
    BY DEF Stranded
  <2>2. transaction'[r] # None
    BY <1>1, <2>0, <2>1, RecordsGrow
  <2>3. r \notin processed'
    BY <1>1, <2>0, <2>1, ProcessedGrows DEF WorksOn
  <2>4. \A h \in Handler : ~WorksOn(h, r)'
    BY <1>1, <2>1, WorkIsNotTakenUp
  <2> QED BY <2>2, <2>3, <2>4 DEF Stranded
<1>2. [][Kept]_vars => StrandedForGood
  BY PTL DEF StrandedForGood
<1> QED BY <1>1, <1>2, StrandInvariant, PTL DEF Spec
=============================================================================
