------------------------- MODULE ProvisioningProofs -------------------------
(***************************************************************************)
(* Theorems about Provisioning, for any number of calls, references and    *)
(* faults.                                                                 *)
(***************************************************************************)
EXTENDS Provisioning, TLAPS

\* The program points before the call of Nomba has been made.
Before == {"start", "customer", "account", "insert", "nomba"}

\* What the locals of a call hold.
LocalOK(c) ==
    /\ call[c].pc # "start" => call[c].kind \in Kind /\ call[c].ref \in Ref
    /\ call[c].pc \in {"nomba", "rollback", "open", "respond"} => call[c].owner # None
    /\ call[c].pc = "account" /\ call[c].kind = "dedicate" => call[c].owner # None
    /\ call[c].pc \in {"nomba", "rollback", "open", "respond"} /\ call[c].kind = "create" =>
          call[c].owner = c
    /\ call[c].pc \in {"insert", "rollback"} => call[c].kind = "create"
    /\ answer[c] # None => call[c].pc = "done"

\* What Nomba has opened for a call.
VirtualOK(c) ==
    /\ call[c].pc \in Before => virtual[c] = None
    /\ call[c].pc = "open" => virtual[c] = call[c].ref

\* The rows a call may have made: none before it inserts.
RowsOK(c) ==
    /\ call[c].pc \notin {"respond", "done"} =>
          \A r \in Ref : account[r] # None => account[r].number # c
    /\ call[c].pc \in Before \ {"nomba"} \/ call[c].kind = "dedicate" =>
          \A r \in Ref : customer[r] # c

Inv ==
    /\ TypeOK
    /\ \A c \in Call : LocalOK(c) /\ VirtualOK(c) /\ RowsOK(c)
    /\ AccountMatchesCustomer
    /\ RefusedLeavesNothing

LEMMA InvInit == Init => Inv
BY NoneIsNoCall DEF Init, Inv, TypeOK, CallState, LocalOK, VirtualOK, RowsOK, Before,
   AccountMatchesCustomer, RefusedLeavesNothing

-----------------------------------------------------------------------------

\* Posting a request to an endpoint keeps the invariant (the controllers).
LEMMA StartStep ==
    ASSUME Inv, NEW c \in Call, NEW kind \in Kind, NEW r \in Ref, Start(c, kind, r)
    PROVE  Inv'
<1>1. TypeOK'
  <2>1. call[c] \in CallState
    BY DEF Inv, TypeOK
  <2>2. [call[c] EXCEPT !.pc = "customer", !.kind = kind, !.ref = r] \in CallState
    BY <2>1 DEF CallState
  <2>3. call' = [call EXCEPT ![c] = [call[c] EXCEPT !.pc = "customer", !.kind = kind, !.ref = r]]
    BY DEF Start
  <2>4. call' \in [Call -> CallState]
    BY <2>2, <2>3 DEF Inv, TypeOK
  <2> QED BY <2>4 DEF Inv, TypeOK, Start
<1>2. \A d \in Call : (LocalOK(d) /\ VirtualOK(d) /\ RowsOK(d))'
  BY KindAssumption DEF Inv, TypeOK, CallState, Start, LocalOK, VirtualOK, RowsOK, Before
<1>3. AccountMatchesCustomer' /\ RefusedLeavesNothing'
  BY DEF Inv, Start, AccountMatchesCustomer, RefusedLeavesNothing
<1> QED BY <1>1, <1>2, <1>3 DEF Inv

\* So do the two checks (create, create_dedicated).
LEMMA CheckCustomerStep ==
    ASSUME Inv, NEW c \in Call, CheckCustomer(c)
    PROVE  Inv'
<1>1. call[c].ref \in Ref /\ call[c].kind \in {"create", "dedicate"}
  BY KindAssumption DEF Inv, LocalOK, CheckCustomer
<1>2. TypeOK'
  BY <1>1 DEF Inv, TypeOK, CallState, CheckCustomer, Reply, Answer
<1>3. \A d \in Call : (LocalOK(d) /\ VirtualOK(d) /\ RowsOK(d))'
  BY <1>1, NoneIsNoCall DEF Inv, TypeOK, CallState, CheckCustomer, Reply, LocalOK, VirtualOK, RowsOK, Before
<1>4. AccountMatchesCustomer'
  BY DEF Inv, CheckCustomer, AccountMatchesCustomer
<1>5. RefusedLeavesNothing'
  BY <1>1, NoneIsNoCall DEF Inv, TypeOK, CallState, CheckCustomer, Reply, LocalOK, VirtualOK, RowsOK, Before,
     RefusedLeavesNothing, AccountMatchesCustomer
<1> QED BY <1>2, <1>3, <1>4, <1>5 DEF Inv

LEMMA CheckAccountStep ==
    ASSUME Inv, NEW c \in Call, CheckAccount(c)
    PROVE  Inv'
<1>1. call[c].ref \in Ref /\ call[c].kind \in {"create", "dedicate"}
  BY KindAssumption DEF Inv, LocalOK, CheckAccount
<1>2. TypeOK'
  BY <1>1 DEF Inv, TypeOK, CallState, CheckAccount, Reply, Goto, Answer
<1>3. \A d \in Call : (LocalOK(d) /\ VirtualOK(d) /\ RowsOK(d))'
  BY <1>1, NoneIsNoCall DEF Inv, TypeOK, CallState, CheckAccount, Reply, Goto, LocalOK, VirtualOK, RowsOK, Before
<1>4. AccountMatchesCustomer'
  BY DEF Inv, CheckAccount, AccountMatchesCustomer
<1>5. RefusedLeavesNothing'
  BY <1>1, NoneIsNoCall DEF Inv, TypeOK, CallState, CheckAccount, Reply, Goto, LocalOK, VirtualOK, RowsOK, Before,
     RefusedLeavesNothing, AccountMatchesCustomer
<1> QED BY <1>2, <1>3, <1>4, <1>5 DEF Inv

\* The insert of a customer: no account has its reference yet (create).
LEMMA InsertCustomerStep ==
    ASSUME Inv, NEW c \in Call, InsertCustomer(c)
    PROVE  Inv'
<1>1. call[c].ref \in Ref /\ call[c].kind = "create" /\ answer[c] = None
  BY DEF Inv, LocalOK, InsertCustomer
<1>2. TypeOK'
  BY <1>1 DEF Inv, TypeOK, CallState, InsertCustomer, Reply, Answer
<1>3. \A d \in Call : (LocalOK(d) /\ VirtualOK(d) /\ RowsOK(d))'
  BY <1>1, NoneIsNoCall DEF Inv, TypeOK, CallState, InsertCustomer, Reply, LocalOK, VirtualOK, RowsOK, Before
<1>4. AccountMatchesCustomer'
  BY <1>1, NoneIsNoCall DEF Inv, TypeOK, AccountRow, InsertCustomer, AccountMatchesCustomer
<1>5. RefusedLeavesNothing'
  <2>1. CASE customer[call[c].ref] # None
    BY <1>1, <2>1 DEF Inv, TypeOK, InsertCustomer, Reply, RefusedLeavesNothing
  <2>2. CASE customer[call[c].ref] = None
    <3>1. /\ customer' = [customer EXCEPT ![call[c].ref] = c]
          /\ account' = account /\ virtual' = virtual /\ answer' = answer
      BY <2>2 DEF InsertCustomer
    <3>2. answer[c] \notin {"conflict", "not_found", "bad_gateway"}
      BY <1>1, NoneIsNoAnswer DEF Answer
    <3> QED BY <1>1, <3>1, <3>2 DEF Inv, TypeOK, RefusedLeavesNothing
  <2> QED BY <2>1, <2>2
<1> QED BY <1>2, <1>3, <1>4, <1>5 DEF Inv

\* The call of Nomba: it opens at most one virtual account for this call.
LEMMA CallNombaStep ==
    ASSUME Inv, NEW c \in Call, CallNomba(c)
    PROVE  Inv'
<1>1. call[c].ref \in Ref /\ call[c].kind \in {"create", "dedicate"}
  BY KindAssumption DEF Inv, LocalOK, CallNomba
<1>2. TypeOK'
  BY <1>1 DEF Inv, TypeOK, CallState, CallNomba, GiveUp, Reply, Goto, Answer
<1>3. \A d \in Call : (LocalOK(d) /\ VirtualOK(d) /\ RowsOK(d))'
  BY <1>1, NoneIsNoCall DEF Inv, TypeOK, CallState, CallNomba, GiveUp, Reply, Goto, LocalOK, VirtualOK, RowsOK, Before
<1>4. AccountMatchesCustomer'
  BY <1>1, NoneIsNoCall DEF Inv, TypeOK, AccountRow, CallNomba, VirtualOK, RowsOK, Before, AccountMatchesCustomer
<1>5. RefusedLeavesNothing'
  <2> DEFINE RefusedLeft(d) ==
        /\ answer'[d] \in {"conflict", "not_found"} => virtual'[d] = None
        /\ answer'[d] \in {"conflict", "not_found", "bad_gateway"} =>
              \A r \in Ref :
                 /\ customer'[r] # d
                 /\ account'[r] # None => d \notin {account'[r].owner, account'[r].number}
  <2>1. answer[c] = None /\ \A d \in Call : d # c => virtual'[d] = virtual[d]
    BY DEF Inv, TypeOK, LocalOK, CallNomba
  <2>2. \A d \in Call : d # c => answer'[d] = answer[d]
    BY DEF Inv, TypeOK, CallNomba, GiveUp, Reply, Goto
  <2>3. \/ answer'[c] \in {None, "error"}
        \/ answer'[c] = "bad_gateway" /\ call[c].kind = "dedicate"
    BY <1>1, <2>1 DEF Inv, TypeOK, CallNomba, GiveUp, Reply, Goto
  <2>4. ASSUME call[c].kind = "dedicate", NEW r \in Ref
        PROVE  customer[r] # c /\ (account[r] # None => c \notin {account[r].owner, account[r].number})
    BY <2>4 DEF Inv, CallNomba, RowsOK, AccountMatchesCustomer
  <2>5. customer' = customer /\ account' = account /\ None \notin {"conflict", "not_found", "bad_gateway"}
    BY NoneIsNoAnswer DEF CallNomba, Answer
  <2>6. ASSUME NEW d \in Call, d # c
        PROVE  RefusedLeft(d)
    BY <2>1, <2>2, <2>5, <2>6 DEF Inv, RefusedLeavesNothing, RefusedLeft
  <2>7. RefusedLeft(c)
    BY <2>3, <2>4, <2>5 DEF RefusedLeft
  <2>8. \A d \in Call : RefusedLeft(d)
    BY <2>6, <2>7
  <2> QED BY <2>8 DEF RefusedLeft, RefusedLeavesNothing
<1> QED BY <1>2, <1>3, <1>4, <1>5 DEF Inv

\* The rollback takes the customer of this very call, with its accounts.
LEMMA RollbackStep ==
    ASSUME Inv, NEW c \in Call, Rollback(c)
    PROVE  Inv'
<1>1. call[c].ref \in Ref /\ call[c].kind = "create" /\ call[c].owner = c /\ answer[c] = None
  BY DEF Inv, LocalOK, Rollback
<1>2. TypeOK'
  BY <1>1 DEF Inv, TypeOK, CallState, Rollback, Reply, Answer
<1>3. \A d \in Call : (LocalOK(d) /\ VirtualOK(d) /\ RowsOK(d))'
  BY <1>1, NoneIsNoCall DEF Inv, TypeOK, CallState, Rollback, Reply, LocalOK, VirtualOK, RowsOK, Before
<1>4. AccountMatchesCustomer'
  BY <1>1, NoneIsNoCall DEF Inv, TypeOK, AccountRow, Rollback, AccountMatchesCustomer
<1>5. RefusedLeavesNothing'
  BY <1>1, NoneIsNoCall DEF Inv, TypeOK, CallState, Rollback, Reply, LocalOK, RowsOK, RefusedLeavesNothing
<1> QED BY <1>2, <1>3, <1>4, <1>5 DEF Inv

\* The insert of an account: under the reference of the customer held, with
\* the number Nomba opened for this call.
LEMMA OpenAccountStep ==
    ASSUME Inv, NEW c \in Call, OpenAccount(c)
    PROVE  Inv'
<1>1. call[c].ref \in Ref /\ call[c].owner \in Call /\ answer[c] = None
  BY DEF Inv, LocalOK, OpenAccount, TypeOK, CallState
<1>2. TypeOK'
  BY <1>1 DEF Inv, TypeOK, CallState, AccountRow, OpenAccount, Reply, Goto, Answer
<1>3. \A d \in Call : (LocalOK(d) /\ VirtualOK(d) /\ RowsOK(d))'
  BY <1>1, NoneIsNoCall DEF Inv, TypeOK, CallState, AccountRow, OpenAccount, Reply, Goto, LocalOK, VirtualOK, RowsOK, Before
<1>4. AccountMatchesCustomer'
  BY <1>1, NoneIsNoCall DEF Inv, TypeOK, AccountRow, OpenAccount, VirtualOK, AccountMatchesCustomer
<1>5. RefusedLeavesNothing'
  <2>1. CASE account' = account
    BY <1>1, <2>1 DEF Inv, TypeOK, OpenAccount, Reply, Goto, RefusedLeavesNothing
  <2>2. CASE account' # account
    <3>1. /\ account' = [account EXCEPT ![call[c].ref] = [owner |-> call[c].owner, number |-> c]]
          /\ customer[call[c].ref] = call[c].owner
          /\ customer' = customer /\ virtual' = virtual /\ answer' = answer
      BY <2>2 DEF OpenAccount, Goto
    <3>2. answer[c] \notin {"conflict", "not_found", "bad_gateway"}
      BY <1>1, NoneIsNoAnswer DEF Answer
    <3> QED BY <1>1, <3>1, <3>2 DEF Inv, TypeOK, RefusedLeavesNothing
  <2> QED BY <2>1, <2>2
<1> QED BY <1>2, <1>3, <1>4, <1>5 DEF Inv

\* The answer, and the faults: calls end, the tables stay as they are.
LEMMA EndStep ==
    ASSUME Inv, \/ Restart
                \/ \E c \in Call : Respond(c) \/ DatabaseError(c)
    PROVE  Inv'
<1>1. TypeOK'
  BY DEF Inv, TypeOK, CallState, Respond, DatabaseError, Restart, Reply, Answer
<1>2. \A d \in Call : (LocalOK(d) /\ VirtualOK(d) /\ RowsOK(d))'
  BY NoneIsNoCall DEF Inv, TypeOK, CallState, Respond, DatabaseError, Restart, Running, Reply, LocalOK, VirtualOK, RowsOK, Before
<1>3. AccountMatchesCustomer'
  BY DEF Inv, Respond, DatabaseError, Restart, AccountMatchesCustomer
<1>4. RefusedLeavesNothing'
  BY DEF Inv, TypeOK, Respond, DatabaseError, Restart, Reply, RefusedLeavesNothing
<1> QED BY <1>1, <1>2, <1>3, <1>4 DEF Inv

\* Every step of provisioning keeps the invariant.
LEMMA InvNext == Inv /\ [Next]_vars => Inv'
<1> SUFFICES ASSUME Inv, [Next]_vars PROVE Inv'
  OBVIOUS
<1>1. CASE \E c \in Call, kind \in Kind, r \in Ref : Start(c, kind, r)
  BY <1>1, StartStep
<1>2. ASSUME NEW c \in Call, Step(c) PROVE Inv'
  <2>1. CASE Respond(c)
    BY <2>1, EndStep
  <2>2. CASE ~Respond(c)
    BY <1>2, <2>2, CheckCustomerStep, CheckAccountStep, InsertCustomerStep, CallNombaStep,
       RollbackStep, OpenAccountStep DEF Step
  <2> QED BY <2>1, <2>2
<1>3. CASE Restart \/ \E c \in Call : DatabaseError(c)
  BY <1>3, EndStep
<1>4. CASE UNCHANGED vars
  BY <1>4 DEF Inv, TypeOK, LocalOK, VirtualOK, RowsOK, AccountMatchesCustomer,
     RefusedLeavesNothing, vars
<1> QED BY <1>1, <1>2, <1>3, <1>4 DEF Next

LEMMA InvAlways == Spec => []Inv
BY InvInit, InvNext, PTL DEF Spec

-----------------------------------------------------------------------------
\* Every row and every local of the calls holds a value of its type.
THEOREM TypeCorrect == Spec => []TypeOK
<1>1. Inv => TypeOK
  BY DEF Inv
<1> QED BY <1>1, InvAlways, PTL

\* However creates, dedicates and rollbacks interleave, an account stands under
\* its own customer's reference, with a number Nomba opened for it.
THEOREM AccountsMatch == Spec => []AccountMatchesCustomer
<1>1. Inv => AccountMatchesCustomer
  BY DEF Inv
<1> QED BY <1>1, InvAlways, PTL

\* A refused call leaves no row, and a conflict nothing at Nomba either.
THEOREM RefusedLeaveNothing == Spec => []RefusedLeavesNothing
<1>1. Inv => RefusedLeavesNothing
  BY DEF Inv
<1> QED BY <1>1, InvAlways, PTL

-----------------------------------------------------------------------------
(***************************************************************************)
(* Without POST /accounts/dedicated, accounts stay.                        *)
(***************************************************************************)

\* The rows a call has made are there from their insert on: the customer's id
\* is the call's own, so the rollback of another call is not about it.
KeptOK(c) ==
    call[c].pc = "respond" \/ answer[c] = "created" =>
        /\ call[c].ref \in Ref
        /\ call[c].owner = c
        /\ customer[call[c].ref] = c
        /\ account[call[c].ref] = [owner |-> c, number |-> c]

LEMMA KeptStep ==
    ASSUME "dedicate" \notin Kind, Inv, \A c \in Call : KeptOK(c), [Next]_vars
    PROVE  \A c \in Call : KeptOK(c)'
<1> SUFFICES ASSUME NEW c \in Call, (call[c].pc = "respond" \/ answer[c] = "created")'
             PROVE  KeptOK(c)'
  BY DEF KeptOK
<1>1. /\ answer[c] # None => call[c].pc = "done"
      /\ None # "created"
      /\ call \in [Call -> CallState]
  BY NoneIsNoAnswer DEF Inv, LocalOK, Answer, TypeOK
<1>2. CASE OpenAccount(c)
  <2>1. call[c].ref \in Ref /\ call[c].owner = c
    BY <1>2, KindAssumption DEF Inv, LocalOK, OpenAccount
  <2>2. Goto(c, "respond") \/ Reply(c, "error")
    BY <1>2 DEF OpenAccount
  <2>3. CASE Reply(c, "error")
    BY <1>1, <2>3 DEF Reply, Inv, TypeOK, CallState
  <2>4. CASE Goto(c, "respond") /\ ~Reply(c, "error")
    <3>1. /\ customer' = customer /\ customer[call[c].ref] = c
          /\ account' = [account EXCEPT ![call[c].ref] = [owner |-> c, number |-> c]]
      BY <1>2, <2>1, <2>4 DEF OpenAccount
    <3>2. call'[c].ref = call[c].ref /\ call'[c].owner = call[c].owner
      BY <1>1, <2>4 DEF Goto, CallState
    <3> QED BY <2>1, <3>1, <3>2 DEF KeptOK, Inv, TypeOK
  <2> QED BY <2>2, <2>3, <2>4
<1>3. CASE ~OpenAccount(c)
  <2>1. /\ call[c].pc = "respond" \/ answer[c] = "created"
        /\ call'[c].ref = call[c].ref /\ call'[c].owner = call[c].owner
    <3> DEFINE Same(d) == call'[d] = call[d] /\ answer'[d] = answer[d]
               Over(d) == /\ call'[d] = [call[d] EXCEPT !.pc = call'[d].pc]
                          /\ call'[d].pc # "respond"
                          /\ answer'[d] = "created" => call[d].pc = "respond"
    <3>1. ASSUME NEW d \in Call, NEW kind \in Kind, NEW r \in Ref, Start(d, kind, r)
          PROVE  d # c /\ Same(c)
      BY <1>1, <3>1 DEF Start, CallState, Inv, TypeOK
    <3>2. ASSUME NEW d \in Call, CheckCustomer(d) PROVE Same(c) \/ Over(c)
      BY <1>1, <3>2 DEF CheckCustomer, Reply, CallState, Inv, TypeOK
    <3>3. ASSUME NEW d \in Call, CheckAccount(d) PROVE Same(c) \/ Over(c)
      BY <1>1, <3>3 DEF CheckAccount, Reply, Goto, CallState, Inv, TypeOK
    <3>4. ASSUME NEW d \in Call, InsertCustomer(d) PROVE Same(c) \/ Over(c)
      BY <1>1, <3>4 DEF InsertCustomer, Reply, CallState, Inv, TypeOK
    <3>5. ASSUME NEW d \in Call, CallNomba(d) PROVE Same(c) \/ Over(c)
      BY <1>1, <3>5 DEF CallNomba, GiveUp, Reply, Goto, CallState, Inv, TypeOK
    <3>6. ASSUME NEW d \in Call, Rollback(d) PROVE Same(c) \/ Over(c)
      BY <1>1, <3>6 DEF Rollback, Reply, CallState, Inv, TypeOK
    <3>7. ASSUME NEW d \in Call, OpenAccount(d) PROVE Same(c)
      BY <1>1, <1>3, <3>7 DEF OpenAccount, Reply, Goto, CallState, Inv, TypeOK
    <3>8. ASSUME NEW d \in Call, Respond(d) \/ DatabaseError(d) PROVE Same(c) \/ Over(c)
      BY <1>1, <3>8 DEF Respond, DatabaseError, Reply, CallState, Inv, TypeOK
    <3>9. ASSUME Restart PROVE Same(c) \/ Over(c)
      BY <1>1, <3>9 DEF Restart, Running, CallState, Inv, TypeOK
    <3>10. ASSUME UNCHANGED vars PROVE Same(c)
      BY <3>10 DEF vars
    <3> HIDE DEF Same, Over
    <3>11. Same(c) \/ Over(c)
      BY <3>1, <3>2, <3>3, <3>4, <3>5, <3>6, <3>7, <3>8, <3>9, <3>10 DEF Next, Step
    <3> QED BY <1>1, <3>11 DEF CallState, Same, Over
  <2>2. /\ call[c].ref \in Ref /\ call[c].owner = c
        /\ customer[call[c].ref] = c
        /\ account[call[c].ref] = [owner |-> c, number |-> c]
    BY <2>1 DEF KeptOK
  <2>3. c # None /\ account[call[c].ref] # None
    BY <2>2, NoneIsNoCall, NoneIsNoRow DEF AccountRow
  <2>4. CASE UNCHANGED <<customer, account>>
    BY <2>1, <2>2, <2>4 DEF KeptOK
  <2>5. ASSUME NEW d \in Call, InsertCustomer(d) PROVE KeptOK(c)'
    BY <2>1, <2>2, <2>3, <2>5 DEF InsertCustomer, KeptOK, Inv, TypeOK
  <2>6. ASSUME NEW d \in Call, OpenAccount(d) PROVE KeptOK(c)'
    BY <2>1, <2>2, <2>3, <2>6 DEF OpenAccount, KeptOK, Inv, TypeOK
  <2>7. ASSUME NEW d \in Call, Rollback(d) PROVE KeptOK(c)'
    <3>1. call[d].owner = d /\ c # d
      BY <1>1, <2>1, <2>7 DEF Inv, LocalOK, Rollback
    <3> QED BY <2>1, <2>2, <2>3, <2>7, <3>1 DEF Rollback, KeptOK
  <2>8. \/ UNCHANGED <<customer, account>>
        \/ \E d \in Call : InsertCustomer(d) \/ OpenAccount(d) \/ Rollback(d)
    BY DEF Next, Step, vars, Start, CheckCustomer, CheckAccount, CallNomba, Respond,
           DatabaseError, Restart
  <2> QED BY <2>4, <2>5, <2>6, <2>7, <2>8
<1> QED BY <1>2, <1>3

\* Where only POST /customers opens accounts, one that was answered created
\* stays, with its customer: a rollback takes the customer of its own create
\* only, and no account is opened for that customer by anybody else (create).
THEOREM CreatedAccountsStay ==
    ASSUME "dedicate" \notin Kind
    PROVE  Spec => []AnsweredAccountStays
<1> DEFINE Kept == \A c \in Call : KeptOK(c)
<1>1. Init => Kept
  BY NoneIsNoAnswer DEF Init, KeptOK, Answer
<1>2. Inv /\ Kept /\ [Next]_vars => Kept'
  BY KeptStep
<1>3. Kept => AnsweredAccountStays
  BY DEF KeptOK, AnsweredAccountStays
<1> HIDE DEF Kept
<1> QED BY <1>1, <1>2, <1>3, InvAlways, PTL DEF Spec
=============================================================================
