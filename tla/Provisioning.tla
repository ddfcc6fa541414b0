---------------------------- MODULE Provisioning ----------------------------
(***************************************************************************)
(* Opening customers and their dedicated accounts: CustomerService.create  *)
(* (POST /customers) and AccountService.create_dedicated (POST             *)
(* /accounts/dedicated), with the virtual account that Nomba opens in      *)
(* between.  The calls interleave at every await, and no database          *)
(* transaction spans two statements.                                       *)
(*                                                                         *)
(* A call names what it creates: it is the id of the customer row and the  *)
(* number of the virtual account it asks for.  There is one merchant, so a *)
(* merchant_customer_id is unique; it is also the account_ref.             *)
(*                                                                         *)
(* A `Mutant' is a plausible mistake in the operator that follows it.      *)
(***************************************************************************)
EXTENDS Naturals

CONSTANTS
    Call,       \* requests made to the two endpoints
    Ref,        \* merchant_customer_id values
    Kind,       \* the endpoints in use: "create", "dedicate"
    MaxFaults,  \* bound on database errors and restarts
    None

ASSUME KindAssumption == Kind \subseteq {"create", "dedicate"}
ASSUME FaultAssumption == MaxFaults \in Nat
ASSUME NoneIsNoCall == None \notin Call \union Ref

VARIABLES
    customer,   \* customer[r]: id of the customers row of r, or None
    account,    \* account[r]: the dedicated_accounts row with account_ref r
    virtual,    \* virtual[c]: ref of the virtual account Nomba opened for c
    call,       \* local state of each call
    answer,     \* what each call was answered
    faults

vars == <<customer, account, virtual, call, answer, faults>>

\* owner is the foreign key to customers; number is the account_number.
AccountRow == [owner: Call, number: Call]

Answer == {"created", "not_found", "conflict", "bad_gateway", "error"}

ASSUME NoneIsNoAnswer == None \notin Answer
ASSUME NoneIsNoRow == None \notin AccountRow

CallState ==
    [pc: {"start", "customer", "account", "insert", "nomba", "rollback",
          "open", "respond", "done"},
     kind: Kind \union {None},
     ref: Ref \union {None},
     owner: Call \union {None}]     \* id of the customer row held

\* Every row and every local holds a value of its type.
TypeOK ==
    /\ customer \in [Ref -> Call \union {None}]
    /\ account \in [Ref -> AccountRow \union {None}]
    /\ virtual \in [Call -> Ref \union {None}]
    /\ call \in [Call -> CallState]
    /\ answer \in [Call -> Answer \union {None}]
    /\ faults \in Nat

Init ==
    /\ customer = [r \in Ref |-> None]
    /\ account = [r \in Ref |-> None]
    /\ virtual = [c \in Call |-> None]
    /\ call = [c \in Call |-> [pc |-> "start", kind |-> None, ref |-> None,
                               owner |-> None]]
    /\ answer = [c \in Call |-> None]
    /\ faults = 0

-----------------------------------------------------------------------------

Goto(c, pc) == call' = [call EXCEPT ![c].pc = pc] /\ UNCHANGED answer

Reply(c, a) ==
    /\ call' = [call EXCEPT ![c].pc = "done"]
    /\ answer' = [answer EXCEPT ![c] = a]

\* A client posts to one of the endpoints.
Start(c, kind, r) ==
    /\ call[c].pc = "start"
    /\ call' = [call EXCEPT ![c].pc = "customer", ![c].kind = kind, ![c].ref = r]
    /\ UNCHANGED <<customer, account, virtual, answer, faults>>

\* Mutant: create_dedicated does not look whether there is a customer.
CheckCustomerOfCreate(c) ==
    LET r == call[c].ref IN
    /\ call[c].pc = "customer"
    /\ IF call[c].kind = "create" /\ customer[r] # None
       THEN Reply(c, "conflict")
       ELSE /\ call' = [call EXCEPT ![c].pc = "account", ![c].owner = customer[r]]
            /\ UNCHANGED answer
    /\ UNCHANGED <<customer, account, virtual, faults>>

\* create: there must be no customer with this merchant_customer_id.
\* create_dedicated: there must be one, whose row is then held.
CheckCustomer(c) ==
    LET r == call[c].ref IN
    /\ call[c].pc = "customer"
    /\ \/ /\ call[c].kind = "create" /\ customer[r] # None
          /\ Reply(c, "conflict")
       \/ /\ call[c].kind = "dedicate" /\ customer[r] = None
          /\ Reply(c, "not_found")
       \/ /\ call[c].kind = "create" <=> customer[r] = None
          /\ call' = [call EXCEPT ![c].pc = "account", ![c].owner = customer[r]]
          /\ UNCHANGED answer
    /\ UNCHANGED <<customer, account, virtual, faults>>

\* create looks for an account with this account_ref, create_dedicated for an
\* account of the customer it holds.
Taken(c) ==
    \/ call[c].kind = "create" /\ account[call[c].ref] # None
    \/ /\ call[c].kind = "dedicate"
       /\ \E r \in Ref : account[r] # None /\ account[r].owner = call[c].owner

CheckAccount(c) ==
    /\ call[c].pc = "account"
    /\ IF Taken(c) THEN Reply(c, "conflict")
                   ELSE Goto(c, IF call[c].kind = "create" THEN "insert" ELSE "nomba")
    /\ UNCHANGED <<customer, account, virtual, faults>>

\* Customer.create; (merchant_id, merchant_customer_id) is unique.
InsertCustomer(c) ==
    LET r == call[c].ref IN
    /\ call[c].pc = "insert"
    /\ \/ /\ customer[r] # None
          /\ Reply(c, "error")
          /\ UNCHANGED customer
       \/ /\ customer[r] = None
          /\ customer' = [customer EXCEPT ![r] = c]
          /\ call' = [call EXCEPT ![c].pc = "nomba", ![c].owner = c]
          /\ UNCHANGED answer
    /\ UNCHANGED <<account, virtual, faults>>

\* Mutant: a failure reported by Nomba is answered without the rollback.
GiveUpAtOnce(c) == Reply(c, "bad_gateway")

\* Nomba refused, or the answer was lost or has no account number: create takes
\* the customer back, create_dedicated only answers.
GiveUp(c) ==
    IF call[c].kind = "create" THEN Goto(c, "rollback")
                               ELSE Reply(c, "bad_gateway")

\* NombaVirtualAccountService.create.  Nomba may have opened the virtual account
\* in each outcome but one: without a token _auth_headers raises a RuntimeError,
\* which is no httpx.HTTPError, and nothing is sent.  A body that is not JSON
\* raises too.
CallNomba(c) ==
    /\ call[c].pc = "nomba"
    /\ \/ /\ virtual' = [virtual EXCEPT ![c] = call[c].ref]
          /\ Goto(c, "open") \/ GiveUp(c) \/ Reply(c, "error")
       \/ /\ UNCHANGED virtual
          /\ GiveUp(c) \/ Reply(c, "error")
    /\ UNCHANGED <<customer, account, faults>>

\* Mutant: the delete leaves the accounts of the customer behind.
RollbackAlone(c) ==
    /\ call[c].pc = "rollback"
    /\ customer' = [r \in Ref |-> IF customer[r] = call[c].owner THEN None ELSE customer[r]]
    /\ Reply(c, "bad_gateway")
    /\ UNCHANGED <<account, virtual, faults>>

\* customer.delete() of the row held; its accounts go with it (ON DELETE CASCADE).
Rollback(c) ==
    LET id == call[c].owner IN
    /\ call[c].pc = "rollback"
    /\ customer' = [r \in Ref |-> IF customer[r] = id THEN None ELSE customer[r]]
    /\ account' = [r \in Ref |-> IF account[r] # None /\ account[r].owner = id
                                 THEN None ELSE account[r]]
    /\ Reply(c, "bad_gateway")
    /\ UNCHANGED <<virtual, faults>>

\* DedicatedAccount.create; account_ref is unique and the customer held must
\* still be there.
OpenAccount(c) ==
    LET r == call[c].ref IN
    /\ call[c].pc = "open"
    /\ \/ /\ account[r] # None \/ customer[r] # call[c].owner
          /\ Reply(c, "error")
          /\ UNCHANGED account
       \/ /\ account[r] = None /\ customer[r] = call[c].owner
          /\ account' = [account EXCEPT ![r] = [owner |-> call[c].owner, number |-> c]]
          /\ Goto(c, "respond")
    /\ UNCHANGED <<customer, virtual, faults>>

\* The response is built, from another query of the database.
Respond(c) ==
    /\ call[c].pc = "respond"
    /\ Reply(c, "created")
    /\ UNCHANGED <<customer, account, virtual, faults>>

-----------------------------------------------------------------------------

Running(c) == call[c].pc \notin {"start", "done"}

\* A database call raises.
DatabaseError(c) ==
    /\ faults < MaxFaults
    /\ Running(c) /\ call[c].pc # "nomba"
    /\ Reply(c, "error")
    /\ faults' = faults + 1
    /\ UNCHANGED <<customer, account, virtual>>

\* The process restarts: the calls in flight end without an answer.
Restart ==
    /\ faults < MaxFaults
    /\ \E c \in Call : Running(c)
    /\ call' = [c \in Call |-> IF Running(c) THEN [call[c] EXCEPT !.pc = "done"]
                                             ELSE call[c]]
    /\ faults' = faults + 1
    /\ UNCHANGED <<customer, account, virtual, answer>>

Step(c) ==
    \/ CheckCustomer(c) \/ CheckAccount(c) \/ InsertCustomer(c) \/ CallNomba(c)
    \/ Rollback(c) \/ OpenAccount(c) \/ Respond(c)

Next ==
    \/ \E c \in Call, kind \in Kind, r \in Ref : Start(c, kind, r)
    \/ \E c \in Call : Step(c) \/ DatabaseError(c)
    \/ Restart

Spec == Init /\ [][Next]_vars
-----------------------------------------------------------------------------
\* An account belongs to the customer whose merchant_customer_id is its
\* account_ref, and its number is one Nomba opened under that reference: so a
\* payment found by number and one found by reference credit the same customer.
AccountMatchesCustomer ==
    \A r \in Ref : account[r] # None =>
        /\ customer[r] = account[r].owner
        /\ virtual[account[r].number] = r

\* A client that is refused may repeat the call with a clean slate: a conflict
\* or a missing customer has opened nothing, at Nomba neither, and a failure of
\* Nomba leaves no row, for the rollback comes before the answer.
RefusedLeavesNothing ==
    \A c \in Call :
        /\ answer[c] \in {"conflict", "not_found"} => virtual[c] = None
        /\ answer[c] \in {"conflict", "not_found", "bad_gateway"} =>
              \A r \in Ref :
                 /\ customer[r] # c
                 /\ account[r] # None => c \notin {account[r].owner, account[r].number}

\* An account a client was told is created stays, with its customer.  It does
\* where only POST /customers is used; a POST /accounts/dedicated that overtakes
\* it loses its account to the rollback of the create.
AnsweredAccountStays ==
    \A c \in Call : answer[c] = "created" =>
        /\ customer[call[c].ref] = call[c].owner
        /\ account[call[c].ref] = [owner |-> call[c].owner, number |-> c]

\* A create that Nomba's failure ended leaves no customer without an account
\* behind.  It is not so when the failure is raised and not returned.
NombaFailureRollsBack ==
    \A c \in Call : answer[c] \in {"bad_gateway", "error"} =>
        \A r \in Ref : customer[r] = c => account[r] # None
=============================================================================
