-------------------------- MODULE CustomerProfile --------------------------
(***************************************************************************)
(* PATCH /customers/{id}, CustomerService.update, beside the webhooks of   *)
(* PaymentProcessing.  It saves the customer row it has read, every column *)
(* of it, and a rename goes on to the account row and to Nomba.  Both      *)
(* kinds of handlers write the same rows, and none of them locks a row or  *)
(* spans two statements with a database transaction.                       *)
(*                                                                         *)
(* The columns a PATCH may set (name, email, phone, target_amount,         *)
(* metadata) are represented by the two that are read elsewhere: the name, *)
(* which the account has too, and the target.                              *)
(*                                                                         *)
(* A `Mutant' is a plausible mistake in the operator that follows it.      *)
(***************************************************************************)
EXTENDS PaymentProcessing

CONSTANTS
    Patch,          \* PATCH requests that may be made
    NewTarget       \* targets they may ask for

ASSUME NewTargetAssumption == NewTarget \subseteq Nat
ASSUME NoneIsNoName == None \notin Name /\ None \notin NewTarget /\ None \notin AccountStatus

VARIABLES
    accountName,    \* dedicated_accounts.account_name; None: no row
    bankName,       \* name of the virtual account at Nomba; None: none known
    patch           \* local state of each PATCH

profileVars == <<vars, accountName, bankName, patch>>

\* name and target are those of the body, None when the field is absent.
PatchState ==
    [pc: {"start", "save", "account", "rename", "nomba", "respond", "done"},
     who: Customer \union {None},
     name: Name \union {None},
     target: NewTarget \union {None},
     row: CustomerRow \union {None},        \* the customer, with the body applied
     status: AccountStatus \union {None}]   \* of the account, as read

NotMade == [pc |-> "start", who |-> None, name |-> None, target |-> None,
            row |-> None, status |-> None]

\* Every column and local holds a value of its type, and the accounts that
\* have a name are those that have a row.
ProfileTypeOK ==
    /\ TypeOK
    /\ accountName \in [Customer -> Name \union {None}]
    /\ bankName \in [Customer -> Name \union {None}]
    /\ patch \in [Patch -> PatchState]
    /\ \A c \in Customer : accountName[c] = None <=> accountStatus[c] = None

ProfileInit ==
    /\ Init
    /\ accountName = [c \in Customer |-> None]
    /\ bankName = [c \in Customer |-> None]
    /\ patch = [p \in Patch |-> NotMade]

-----------------------------------------------------------------------------

\* The new account has the name the caller gives or else the customer's name
\* as the caller read it; Nomba has been told the same.
OpenNamedAccount(c, name) ==
    /\ OpenAccount(c)
    /\ accountName' = [accountName EXCEPT ![c] = name]
    /\ bankName' = [bankName EXCEPT ![c] = name]
    /\ UNCHANGED patch

\* The steps of PaymentProcessing leave names and PATCHes alone.
Aside == UNCHANGED <<accountName, bankName, patch>>

-----------------------------------------------------------------------------
(***************************************************************************)
(* The steps of update().                                                  *)
(***************************************************************************)

PatchGoto(p, pc) == patch' = [patch EXCEPT ![p].pc = pc]

\* The request is over: with the answer 200, or with 500 when a call raised.
PatchOver(p) == patch' = [patch EXCEPT ![p] = [NotMade EXCEPT !.pc = "done"]]

\* Mutant: the row is built anew from the body and the columns' defaults.
BodyAnew(c, name, target) ==
    [wallet |-> NothingAdded, target |-> target,
     name |-> IF name = None THEN customer[c].name ELSE name]

\* The row as read, with the fields of the body set on it.
BodyApplied(c, name, target) ==
    [customer[c] EXCEPT !.name = IF name = None THEN @ ELSE name,
                        !.target = IF target = None THEN @ ELSE target]

\* _resolve_customer reads the row, and the body is applied to the copy.
ResolveCustomer(p, c, name, target) ==
    /\ patch[p].pc = "start"
    /\ patch' = [patch EXCEPT ![p] =
          [pc |-> "save", who |-> c, name |-> name, target |-> target,
           row |-> BodyApplied(c, name, target), status |-> None]]
    /\ UNCHANGED <<vars, accountName, bankName>>

\* customer.save(): an UPDATE of every column from the copy.
SaveCustomer(p) ==
    /\ patch[p].pc = "save"
    /\ customer' = [customer EXCEPT ![patch[p].who] = patch[p].row]
    /\ PatchGoto(p, IF patch[p].name = None THEN "respond" ELSE "account")
    /\ UNCHANGED <<event, accountStatus, transaction, suspense, audit, processed,
                   registration, posted, answered, handler, faults,
                   accountName, bankName>>

\* Mutant: the account is taken to exist.
FindAccountUnchecked(p) ==
    /\ patch[p].pc = "account"
    /\ patch' = [patch EXCEPT ![p].pc = "rename",
                              ![p].status = accountStatus[patch[p].who]]
    /\ UNCHANGED <<vars, accountName, bankName>>

\* A rename reads the account row, if the customer has an account.
FindAccount(p) ==
    LET c == patch[p].who IN
    /\ patch[p].pc = "account"
    /\ \/ /\ accountStatus[c] = None
          /\ PatchGoto(p, "respond")
       \/ /\ accountStatus[c] # None
          /\ patch' = [patch EXCEPT ![p].pc = "rename",
                                    ![p].status = accountStatus[c]]
    /\ UNCHANGED <<vars, accountName, bankName>>

\* Mutant: the account is saved with the default status.
RenameAccountAnew(p) ==
    /\ patch[p].pc = "rename"
    /\ accountName' = [accountName EXCEPT ![patch[p].who] = patch[p].name]
    /\ accountStatus' = [accountStatus EXCEPT ![patch[p].who] = "active"]
    /\ PatchGoto(p, "nomba")
    /\ UNCHANGED <<event, customer, transaction, suspense, audit, processed,
                   registration, posted, answered, handler, faults, bankName>>

\* Mutant: the name is set only on the copy.
RenameAccountInMemory(p) ==
    /\ patch[p].pc = "rename"
    /\ PatchGoto(p, "nomba")
    /\ UNCHANGED <<vars, accountName, bankName>>

\* account.save(): the new name, and with it the status as it was read.
RenameAccount(p) ==
    /\ patch[p].pc = "rename"
    /\ accountName' = [accountName EXCEPT ![patch[p].who] = patch[p].name]
    /\ accountStatus' = [accountStatus EXCEPT ![patch[p].who] = patch[p].status]
    /\ PatchGoto(p, "nomba")
    /\ UNCHANGED <<event, customer, transaction, suspense, audit, processed,
                   registration, posted, answered, handler, faults, bankName>>

\* update_account_name.  Its result is not looked at: a refusal or a lost answer
\* goes on as a success.  Without a token, or with an answer that is not JSON,
\* it raises.
RenameAtNomba(p) ==
    /\ patch[p].pc = "nomba"
    /\ \/ bankName' = [bankName EXCEPT ![patch[p].who] = patch[p].name]
       \/ UNCHANGED bankName
    /\ PatchGoto(p, "respond") \/ PatchOver(p)
    /\ UNCHANGED <<vars, accountName>>

\* The response shows the copy of the customer, and the account as read now.
Respond(p) ==
    /\ patch[p].pc = "respond"
    /\ PatchOver(p)
    /\ UNCHANGED <<vars, accountName, bankName>>

PatchBusy(p) == patch[p].pc \notin {"start", "done"}

\* A database call of a PATCH raises.
PatchDatabaseError(p) ==
    /\ faults < MaxFaults
    /\ PatchBusy(p) /\ patch[p].pc # "nomba"
    /\ PatchOver(p)
    /\ faults' = faults + 1
    /\ UNCHANGED <<event, tables, posted, answered, handler, accountName, bankName>>

\* The process restarts: all handlers in flight are gone, of either kind.
RestartAll ==
    /\ faults < MaxFaults
    /\ \/ \E h \in Handler : handler[h].pc # "idle"
       \/ \E p \in Patch : PatchBusy(p)
    /\ handler' = [h \in Handler |-> Idle]
    /\ patch' = [p \in Patch |-> IF PatchBusy(p) THEN [NotMade EXCEPT !.pc = "done"]
                                                 ELSE patch[p]]
    /\ faults' = faults + 1
    /\ UNCHANGED <<event, tables, posted, answered, accountName, bankName>>

-----------------------------------------------------------------------------

PatchStep(p) ==
    \/ SaveCustomer(p) \/ FindAccount(p) \/ RenameAccount(p)
    \/ RenameAtNomba(p) \/ Respond(p)

\* Something from outside reaches the service or its database.  Registrations
\* and simulated payments, which PaymentProcessing has, are left out: they write
\* neither of the rows a PATCH writes.
Arrival ==
    \/ /\ \/ \E r \in Request, p \in Payload : NombaEvent(r, p)
          \/ \E h \in Handler, r \in Request : Deliver(h, r)
          \/ \E c \in Customer, s \in AccountStatus : SetAccountStatus(c, s)
       /\ Aside
    \/ \E c \in Customer, name \in Name : OpenNamedAccount(c, name)
    \/ \E p \in Patch, c \in Customer, name \in Name \union {None},
          target \in NewTarget \union {None} : ResolveCustomer(p, c, name, target)

\* Something in flight goes on or is cut.
Progress ==
    \/ /\ \/ \E h \in Handler : HandlerStep(h)
          \/ \E h \in Handler : DatabaseError(h)
       /\ Aside
    \/ \E p \in Patch : PatchStep(p) \/ PatchDatabaseError(p)
    \/ RestartAll

ProfileSpec == ProfileInit /\ [][Arrival \/ Progress]_profileVars

Quiet ==
    /\ \A h \in Handler : handler[h].pc = "idle"
    /\ \A p \in Patch : ~PatchBusy(p)

\* The same service when nothing arrives while something is in flight.
SerialSpec == ProfileInit /\ [][(Quiet /\ Arrival) \/ Progress]_profileVars
-----------------------------------------------------------------------------
\* When a PATCH is about to be answered, the rows hold what it asked for: the
\* customer has the name and the target, and its account the name.  It holds
\* for requests that do not overlap.
PatchTakesEffect ==
    \A p \in Patch : patch[p].pc = "respond" =>
        LET c == patch[p].who IN
        /\ patch[p].target # None => customer[c].target = patch[p].target
        /\ patch[p].name # None =>
              /\ customer[c].name = patch[p].name
              /\ accountName[c] \in {None, patch[p].name}

\* The body of a PATCH has no status, and no PATCH changes that of an account:
\* one that an operator closed stays closed.  It holds for requests that do not
\* overlap; a closure between the read and the save of the account is undone.
PatchLeavesStatus ==
    [][(\E p \in Patch : PatchStep(p)) => UNCHANGED accountStatus]_profileVars
=============================================================================
