--------------------------- MODULE NightlyProofs ---------------------------
(***************************************************************************)
(* Theorems about NightlyReconciliation, for any number of payments, of    *)
(* days and of nights that are spoilt, and any limit of Nomba's list.       *)
(***************************************************************************)
EXTENDS NightlyReconciliation, FiniteSetTheorems, TLAPS

\* p has an audit entry of the run of day d.
MatchedOn(p, d) == \E i \in DOMAIN matches[p] : matches[p][i].day = d

\* The row of q is one the item of p can have been found by.
IsRowFor(q, p) ==
    /\ copies[q] > 0
    /\ q = p \/ ("ref" \in listed[p] \intersect told[q] /\ RefOf[q] = RefOf[p])

\* Nothing is made in the future, and a row tells of a payment that was made.
MadeOK ==
    \A p \in Payment :
        /\ made[p] # None => made[p] <= day
        /\ copies[p] > 0 => made[p] # None

\* A run belongs to its day, and has not yet matched what it still has to do.
JobOK ==
    /\ job.pc # "idle" => job.today = day /\ ~early
    /\ job.pc \in {"idle", "list"} => job.items = {}
    /\ \A p \in job.items : InWindow(p, job.today) /\ ~MatchedOn(p, job.today)
    /\ job.pc \in {"ref", "write"} =>
          /\ job.item \in Payment
          /\ job.item \notin job.items
          /\ InWindow(job.item, job.today)
          /\ ~MatchedOn(job.item, job.today)
    /\ job.pc = "write" => job.found \in Payment /\ IsRowFor(job.found, job.item)

\* Before the run of a day nothing has its date.
Fresh ==
    early \/ job.pc = "list" => \A p \in Payment : ~MatchedOn(p, day)

\* Each audit entry is of a run that had the payment in its window.
MatchOK ==
    \A p \in Payment : \A i \in DOMAIN matches[p] :
        /\ InWindow(p, matches[p][i].day)
        /\ matches[p][i].day <= day
        /\ IsRowFor(matches[p][i].row, p)

OncePerRun ==
    \A p \in Payment : \A i, j \in DOMAIN matches[p] :
        matches[p][i].day = matches[p][j].day => i = j

\* What the run under way has dealt with, or has still before it.
InHand(p) ==
    \/ p \in job.items
    \/ job.pc \in {"ref", "write"} /\ p = job.item
    \/ listed[p] = {}
    \/ AccountedFor(p)

Kept == {p \in Payment : InWindow(p, job.today) /\ InHand(p)}

\* A run that was given a list loses nothing of it, and of the day before
\* nothing that the list could hold.
RunDue ==
    job.pc \in {"next", "ref", "write"} /\ job.today \notin spoilt =>
        \/ \A p \in Payment : made[p] # None /\ made[p] + 1 = job.today => p \in Kept
        \/ Cardinality(Kept) >= Limit

\* A look-up of day d may find two rows.
AmbiguousIn(d) == \E p \in Payment : InWindow(p, d) /\ Ambiguous(p)

\* No night goes without its complete run unless it is spoilt or a key of its
\* own window is ambiguous.
NightsOK ==
    \A d \in Day : NightOver(d) => d \in completed \/ d \in spoilt \/ AmbiguousIn(d)

NightInv ==
    /\ TypeOK
    /\ MadeOK
    /\ JobOK
    /\ Fresh
    /\ MatchOK
    /\ OncePerRun
    /\ RunDue
    /\ \A d \in completed : d <= day
    /\ CompleteRunAccounts
    /\ NightsOK

-----------------------------------------------------------------------------

LEMMA NightInit == Init => NightInv
<1> SUFFICES ASSUME Init PROVE NightInv
  OBVIOUS
<1>1. TypeOK
  BY BoundsAssumption DEF Init, TypeOK, NoJob, Day
<1>2. MadeOK /\ JobOK /\ Fresh /\ MatchOK /\ OncePerRun /\ RunDue
  BY DEF Init, NoJob, MadeOK, JobOK, Fresh, MatchedOn, MatchOK, OncePerRun, RunDue
<1>3. CompleteRunAccounts /\ \A d \in completed : d <= day
  BY DEF Init, CompleteRunAccounts
<1>4. NightsOK
  BY BoundsAssumption DEF Init, NightsOK, NightOver, Day
<1> QED BY <1>1, <1>2, <1>3, <1>4 DEF NightInv

\* What the rows of a look-up are: of payments that have the key.
LEMMA RowsAreRows ==
    ASSUME TypeOK, NEW p \in Payment, NEW row \in RowsById(p) \union
               (IF "ref" \in listed[p] THEN RowsByRef(p) ELSE {})
    PROVE  row[1] \in Payment /\ IsRowFor(row[1], p)
<1>1. CASE row \in RowsById(p)
  <2>1. row[1] = p /\ \E n \in 1..copies[p] : TRUE
    BY <1>1 DEF RowsById
  <2>2. copies[p] \in Nat
    BY BoundsAssumption DEF TypeOK
  <2> QED BY <2>1, <2>2 DEF IsRowFor
<1>2. CASE "ref" \in listed[p] /\ row \in RowsByRef(p)
  <2>1. PICK q \in Payment : /\ "ref" \in told[q] /\ RefOf[q] = RefOf[p]
                             /\ row \in {q} \X (1..copies[q])
    BY <1>2 DEF RowsByRef
  <2>2. row[1] = q /\ \E n \in 1..copies[q] : TRUE
    BY <2>1
  <2>3. copies[q] \in Nat
    BY BoundsAssumption DEF TypeOK
  <2> QED BY <1>2, <2>1, <2>2, <2>3 DEF IsRowFor
<1> QED BY <1>1, <1>2

\* A look-up ends the run, finds the one row there is, or goes on.
LEMMA LookUpEffect ==
    ASSUME TypeOK, NEW p \in Payment, NEW pcIfNone, NEW rows,
           rows \subseteq RowsById(p) \union
               (IF "ref" \in listed[p] THEN RowsByRef(p) ELSE {}),
           GetOrNone(rows, p, pcIfNone)
    PROVE  \/ job' = NoJob /\ Cardinality(rows) > 1
           \/ \E q \in Payment :
                 /\ IsRowFor(q, p)
                 /\ job' = [job EXCEPT !.pc = "write", !.items = @ \ {p}, !.item = p,
                                       !.found = q]
           \/ /\ rows = {}
              /\ job' = [job EXCEPT !.pc = pcIfNone, !.items = @ \ {p}, !.item = p,
                                    !.found = None]
<1>1. CASE Cardinality(rows) > 1 /\ job' = NoJob
  BY <1>1
<1>2. ASSUME NEW row \in rows,
             job' = [job EXCEPT !.pc = "write", !.items = @ \ {p}, !.item = p,
                                !.found = row[1]]
      PROVE  \E q \in Payment :
                 /\ IsRowFor(q, p)
                 /\ job' = [job EXCEPT !.pc = "write", !.items = @ \ {p}, !.item = p,
                                       !.found = q]
  BY <1>2, RowsAreRows
<1> QED BY <1>1, <1>2 DEF GetOrNone

LEMMA TypeStep == TypeOK /\ JobOK /\ [Next]_vars => TypeOK'
<1> SUFFICES ASSUME TypeOK, JobOK, [Next]_vars PROVE TypeOK'
  OBVIOUS
<1> DEFINE JobState == [pc: {"idle", "list", "next", "ref", "write"},
                        today: Day,
                        items: SUBSET Payment,
                        item: Payment \union {None},
                        found: Payment \union {None}]
<1> USE BoundsAssumption DEF Day
<1>0. job \in JobState /\ NoJob \in JobState
  BY DEF TypeOK, NoJob
<1>1. ASSUME NEW p \in Payment, NEW keys \in KeysOf[p], Pay(p, keys) PROVE TypeOK'
  <2>1. keys \in [listed: SUBSET {"id", "ref"}, told: SUBSET {"id", "ref"}]
    BY KeysAssumption
  <2> QED BY <1>1, <2>1 DEF Pay, TypeOK
<1>2. ASSUME NEW p \in Payment, RecordPayment(p) PROVE TypeOK'
  <2>1. copies[p] + 1 \in 0..MaxCopies
    BY <1>2 DEF RecordPayment, TypeOK
  <2>2. copies' \in [Payment -> 0..MaxCopies]
    BY <1>2, <2>1 DEF RecordPayment, TypeOK
  <2> QED BY <1>2, <2>2 DEF RecordPayment, nomba, TypeOK
<1>3. CASE Midnight
  <2>1. day' \in Day
    BY <1>3 DEF Midnight, TypeOK
  <2> QED BY <1>3, <2>1 DEF Midnight, nomba, TypeOK
<1>4. CASE Trigger \/ MissTrigger
  <2>1. job' \in JobState
    BY <1>0, <1>4 DEF Trigger, MissTrigger, NoJob, TypeOK
  <2>2. spoilt' \subseteq Day
    BY <1>4 DEF Trigger, MissTrigger, TypeOK
  <2> QED BY <1>4, <2>1, <2>2 DEF Trigger, MissTrigger, nomba, TypeOK
<1>5. CASE ListTransactions
  <2>1. job' \in JobState
    BY <1>0, <1>5 DEF ListTransactions, Window
  <2> QED BY <1>5, <2>1 DEF ListTransactions, nomba, TypeOK
<1>6. CASE RunFails \/ CompleteRun \/ ListNothing
  <2>1. job' \in JobState
    BY <1>0, <1>6 DEF RunFails, CompleteRun, ListNothing
  <2>2. completed' \subseteq Day
    BY <1>6 DEF RunFails, CompleteRun, ListNothing, TypeOK
  <2>3. spoilt' \subseteq Day
    BY <1>6 DEF RunFails, CompleteRun, ListNothing, TypeOK
  <2> QED BY <1>6, <2>1, <2>2, <2>3 DEF RunFails, CompleteRun, ListNothing, nomba, TypeOK
<1>7. ASSUME NEW p \in Payment, SkipItem(p) PROVE TypeOK'
  <2>1. job' \in JobState
    BY <1>0, <1>7 DEF SkipItem
  <2> QED BY <1>7, <2>1 DEF SkipItem, nomba, TypeOK
<1>8. ASSUME NEW p \in Payment, NEW rows, NEW pcIfNone \in {"ref", "next"},
             rows \subseteq RowsById(p) \union
                 (IF "ref" \in listed[p] THEN RowsByRef(p) ELSE {}),
             GetOrNone(rows, p, pcIfNone)
      PROVE  job' \in JobState
  <2>1. CASE job' = NoJob
    BY <1>0, <2>1
  <2>2. CASE \E pc \in {"write", "ref", "next"}, q \in Payment \union {None} :
                job' = [job EXCEPT !.pc = pc, !.items = @ \ {p}, !.item = p, !.found = q]
    <3>1. PICK pc \in {"write", "ref", "next"}, q \in Payment \union {None} :
             job' = [job EXCEPT !.pc = pc, !.items = @ \ {p}, !.item = p, !.found = q]
      BY <2>2
    <3>2. job.items \ {p} \in SUBSET Payment
      BY <1>0
    <3>3. job' = [job EXCEPT !.pc = pc, !.items = job.items \ {p}, !.item = p, !.found = q]
      BY <3>1
    <3> QED BY <1>0, <3>2, <3>3
  <2> HIDE DEF JobState
  <2> QED BY <1>8, <2>1, <2>2, LookUpEffect
<1>9. ASSUME NEW p \in Payment, LookUpById(p) PROVE TypeOK'
  <2>1. job' \in JobState
    BY <1>8, <1>9 DEF LookUpById
  <2> QED BY <1>9, <2>1 DEF LookUpById, nomba, TypeOK
<1>10. ASSUME LookUpByRef, job.item \in Payment PROVE TypeOK'
  <2>1. job' \in JobState
    BY <1>8, <1>10 DEF LookUpByRef
  <2> QED BY <1>10, <2>1 DEF LookUpByRef, nomba, TypeOK
<1>11. ASSUME WriteMatch, job.item \in Payment, job.found \in Payment PROVE TypeOK'
  <2>1. job' \in JobState
    BY <1>0, <1>11 DEF WriteMatch
  <2>2. [day |-> job.today, row |-> job.found] \in [day: Day, row: Payment]
    BY <1>0, <1>11
  <2> DEFINE entry == [day |-> job.today, row |-> job.found]
             Entry == [day: Day, row: Payment]
  <2>3. matches' \in [Payment -> Seq(Entry)]
    <3>1. /\ matches \in [Payment -> Seq(Entry)] /\ entry \in Entry
          /\ matches' = [matches EXCEPT ![job.item] = Append(@, entry)]
      BY <1>11, <2>2 DEF WriteMatch, TypeOK
    <3> HIDE DEF entry, Entry
    <3> QED BY <1>11, <3>1
  <2> QED BY <1>11, <2>1, <2>3 DEF WriteMatch, nomba, TypeOK
<1>12. CASE UNCHANGED vars
  BY <1>12 DEF vars, nomba, TypeOK
<1> QED BY <1>1, <1>2, <1>3, <1>4, <1>5, <1>6, <1>7, <1>9, <1>10, <1>11, <1>12
    DEF Next, JobStep, JobOK, LookUpByRef, WriteMatch

-----------------------------------------------------------------------------
(***************************************************************************)
(* What only grows.                                                        *)
(***************************************************************************)

\* What was made, recorded, matched or reported stays so.
Grows ==
    /\ \A p \in Payment : made[p] # None =>
          made'[p] = made[p] /\ listed'[p] = listed[p] /\ told'[p] = told[p]
    /\ \A p \in Payment : copies'[p] >= copies[p]
    /\ \A p \in Payment : matches[p] # <<>> => matches'[p] # <<>>
    /\ reported \subseteq reported'
    /\ completed \subseteq completed'
    /\ spoilt \subseteq spoilt'
    /\ day' \in {day, day + 1}

LEMMA NextGrows == TypeOK /\ JobOK /\ [Next]_vars => Grows
<1> SUFFICES ASSUME TypeOK, JobOK, [Next]_vars PROVE Grows
  OBVIOUS
<1>0. /\ copies \in [Payment -> 0..MaxCopies]
      /\ \A p \in Payment : copies[p] \in Nat
      /\ day \in Nat
  BY BoundsAssumption DEF TypeOK, Day
<1>1. ASSUME NEW p \in Payment, NEW keys \in KeysOf[p], Pay(p, keys) PROVE Grows
  BY <1>0, <1>1 DEF Pay, TypeOK, Grows
<1>2. ASSUME NEW p \in Payment, RecordPayment(p) PROVE Grows
  BY <1>0, <1>2 DEF RecordPayment, nomba, Grows
<1>3. CASE WriteMatch
  <2>1. /\ UNCHANGED <<made, listed, told, copies, reported, completed, spoilt, day>>
        /\ job.item \in Payment
    BY <1>3 DEF WriteMatch, nomba, JobOK
  <2>2. ASSUME NEW p \in Payment, matches[p] # <<>> PROVE matches'[p] # <<>>
    <3> DEFINE entry == [day |-> job.today, row |-> job.found]
               Entry == [day: Day, row: Payment]
    <3>1. /\ matches \in [Payment -> Seq(Entry)] /\ entry \in Entry
          /\ matches' = [matches EXCEPT ![job.item] = Append(@, entry)]
      BY <1>3 DEF WriteMatch, TypeOK, JobOK
    <3> HIDE DEF entry, Entry
    <3>2. matches'[p] = matches[p] \/ matches'[p] = Append(matches[p], entry)
      BY <2>1, <3>1
    <3>3. \A m \in Seq(Entry) : Append(m, entry) # <<>>
      <4> SUFFICES ASSUME NEW m \in Seq(Entry) PROVE Append(m, entry) # <<>>
        OBVIOUS
      <4>1. Len(Append(m, entry)) = Len(m) + 1 /\ Len(m) \in Nat
        BY <3>1
      <4>2. Len(Append(m, entry)) # 0
        BY <4>1
      <4>3. Len(<<>>) = 0
        OBVIOUS
      <4> QED BY <4>2, <4>3, Zenon
    <3>4. matches[p] \in Seq(Entry)
      BY <3>1
    <3> QED BY <2>2, <3>2, <3>3, <3>4
  <2> QED BY <1>0, <2>1, <2>2 DEF Grows
<1>4. CASE UNCHANGED <<made, listed, told, copies, matches>> /\ reported \subseteq reported'
           /\ completed \subseteq completed' /\ spoilt \subseteq spoilt' /\ day' \in {day, day + 1}
  BY <1>0, <1>4 DEF Grows
<1>5. Midnight \/ UNCHANGED vars => Grows
  BY <1>4 DEF Midnight, vars, nomba
<1>6. \A p \in Payment : SkipItem(p) \/ LookUpById(p) => Grows
  BY <1>4 DEF SkipItem, LookUpById, nomba
<1>7. \/ Trigger \/ MissTrigger \/ RunFails \/ ListTransactions \/ ListNothing
      \/ LookUpByRef \/ CompleteRun
      => Grows
  BY <1>4 DEF Trigger, MissTrigger, RunFails, ListTransactions, ListNothing, LookUpByRef,
              CompleteRun, nomba
<1> QED BY <1>1, <1>2, <1>3, <1>5, <1>6, <1>7 DEF Next, JobStep

LEMMA AmbiguousStays ==
    ASSUME TypeOK, TypeOK', MadeOK, Grows, NEW p \in Payment, Ambiguous(p)
    PROVE  Ambiguous(p)'
<1>1. ASSUME NEW q \in Payment
      PROVE  /\ {q} \X (1..copies[q]) \subseteq {q} \X (1..copies'[q])
             /\ {q} \X (1..copies[q]) # {} => told'[q] = told[q]
  <2>1. copies[q] \in Nat /\ copies'[q] \in Nat /\ copies'[q] >= copies[q]
    BY BoundsAssumption DEF TypeOK, Grows
  <2>2. 1..copies[q] \subseteq 1..copies'[q]
    BY <2>1
  <2>3. {q} \X (1..copies[q]) # {} => copies[q] > 0
    BY <2>1
  <2> QED BY <2>2, <2>3 DEF MadeOK, Grows
<1>2. ASSUME NEW S, NEW T, S \subseteq T, IsFiniteSet(T), Cardinality(S) > 1
      PROVE  Cardinality(T) > 1
  <2>1. IsFiniteSet(S) /\ Cardinality(S) <= Cardinality(T)
    BY <1>2, FS_Subset
  <2> QED BY <1>2, <2>1, FS_CardinalityType
<1>3. Cardinality(RowsById(p)) > 1 \/ Cardinality(RowsByRef(p)) > 1
  BY DEF Ambiguous
<1>4. RowsById(p) \subseteq RowsById(p)'
  BY <1>1 DEF RowsById
<1>5. RowsByRef(p) \subseteq RowsByRef(p)'
  BY <1>1 DEF RowsByRef
<1>6. IsFiniteSet(RowsById(p)') /\ IsFiniteSet(RowsByRef(p)')
  <2>1. IsFiniteSet(Payment \X (0..MaxCopies))
    <3>1. IsFiniteSet(0..MaxCopies)
      BY BoundsAssumption, FS_Interval
    <3> QED BY <3>1, FinitePayments, FS_Product
  <2>2. \A q \in Payment : 1..copies'[q] \subseteq 0..MaxCopies
    <3>1. \A q \in Payment : copies'[q] \in 0..MaxCopies
      BY DEF TypeOK
    <3> QED BY <3>1, BoundsAssumption
  <2>3. RowsById(p)' \subseteq Payment \X (0..MaxCopies)
    BY <2>2 DEF RowsById
  <2>4. RowsByRef(p)' \subseteq Payment \X (0..MaxCopies)
    BY <2>2 DEF RowsByRef
  <2> QED BY <2>1, <2>3, <2>4, FS_Subset
<1>7. Cardinality(RowsById(p)') > 1 \/ Cardinality(RowsByRef(p)') > 1
  BY <1>2, <1>3, <1>4, <1>5, <1>6
<1> QED BY <1>7 DEF Ambiguous

\* What is true of a payment that was made stays true of it.
LEMMA FactsStay ==
    ASSUME TypeOK, TypeOK', MadeOK, Grows, NEW p \in Payment
    PROVE  /\ \A d : InWindow(p, d) => made'[p] # None /\ made'[p] <= d /\ d <= made'[p] + 1
           /\ \A q \in Payment : made[p] # None /\ IsRowFor(q, p) =>
                 /\ copies'[q] > 0
                 /\ q = p \/ ("ref" \in listed'[p] \intersect told'[q] /\ RefOf[q] = RefOf[p])
<1>1. \A d : InWindow(p, d) => made'[p] # None /\ made'[p] <= d /\ d <= made'[p] + 1
  BY DEF InWindow, Grows
<1>2. ASSUME NEW q \in Payment, made[p] # None, IsRowFor(q, p)
      PROVE  /\ copies'[q] > 0
             /\ q = p \/ ("ref" \in listed'[p] \intersect told'[q] /\ RefOf[q] = RefOf[p])
  <2>1. copies[q] > 0 /\ copies[q] \in Nat /\ copies'[q] >= copies[q]
    BY <1>2, BoundsAssumption DEF TypeOK, IsRowFor, Grows
  <2>2. made[q] # None
    BY <2>1 DEF MadeOK
  <2>3. copies'[q] > 0
    <3>1. copies'[q] \in Nat
      BY BoundsAssumption DEF TypeOK
    <3> QED BY <2>1, <3>1
  <2>4. listed'[p] = listed[p] /\ told'[q] = told[q]
    BY <1>2, <2>2 DEF Grows
  <2> QED BY <1>2, <2>1, <2>3, <2>4 DEF IsRowFor
<1> QED BY <1>1, <1>2

-----------------------------------------------------------------------------
(***************************************************************************)
(* The parts of the invariant.                                             *)
(***************************************************************************)

LEMMA MadeStep == TypeOK /\ MadeOK /\ JobOK /\ [Next]_vars => MadeOK'
<1> SUFFICES ASSUME TypeOK, MadeOK, JobOK, [Next]_vars PROVE MadeOK'
  OBVIOUS
<1>0. Grows /\ TypeOK'
  BY NextGrows, TypeStep
<1>1. ASSUME NEW p \in Payment, NEW keys \in KeysOf[p], Pay(p, keys) PROVE MadeOK'
  BY <1>1, NoPaymentAssumption DEF Pay, MadeOK, TypeOK, Day
<1>2. ASSUME NEW p \in Payment, RecordPayment(p) PROVE MadeOK'
  BY <1>2 DEF RecordPayment, nomba, MadeOK, TypeOK
<1>3. CASE UNCHANGED <<made, copies>>
  <2>1. \A p \in Payment : made[p] # None => made[p] \in Nat
    BY BoundsAssumption DEF TypeOK, Day
  <2>2. day \in Nat /\ day' \in {day, day + 1}
    BY <1>0, BoundsAssumption DEF TypeOK, Day, Grows
  <2> QED BY <1>3, <2>1, <2>2 DEF MadeOK
<1> QED BY <1>1, <1>2, <1>3
    DEF Next, JobStep, vars, nomba, Midnight, Trigger, MissTrigger, RunFails,
        ListTransactions, ListNothing, LookUpByRef, WriteMatch, CompleteRun, SkipItem, LookUpById

\* A step of the comparison takes payment p from the list and has it found,
\* still to be looked up by reference, or reported; or the run ends because a
\* key is ambiguous.
Taken(p) ==
    /\ \/ job.pc = "next" /\ p \in job.items
       \/ job.pc = "ref" /\ p = job.item
    /\ UNCHANGED <<day, early, made, listed, told, copies, completed, matches, spoilt>>
    /\ \/ job' = NoJob /\ Ambiguous(p)
       \/ /\ job'.items = job.items \ {p} /\ job'.item = p /\ job'.today = job.today
          /\ \/ job'.pc = "write" /\ job'.found \in Payment /\ IsRowFor(job'.found, p)
             \/ job'.pc = "ref"
             \/ job'.pc = "next" /\ p \in reported'

LEMMA TakeFields ==
    ASSUME TypeOK, NEW p \in Payment, NEW pc, NEW q,
           job' = [job EXCEPT !.pc = pc, !.items = @ \ {p}, !.item = p, !.found = q]
    PROVE  /\ job'.pc = pc /\ job'.items = job.items \ {p} /\ job'.item = p
           /\ job'.found = q /\ job'.today = job.today
BY DEF TypeOK

LEMMA LookUpTakes ==
    ASSUME TypeOK, JobOK, LookUpByRef \/ \E p \in Payment : LookUpById(p)
    PROVE  \E p \in Payment : Taken(p)
<1>0. Cardinality({}) = 0
  BY FS_EmptySet
<1>1. ASSUME NEW p \in Payment, LookUpById(p) PROVE Taken(p)
  <2> DEFINE rows == IF "id" \in listed[p] THEN RowsById(p) ELSE {}
  <2>1. /\ job.pc = "next" /\ p \in job.items /\ GetOrNone(rows, p, "ref")
        /\ UNCHANGED <<day, early, made, listed, told, copies, completed, matches, spoilt>>
    BY <1>1 DEF LookUpById, nomba
  <2>2. Cardinality(rows) > 1 => Ambiguous(p)
    <3>1. "id" \notin listed[p] => Cardinality(rows) = 0
      BY <1>0
    <3>2. "id" \in listed[p] => rows = RowsById(p)
      OBVIOUS
    <3> HIDE DEF rows
    <3> QED BY <3>1, <3>2 DEF Ambiguous
  <2>3. rows \subseteq RowsById(p) \union (IF "ref" \in listed[p] THEN RowsByRef(p) ELSE {})
    OBVIOUS
  <2> HIDE DEF rows
  <2>4. \/ job' = NoJob /\ Ambiguous(p)
        \/ \E pc \in {"write", "ref"}, q \in Payment \union {None} :
              /\ pc = "write" => q \in Payment /\ IsRowFor(q, p)
              /\ job' = [job EXCEPT !.pc = pc, !.items = @ \ {p}, !.item = p, !.found = q]
    BY <2>1, <2>2, <2>3, LookUpEffect
  <2>5. CASE job' = NoJob /\ Ambiguous(p)
    BY <2>1, <2>5 DEF Taken
  <2>6. ASSUME NEW pc \in {"write", "ref"}, NEW q \in Payment \union {None},
               pc = "write" => q \in Payment /\ IsRowFor(q, p),
               job' = [job EXCEPT !.pc = pc, !.items = @ \ {p}, !.item = p, !.found = q]
        PROVE  Taken(p)
    <3>1. /\ job'.pc = pc /\ job'.items = job.items \ {p} /\ job'.item = p
          /\ job'.found = q /\ job'.today = job.today
      BY <2>1, <2>6, TakeFields
    <3> QED BY <2>1, <2>6, <3>1 DEF Taken
  <2> QED BY <2>1, <2>4, <2>5, <2>6
<1>2. CASE LookUpByRef
  <2> DEFINE p == job.item
             rows == IF "ref" \in listed[p] THEN RowsByRef(p) ELSE {}
  <2>1. /\ job.pc = "ref" /\ p \in Payment /\ GetOrNone(rows, p, "next")
        /\ UNCHANGED <<day, early, made, listed, told, copies, completed, matches, spoilt>>
        /\ rows = {} => p \in reported'
    BY <1>2 DEF LookUpByRef, nomba, JobOK
  <2>2. Cardinality(rows) > 1 => Ambiguous(p)
    <3>1. "ref" \notin listed[p] => Cardinality(rows) = 0
      BY <1>0
    <3>2. "ref" \in listed[p] => rows = RowsByRef(p)
      OBVIOUS
    <3> HIDE DEF rows
    <3> QED BY <2>1, <3>1, <3>2 DEF Ambiguous
  <2>3. rows \subseteq RowsById(p) \union (IF "ref" \in listed[p] THEN RowsByRef(p) ELSE {})
    OBVIOUS
  <2> HIDE DEF rows
  <2>4. \/ job' = NoJob /\ Ambiguous(p)
        \/ \E pc \in {"write", "next"}, q \in Payment \union {None} :
              /\ pc = "write" => q \in Payment /\ IsRowFor(q, p)
              /\ pc = "next" => p \in reported'
              /\ job' = [job EXCEPT !.pc = pc, !.items = @ \ {p}, !.item = p, !.found = q]
    BY <2>1, <2>2, <2>3, LookUpEffect
  <2>5. CASE job' = NoJob /\ Ambiguous(p)
    BY <2>1, <2>5 DEF Taken
  <2>6. ASSUME NEW pc \in {"write", "next"}, NEW q \in Payment \union {None},
               pc = "write" => q \in Payment /\ IsRowFor(q, p),
               pc = "next" => p \in reported',
               job' = [job EXCEPT !.pc = pc, !.items = @ \ {p}, !.item = p, !.found = q]
        PROVE  Taken(p)
    <3>1. /\ job'.pc = pc /\ job'.items = job.items \ {p} /\ job'.item = p
          /\ job'.found = q /\ job'.today = job.today
      BY <2>1, <2>6, TakeFields
    <3> QED BY <2>1, <2>6, <3>1 DEF Taken
  <2> QED BY <2>1, <2>4, <2>5, <2>6
<1> QED BY <1>1, <1>2

\* The audit entry a step writes.
LEMMA WriteEffect ==
    ASSUME TypeOK, JobOK, WriteMatch
    PROVE  /\ job.item \in Payment /\ job.found \in Payment
           /\ UNCHANGED <<day, early, made, listed, told, copies, completed, reported, spoilt>>
           /\ job'.pc = "next" /\ job'.items = job.items /\ job'.today = job.today
           /\ \A p \in Payment : p # job.item => matches'[p] = matches[p]
           /\ \A i \in DOMAIN matches'[job.item] :
                 \/ i \in DOMAIN matches[job.item] /\ matches'[job.item][i] = matches[job.item][i]
                 \/ /\ i = Len(matches[job.item]) + 1
                    /\ matches'[job.item][i].day = job.today
                    /\ matches'[job.item][i].row = job.found
           /\ matches'[job.item] # <<>>
<1> DEFINE m == job.item
           entry == [day |-> job.today, row |-> job.found]
           Entry == [day: Day, row: Payment]
<1>1. /\ job.item \in Payment /\ job.found \in Payment
      /\ UNCHANGED <<day, early, made, listed, told, copies, completed, reported, spoilt>>
      /\ job'.pc = "next" /\ job'.items = job.items /\ job'.today = job.today
  BY DEF WriteMatch, JobOK, TypeOK, nomba
<1>2. /\ matches \in [Payment -> Seq(Entry)] /\ entry \in Entry
      /\ matches' = [matches EXCEPT ![m] = Append(@, entry)]
  BY <1>1 DEF WriteMatch, TypeOK
<1>3. entry.day = job.today /\ entry.row = job.found
  OBVIOUS
<1> HIDE DEF entry, Entry
<1>4. matches'[m] = Append(matches[m], entry) /\ matches[m] \in Seq(Entry)
  BY <1>1, <1>2
<1>5. /\ Len(matches'[m]) = Len(matches[m]) + 1 /\ Len(matches[m]) \in Nat
      /\ DOMAIN matches'[m] = 1..(Len(matches[m]) + 1)
      /\ DOMAIN matches[m] = 1..Len(matches[m])
      /\ \A i \in 1..Len(matches[m]) : matches'[m][i] = matches[m][i]
      /\ matches'[m][Len(matches[m]) + 1] = entry
  BY <1>2, <1>4
<1>6. matches'[m] # <<>>
  <2>1. Len(matches'[m]) # 0
    BY <1>5
  <2>2. Len(<<>>) = 0
    OBVIOUS
  <2> QED BY <2>1, <2>2, Zenon
<1>7. ASSUME NEW i \in DOMAIN matches'[m], i \notin DOMAIN matches[m]
      PROVE  i = Len(matches[m]) + 1
  BY <1>5, <1>7
<1> QED BY <1>1, <1>2, <1>3, <1>5, <1>6, <1>7

LEMMA MatchStep ==
    ASSUME TypeOK, MadeOK, JobOK, MatchOK, OncePerRun, [Next]_vars
    PROVE  MatchOK' /\ OncePerRun'
<1>0. Grows /\ TypeOK'
  BY NextGrows, TypeStep
<1>1. ASSUME NEW p \in Payment, NEW d, NEW q \in Payment,
             InWindow(p, d), d <= day, d \in Nat, IsRowFor(q, p)
      PROVE  /\ made'[p] # None /\ made'[p] <= d /\ d <= made'[p] + 1
             /\ d <= day'
             /\ copies'[q] > 0
             /\ q = p \/ ("ref" \in listed'[p] \intersect told'[q] /\ RefOf[q] = RefOf[p])
  <2>1. d <= day'
    BY <1>0, <1>1, BoundsAssumption DEF TypeOK, Day, Grows
  <2> QED BY <1>0, <1>1, <2>1, FactsStay DEF InWindow
<1>2. ASSUME NEW p \in Payment, NEW i \in DOMAIN matches[p]
      PROVE  /\ matches[p][i].day \in Nat /\ matches[p][i].row \in Payment
             /\ InWindow(p, matches[p][i].day)
             /\ matches[p][i].day <= day
             /\ IsRowFor(matches[p][i].row, p)
  <2> DEFINE Entry == [day: Day, row: Payment]
  <2>0. matches \in [Payment -> Seq(Entry)]
    BY DEF TypeOK
  <2> HIDE DEF Entry
  <2>1. matches[p][i] \in Entry
    BY <2>0
  <2> USE DEF Entry
  <2> QED BY <1>2, <2>1, BoundsAssumption DEF Day, MatchOK
<1>3. CASE matches' = matches
  BY <1>1, <1>2, <1>3 DEF MatchOK, OncePerRun, InWindow, IsRowFor
<1>4. CASE WriteMatch
  <2> DEFINE m == job.item
  <2>1. /\ InWindow(m, job.today) /\ job.today <= day /\ job.today \in Nat
        /\ IsRowFor(job.found, m) /\ ~MatchedOn(m, job.today)
    BY <1>4, BoundsAssumption DEF WriteMatch, JobOK, TypeOK, Day
  <2>2. MatchOK'
    <3> SUFFICES ASSUME NEW p \in Payment, NEW i \in DOMAIN matches'[p]
                 PROVE  /\ made'[p] # None /\ made'[p] <= matches'[p][i].day
                        /\ matches'[p][i].day <= made'[p] + 1
                        /\ matches'[p][i].day <= day'
                        /\ copies'[matches'[p][i].row] > 0
                        /\ \/ matches'[p][i].row = p
                           \/ /\ "ref" \in listed'[p] \intersect told'[matches'[p][i].row]
                              /\ RefOf[matches'[p][i].row] = RefOf[p]
      BY DEF MatchOK, InWindow, IsRowFor
    <3>1. CASE i \in DOMAIN matches[p] /\ matches'[p][i] = matches[p][i]
      BY <1>1, <1>2, <3>1
    <3>2. CASE p = m /\ matches'[p][i].day = job.today /\ matches'[p][i].row = job.found
      BY <1>1, <1>4, <2>1, <3>2, WriteEffect
    <3> QED BY <1>4, <3>1, <3>2, WriteEffect
  <2>3. OncePerRun'
    <3> SUFFICES ASSUME NEW p \in Payment, NEW i \in DOMAIN matches'[p],
                        NEW j \in DOMAIN matches'[p],
                        matches'[p][i].day = matches'[p][j].day
                 PROVE  i = j
      BY DEF OncePerRun
    <3>1. CASE p # m
      BY <1>4, <3>1, WriteEffect DEF OncePerRun
    <3>2. CASE p = m
      <4>1. \A k \in DOMAIN matches[p] : matches[p][k].day # job.today
        BY <2>1, <3>2 DEF MatchedOn
      <4> QED BY <1>4, <3>2, <4>1, WriteEffect DEF OncePerRun
    <3> QED BY <3>1, <3>2
  <2> QED BY <2>2, <2>3
<1> QED BY <1>3, <1>4
    DEF Next, JobStep, vars, nomba, Pay, RecordPayment, Midnight, Trigger, MissTrigger,
        RunFails, ListTransactions, ListNothing, LookUpByRef, CompleteRun, SkipItem, LookUpById

\* Steps that neither move the run nor the clock.
LEMMA JobStands ==
    ASSUME TypeOK, TypeOK', MadeOK, JobOK, Fresh, Grows,
           UNCHANGED <<job, matches, day, early>>
    PROVE  JobOK' /\ Fresh'
<1>1. \A p \in Payment : InWindow(p, job.today) =>
          made'[p] # None /\ made'[p] <= job.today /\ job.today <= made'[p] + 1
  BY FactsStay
<1>2. \A p, q \in Payment : InWindow(p, job.today) /\ IsRowFor(q, p) =>
          /\ copies'[q] > 0
          /\ q = p \/ ("ref" \in listed'[p] \intersect told'[q] /\ RefOf[q] = RefOf[p])
  BY FactsStay DEF InWindow
<1>3. \A p \in job.items : p \in Payment
  BY DEF TypeOK
<1>4. JobOK'
  BY <1>1, <1>2, <1>3 DEF JobOK, InWindow, MatchedOn, IsRowFor
<1> QED BY <1>4 DEF Fresh, MatchedOn

LEMMA JobSteps ==
    ASSUME TypeOK, MadeOK, JobOK, Fresh, MatchOK, OncePerRun, [Next]_vars
    PROVE  JobOK' /\ Fresh'
<1>0. Grows /\ TypeOK'
  BY NextGrows, TypeStep
<1>1. CASE UNCHANGED <<job, matches, day, early>>
  BY <1>0, <1>1, JobStands
<1>2. ASSUME job' = NoJob, UNCHANGED <<matches, day>>, early' => early
      PROVE  JobOK' /\ Fresh'
  BY <1>2 DEF NoJob, JobOK, Fresh, MatchedOn
<1>3. CASE Midnight
  <2>1. day' = day + 1 /\ matches' = matches /\ job' = job /\ job.pc = "idle" /\ day \in Nat
    BY <1>3, BoundsAssumption DEF Midnight, TypeOK, Day
  <2>2. ASSUME NEW p \in Payment, NEW i \in DOMAIN matches[p] PROVE matches[p][i].day # day + 1
    <3> DEFINE Entry == [day: Day, row: Payment]
    <3>1. matches \in [Payment -> Seq(Entry)]
      BY DEF TypeOK
    <3> HIDE DEF Entry
    <3>2. matches[p][i] \in Entry
      BY <2>2, <3>1
    <3> USE DEF Entry
    <3>3. matches[p][i].day \in Nat /\ matches[p][i].day <= day
      BY <2>2, <3>2, BoundsAssumption DEF Day, MatchOK
    <3> QED BY <2>1, <3>3
  <2> QED BY <2>1, <2>2 DEF JobOK, Fresh, MatchedOn
<1>4. CASE Trigger
  <2>1. job'.pc = "list" /\ job'.today = day /\ job'.items = {} /\ ~early'
    BY <1>4 DEF Trigger, NoJob
  <2> QED BY <1>4, <2>1 DEF Trigger, JobOK, Fresh, MatchedOn
<1>5. CASE MissTrigger
  <2>1. job.pc = "idle"
    BY <1>5 DEF MissTrigger, JobOK
  <2> QED BY <1>5, <2>1 DEF MissTrigger, JobOK, Fresh, MatchedOn
<1>6. CASE ListTransactions
  <2>1. PICK items \in SUBSET Window(job.today) :
           job' = [job EXCEPT !.pc = "next", !.items = items]
    BY <1>6 DEF ListTransactions
  <2>2. job'.pc = "next" /\ job'.items = items /\ job'.today = job.today
    BY <2>1 DEF TypeOK
  <2>3. ASSUME NEW p \in items PROVE p \in Payment /\ InWindow(p, job.today)
    BY BoundsAssumption DEF Window, InWindow, TypeOK, Day
  <2>4. /\ UNCHANGED <<day, early, made, matches>>
        /\ job.pc = "list" /\ job.today = day /\ ~early
    BY <1>6 DEF ListTransactions, nomba, JobOK
  <2>5. \A p \in Payment : ~MatchedOn(p, day)
    BY <2>4 DEF Fresh
  <2> QED BY <2>2, <2>3, <2>4, <2>5 DEF JobOK, Fresh, InWindow, MatchedOn
<1>7. CASE RunFails \/ CompleteRun
  BY <1>2, <1>7 DEF RunFails, CompleteRun
<1>12. CASE ListNothing
  <2>1. /\ job.pc = "list" /\ job.items = {} /\ job.today = day /\ ~early
        /\ UNCHANGED <<day, early, made, matches>>
    BY <1>12 DEF ListNothing, nomba, JobOK
  <2>2. job'.pc = "next" /\ job'.items = job.items /\ job'.today = job.today
    BY <1>12 DEF ListNothing, TypeOK
  <2> QED BY <2>1, <2>2 DEF JobOK, Fresh, InWindow, MatchedOn
<1>8. ASSUME NEW p \in Payment, SkipItem(p) PROVE JobOK' /\ Fresh'
  <2>1. /\ job'.pc = "next" /\ job'.items = job.items \ {p} /\ job'.today = job.today
        /\ job.pc = "next" /\ UNCHANGED <<day, early, made, matches>>
    BY <1>8 DEF SkipItem, nomba, TypeOK
  <2> QED BY <2>1 DEF JobOK, Fresh, InWindow, MatchedOn
<1>9. ASSUME NEW p \in Payment, Taken(p) PROVE JobOK' /\ Fresh'
  <2>1. CASE job' = NoJob
    BY <1>2, <1>9, <2>1 DEF Taken
  <2>2. CASE job' # NoJob
    <3>1. /\ job'.items = job.items \ {p} /\ job'.item = p /\ job'.today = job.today
          /\ job'.pc \in {"write", "ref", "next"}
          /\ job'.pc = "write" => job'.found \in Payment /\ IsRowFor(job'.found, p)
          /\ UNCHANGED <<day, early, made, listed, told, copies, matches>>
      BY <1>9, <2>2 DEF Taken
    <3>2. /\ job.pc \in {"next", "ref"} /\ job.today = day /\ ~early
          /\ InWindow(p, job.today) /\ ~MatchedOn(p, job.today)
      BY <1>9 DEF Taken, JobOK
    <3> QED BY <3>1, <3>2 DEF JobOK, Fresh, InWindow, MatchedOn, IsRowFor
  <2> QED BY <2>1, <2>2
<1>10. CASE WriteMatch
  <2>1. job.pc = "write" /\ job.item \notin job.items /\ job.today = day /\ ~early
    BY <1>10 DEF WriteMatch, JobOK
  <2>2. /\ UNCHANGED <<day, early, made>>
        /\ job'.pc = "next" /\ job'.items = job.items /\ job'.today = job.today
        /\ \A p \in Payment : p # job.item => matches'[p] = matches[p]
    BY <1>10, WriteEffect
  <2>3. \A p \in job.items : p \in Payment /\ matches'[p] = matches[p]
    BY <2>1, <2>2 DEF TypeOK
  <2> QED BY <2>1, <2>2, <2>3 DEF JobOK, Fresh, InWindow, MatchedOn
<1>11. LookUpByRef \/ (\E p \in Payment : LookUpById(p)) => JobOK' /\ Fresh'
  BY <1>9, LookUpTakes
<1> QED BY <1>1, <1>3, <1>4, <1>5, <1>6, <1>7, <1>8, <1>10, <1>11, <1>12
    DEF Next, JobStep, vars, nomba, Pay, RecordPayment

\* Nothing becomes due for a run of today or before: what is made now is for
\* tomorrow.
LEMMA DueBefore ==
    ASSUME TypeOK, JobOK, [Next]_vars, NEW p \in Payment, NEW d \in Day, d <= day,
           made'[p] # None, made'[p] + 1 = d
    PROVE  made[p] # None /\ made[p] + 1 = d
<1>0. Grows
  BY NextGrows
<1>1. made[p] = None => made'[p] \in {None, day}
  <2>1. ASSUME NEW q \in Payment, NEW keys \in KeysOf[q], Pay(q, keys)
        PROVE  made[p] = None => made'[p] \in {None, day}
    BY <2>1 DEF Pay, TypeOK
  <2>2. UNCHANGED made \/ \E q \in Payment : \E keys \in KeysOf[q] : Pay(q, keys)
    BY DEF Next, JobStep, vars, nomba, RecordPayment, Midnight, Trigger, MissTrigger,
           RunFails, ListTransactions, ListNothing, LookUpByRef, WriteMatch, CompleteRun,
           SkipItem, LookUpById
  <2> QED BY <2>1, <2>2
<1>2. d \in Nat /\ day \in Nat
  BY BoundsAssumption DEF TypeOK, Day
<1>3. made'[p] # day
  BY <1>2
<1> QED BY <1>0, <1>1, <1>3 DEF Grows

\* What is dealt with stays so.
LEMMA DealtStays ==
    ASSUME TypeOK, TypeOK', MadeOK, Grows, NEW p \in Payment, NEW d, InWindow(p, d)
    PROVE  /\ InWindow(p, d)'
           /\ listed[p] = {} \/ AccountedFor(p) => (listed[p] = {} \/ AccountedFor(p))'
<1>1. InWindow(p, d)'
  BY FactsStay DEF InWindow
<1>2. listed'[p] = listed[p]
  BY DEF InWindow, Grows
<1>3. AccountedFor(p) => AccountedFor(p)'
  BY DEF Grows, AccountedFor
<1> QED BY <1>1, <1>2, <1>3

\* A finite set is at least as large as its part.
LEMMA LargeEnough ==
    ASSUME NEW S, NEW T \in SUBSET Payment, S \subseteq T, Cardinality(S) >= Limit
    PROVE  Cardinality(T) >= Limit
<1>1. IsFiniteSet(T)
  BY FinitePayments, FS_Subset
<1>2. IsFiniteSet(S) /\ Cardinality(S) <= Cardinality(T)
  BY <1>1, FS_Subset
<1>3. Cardinality(S) \in Nat /\ Cardinality(T) \in Nat
  BY <1>1, <1>2, FS_CardinalityType
<1> QED BY <1>2, <1>3, BoundsAssumption

LEMMA CoveredStays ==
    ASSUME TypeOK, MadeOK, JobOK, [Next]_vars, NEW d \in Day, d <= day, Covered(d)
    PROVE  Covered(d)'
<1>0. Grows /\ TypeOK'
  BY NextGrows, TypeStep
<1>1. Dealt(d) \subseteq Dealt(d)'
  BY <1>0, DealtStays DEF Dealt
<1>2. CASE \A p \in Payment : made[p] # None /\ made[p] + 1 = d => p \in Dealt(d)
  BY <1>1, <1>2, DueBefore DEF Covered
<1>3. CASE Cardinality(Dealt(d)) >= Limit
  <2>1. Dealt(d)' \in SUBSET Payment
    BY DEF Dealt
  <2>2. Cardinality(Dealt(d)') >= Limit
    BY <1>1, <1>3, <2>1, LargeEnough
  <2> QED BY <2>2 DEF Covered
<1> QED BY <1>2, <1>3 DEF Covered

\* A step of a run that lets go of nothing it has not dealt with.
LEMMA KeepsAll ==
    ASSUME TypeOK, MadeOK, JobOK, RunDue, [Next]_vars,
           job.pc \in {"next", "ref", "write"}, job'.today = job.today,
           \A p \in Payment :
               p \in job.items \/ (job.pc \in {"ref", "write"} /\ p = job.item) => InHand(p)'
    PROVE  RunDue'
<1>0. Grows /\ TypeOK'
  BY NextGrows, TypeStep
<1>1. job.today \in Day /\ job.today <= day
  BY BoundsAssumption DEF JobOK, TypeOK, Day
<1>2. SUFFICES ASSUME job'.today \notin spoilt'
               PROVE  \/ \A p \in Payment : made'[p] # None /\ made'[p] + 1 = job.today => p \in Kept'
                      \/ Cardinality(Kept') >= Limit
  BY DEF RunDue
<1>3. job.today \notin spoilt
  BY <1>0, <1>2 DEF Grows
<1>4. Kept \subseteq Kept'
  <2> SUFFICES ASSUME NEW p \in Payment, InWindow(p, job.today), InHand(p)
               PROVE  InWindow(p, job.today)' /\ InHand(p)'
    BY DEF Kept
  <2>1. InWindow(p, job.today)'
    <3>1. made'[p] # None /\ made'[p] <= job.today /\ job.today <= made'[p] + 1
      BY <1>0, FactsStay
    <3> QED BY <3>1 DEF InWindow
  <2>2. listed[p] = {} \/ AccountedFor(p) => (listed[p] = {} \/ AccountedFor(p))'
    BY <1>0, DealtStays
  <2>3. ASSUME listed[p] = {} \/ AccountedFor(p) PROVE InHand(p)'
    BY <2>2, <2>3 DEF InHand
  <2>4. ASSUME p \in job.items \/ (job.pc \in {"ref", "write"} /\ p = job.item)
        PROVE  InHand(p)'
    BY <2>4
  <2> QED BY <2>1, <2>3, <2>4 DEF InHand
<1>5. CASE \A p \in Payment : made[p] # None /\ made[p] + 1 = job.today => p \in Kept
  BY <1>1, <1>4, <1>5, DueBefore
<1>6. CASE Cardinality(Kept) >= Limit
  <2>1. Kept' \in SUBSET Payment
    BY DEF Kept
  <2> QED BY <1>4, <1>6, <2>1, LargeEnough
<1> QED BY <1>3, <1>5, <1>6 DEF RunDue

\* The list holds the window, or as much of it as a list can.
LEMMA ListIsDue ==
    ASSUME TypeOK, ListTransactions
    PROVE  RunDue'
<1>1. PICK items \in SUBSET Window(job.today) :
         /\ items = Window(job.today) \/ Cardinality(items) = Limit
         /\ job' = [job EXCEPT !.pc = "next", !.items = items]
  BY DEF ListTransactions
<1>2. /\ job'.items = items /\ job'.today = job.today
      /\ job.today \in Nat /\ made' = made
  <2>1. job'.items = items /\ job'.today = job.today
    BY <1>1 DEF TypeOK
  <2>2. job.today \in Nat
    BY BoundsAssumption DEF TypeOK, Day
  <2> QED BY <2>1, <2>2 DEF ListTransactions, nomba
<1>3. \A p \in Payment : made[p] # None => made[p] \in Nat
  BY BoundsAssumption DEF TypeOK, Day
<1>4. items \subseteq Kept'
  BY <1>2, <1>3 DEF Window, Kept, InWindow, InHand
<1>5. CASE items = Window(job.today)
  <2>1. ASSUME NEW p \in Payment, made[p] # None, made[p] + 1 = job.today PROVE p \in items
    BY <1>2, <1>3, <1>5, <2>1 DEF Window
  <2> QED BY <1>2, <1>4, <2>1 DEF RunDue
<1>6. CASE Cardinality(items) = Limit
  <2>1. Kept' \in SUBSET Payment
    BY DEF Kept
  <2>2. Cardinality(Kept') >= Limit
    BY <1>4, <1>6, <2>1, LargeEnough, BoundsAssumption
  <2> QED BY <2>2 DEF RunDue
<1> QED BY <1>1, <1>5, <1>6

LEMMA RunDueSteps ==
    ASSUME TypeOK, MadeOK, JobOK, RunDue, [Next]_vars
    PROVE  RunDue'
<1>1. CASE UNCHANGED job
  <2>1. ASSUME NEW p \in Payment,
               p \in job.items \/ (job.pc \in {"ref", "write"} /\ p = job.item)
        PROVE  InHand(p)'
    BY <1>1, <2>1 DEF InHand
  <2>2. CASE job.pc \in {"next", "ref", "write"}
    BY <1>1, <2>1, <2>2, KeepsAll
  <2>3. CASE job.pc \notin {"next", "ref", "write"}
    BY <1>1, <2>3 DEF RunDue
  <2> QED BY <2>2, <2>3
<1>2. CASE job'.pc \in {"idle", "list"}
  BY <1>2 DEF RunDue
<1>3. CASE job'.today \in spoilt'
  BY <1>3 DEF RunDue
<1>4. ASSUME NEW p \in Payment, SkipItem(p) PROVE RunDue'
  <2>1. /\ job'.items = job.items \ {p} /\ job'.today = job.today
        /\ job.pc = "next" /\ listed[p] = {} /\ listed' = listed
    BY <1>4 DEF SkipItem, nomba, TypeOK
  <2>2. \A q \in Payment : q \in job.items => InHand(q)'
    BY <2>1 DEF InHand
  <2> QED BY <2>1, <2>2, KeepsAll
<1>5. ASSUME NEW p \in Payment, Taken(p) PROVE RunDue'
  <2>1. CASE job' = NoJob
    BY <1>2, <2>1 DEF NoJob
  <2>2. CASE job' # NoJob
    <3>1. /\ job'.items = job.items \ {p} /\ job'.item = p /\ job'.today = job.today
          /\ job'.pc \in {"write", "ref"} \/ p \in reported'
          /\ job.pc \in {"next", "ref"} /\ (job.pc = "ref" => p = job.item)
      BY <1>5, <2>2 DEF Taken
    <3>2. InHand(p)'
      BY <3>1 DEF InHand, AccountedFor
    <3>3. \A q \in Payment : q \in job.items /\ q # p => InHand(q)'
      BY <3>1 DEF InHand
    <3> QED BY <3>1, <3>2, <3>3, KeepsAll
  <2> QED BY <2>1, <2>2
<1>6. CASE WriteMatch
  <2>1. /\ job.pc = "write" /\ job'.items = job.items /\ job'.today = job.today
        /\ matches'[job.item] # <<>>
    BY <1>6, WriteEffect DEF WriteMatch
  <2>2. \A q \in Payment : q = job.item => InHand(q)'
    <3>1. \A q \in Payment : matches'[q] # <<>> => InHand(q)'
      BY DEF InHand, AccountedFor
    <3> QED BY <2>1, <3>1
  <2>3. \A q \in Payment : q \in job.items => InHand(q)'
    BY <2>1 DEF InHand
  <2> QED BY <2>1, <2>2, <2>3, KeepsAll
<1>7. LookUpByRef \/ (\E p \in Payment : LookUpById(p)) => RunDue'
  BY <1>5, LookUpTakes
<1>8. Trigger \/ RunFails \/ CompleteRun => RunDue'
  <2>1. Trigger => job'.pc = "list"
    BY DEF Trigger, NoJob
  <2>2. RunFails \/ CompleteRun => job'.pc = "idle"
    BY DEF RunFails, CompleteRun, NoJob
  <2> QED BY <1>2, <2>1, <2>2
<1>9. ListNothing => RunDue'
  BY <1>3 DEF ListNothing, TypeOK
<1>10. ListTransactions => RunDue'
  BY ListIsDue
<1> QED BY <1>1, <1>4, <1>6, <1>7, <1>8, <1>9, <1>10
    DEF Next, JobStep, vars, nomba, Pay, RecordPayment, Midnight, MissTrigger

LEMMA CompleteSteps ==
    ASSUME TypeOK, MadeOK, JobOK, RunDue, CompleteRunAccounts,
           \A d \in completed : d <= day, [Next]_vars
    PROVE  CompleteRunAccounts' /\ \A d \in completed' : d <= day'
<1>0. Grows /\ TypeOK'
  BY NextGrows, TypeStep
<1>1. CASE completed' = completed
  <2>1. ASSUME NEW d \in completed PROVE d \in Day /\ d <= day /\ d <= day'
    BY <1>0, <2>1, BoundsAssumption DEF TypeOK, Day, Grows
  <2>2. ASSUME NEW d \in completed, d \notin spoilt' PROVE Covered(d)'
    <3>1. Covered(d)
      BY <1>0, <2>2 DEF CompleteRunAccounts, Grows
    <3> QED BY <2>1, <3>1, CoveredStays
  <2> QED BY <1>1, <2>1, <2>2 DEF CompleteRunAccounts
<1>2. CASE CompleteRun
  <2>1. /\ job.pc = "next" /\ job.items = {} /\ job.today = day /\ day' = day
        /\ completed' = completed \union {day} /\ spoilt' = spoilt
        /\ day \in Nat /\ day \in Day
    BY <1>2, BoundsAssumption DEF CompleteRun, JobOK, TypeOK, Day
  <2>2. ASSUME NEW d \in completed' PROVE d \in Day /\ d <= day
    BY <1>0, <2>1, <2>2, BoundsAssumption DEF TypeOK
  <2>3. Kept = Dealt(day)
    BY <2>1 DEF Kept, Dealt, InHand
  <2>4. day \notin spoilt => Covered(day)
    BY <2>1, <2>3 DEF RunDue, Covered
  <2>5. ASSUME NEW d \in completed', d \notin spoilt' PROVE Covered(d)'
    <3>1. Covered(d)
      BY <2>1, <2>4, <2>5 DEF CompleteRunAccounts
    <3> QED BY <2>2, <3>1, CoveredStays
  <2> QED BY <2>1, <2>2, <2>5 DEF CompleteRunAccounts
<1> QED BY <1>1, <1>2
    DEF Next, JobStep, vars, nomba, Pay, RecordPayment, Midnight, Trigger, MissTrigger,
        RunFails, ListTransactions, ListNothing, LookUpByRef, WriteMatch, SkipItem, LookUpById

LEMMA NightSteps ==
    ASSUME TypeOK, MadeOK, JobOK, NightsOK, [Next]_vars
    PROVE  NightsOK'
<1>0. Grows /\ TypeOK' /\ day \in Nat
  <2>1. day \in Nat
    BY BoundsAssumption DEF TypeOK, Day
  <2> QED BY <2>1, NextGrows, TypeStep
<1> DEFINE Explained(d) == d \in completed \/ d \in spoilt \/ AmbiguousIn(d)
<1>1. ASSUME NEW d \in Day, Explained(d) PROVE Explained(d)'
  <2>1. AmbiguousIn(d) => AmbiguousIn(d)'
    <3> SUFFICES ASSUME NEW p \in Payment, InWindow(p, d), Ambiguous(p)
                 PROVE  InWindow(p, d)' /\ Ambiguous(p)'
      BY DEF AmbiguousIn
    <3> QED BY <1>0, DealtStays, AmbiguousStays
  <2> QED BY <1>0, <1>1, <2>1 DEF Grows
<1>2. \A d \in Day : NightOver(d) => Explained(d)'
  BY <1>1 DEF NightsOK
<1> HIDE DEF Explained
<1>3. SUFFICES \A d \in Day : NightOver(d)' => Explained(d)'
  BY DEF NightsOK, Explained
<1>4. ASSUME UNCHANGED <<day, early>>, job'.pc = "idle" => job.pc = "idle"
      PROVE  \A d \in Day : NightOver(d)' => Explained(d)'
  BY <1>2, <1>4 DEF NightOver
<1>5. ASSUME day' = day, Explained(day)'
      PROVE  \A d \in Day : NightOver(d)' => Explained(d)'
  <2> SUFFICES ASSUME NEW d \in Day, d < day' \/ d = day' PROVE Explained(d)'
    BY DEF NightOver
  <2>1. CASE d = day
    BY <1>5, <2>1
  <2>2. CASE d < day
    BY <1>2, <2>2 DEF NightOver
  <2> QED BY <1>5, <2>1, <2>2
<1>6. CASE Midnight
  <2>1. day' = day + 1 /\ early' /\ ~early /\ job.pc = "idle"
    BY <1>6 DEF Midnight
  <2> SUFFICES ASSUME NEW d \in Day, NightOver(d)' PROVE NightOver(d)
    BY <1>2
  <2>2. d \in Nat
    BY BoundsAssumption DEF Day
  <2> QED BY <1>0, <2>1, <2>2 DEF NightOver
<1>7. CASE Trigger
  <2>1. job'.pc = "list" /\ UNCHANGED day
    BY <1>7 DEF Trigger, NoJob
  <2>2. \A d \in Day : NightOver(d)' => NightOver(d)
    BY <2>1 DEF NightOver
  <2> QED BY <1>2, <2>2
<1>8. CASE MissTrigger \/ RunFails
  <2>1. day' = day /\ day \in spoilt'
    BY <1>8 DEF MissTrigger, RunFails, JobOK
  <2> QED BY <1>5, <2>1 DEF Explained
<1>9. CASE CompleteRun
  <2>1. day' = day /\ day \in completed'
    BY <1>9 DEF CompleteRun, JobOK
  <2> QED BY <1>5, <2>1 DEF Explained
<1>10. ASSUME NEW p \in Payment, Taken(p)
       PROVE  \A d \in Day : NightOver(d)' => Explained(d)'
  <2>1. UNCHANGED <<day, early>>
    BY <1>10 DEF Taken
  <2>2. CASE job'.pc # "idle"
    BY <1>4, <2>1, <2>2
  <2>3. CASE Ambiguous(p)
    <3>1. InWindow(p, day)
      BY <1>10 DEF Taken, JobOK
    <3>2. InWindow(p, day)' /\ Ambiguous(p)'
      BY <1>0, <2>1, <2>3, <3>1, DealtStays, AmbiguousStays
    <3> QED BY <1>5, <2>1, <3>2 DEF Explained, AmbiguousIn
  <2> QED BY <1>10, <2>2, <2>3 DEF Taken
<1>11. LookUpByRef \/ (\E p \in Payment : LookUpById(p)) =>
           \A d \in Day : NightOver(d)' => Explained(d)'
  BY <1>10, LookUpTakes
<1>12. ListTransactions \/ ListNothing \/ WriteMatch \/ (\E p \in Payment : SkipItem(p)) =>
           UNCHANGED <<day, early>> /\ job'.pc = "next"
  <2>1. ListTransactions => job'.pc = "next" /\ UNCHANGED <<day, early>>
    BY DEF ListTransactions, TypeOK
  <2>2. ListNothing \/ WriteMatch => job'.pc = "next" /\ UNCHANGED <<day, early>>
    BY DEF ListNothing, WriteMatch, TypeOK
  <2>3. ASSUME NEW p \in Payment, SkipItem(p) PROVE job'.pc = "next" /\ UNCHANGED <<day, early>>
    BY <2>3 DEF SkipItem, TypeOK
  <2> QED BY <2>1, <2>2, <2>3
<1>13. UNCHANGED <<day, early, job>> => \A d \in Day : NightOver(d)' => Explained(d)'
  BY <1>4
<1> QED BY <1>4, <1>6, <1>7, <1>8, <1>9, <1>11, <1>12, <1>13
    DEF Next, JobStep, vars, nomba, Pay, RecordPayment

LEMMA NightStep == NightInv /\ [Next]_vars => NightInv'
<1> SUFFICES ASSUME NightInv, [Next]_vars PROVE NightInv'
  OBVIOUS
<1>1. /\ TypeOK /\ MadeOK /\ JobOK /\ Fresh /\ MatchOK /\ OncePerRun /\ RunDue
      /\ CompleteRunAccounts /\ NightsOK /\ \A d \in completed : d <= day
  BY DEF NightInv
<1>2. TypeOK'
  BY <1>1, TypeStep
<1>3. MadeOK'
  BY <1>1, MadeStep
<1>4. JobOK' /\ Fresh'
  BY <1>1, JobSteps
<1>5. MatchOK' /\ OncePerRun'
  BY <1>1, MatchStep
<1>6. RunDue'
  BY <1>1, RunDueSteps
<1>7. CompleteRunAccounts' /\ \A d \in completed' : d <= day'
  BY <1>1, CompleteSteps
<1>8. NightsOK'
  BY <1>1, NightSteps
<1> QED BY <1>2, <1>3, <1>4, <1>5, <1>6, <1>7, <1>8 DEF NightInv

LEMMA NightInvariant == Spec => []NightInv
BY NightInit, NightStep, PTL DEF Spec

-----------------------------------------------------------------------------

\* Every variable of the job keeps its type: in particular a look-up leaves
\* local_tx None or the one row found, never several.
THEOREM NightTypeCorrect == Spec => []TypeOK
<1>1. NightInv => TypeOK
  BY DEF NightInv
<1> QED BY <1>1, NightInvariant, PTL

\* Every audit entry of the safety net is about a row that is there, of the
\* payment or of one that shares its reference.
THEOREM MatchesHaveRows == Spec => []MatchHasRow
<1>1. NightInv => MatchHasRow
  BY DEF NightInv, MatchOK, MatchHasRow, IsRowFor
<1> QED BY <1>1, NightInvariant, PTL

\* However many nights pass, the two-day window matches a payment at most
\* twice, and one run never matches it twice.
THEOREM MatchedAtMostTwice == Spec => []MatchedTwiceAtMost
<1>1. ASSUME NightInv, NEW p \in Payment PROVE Len(matches[p]) <= 2
  <2> DEFINE Entry == [day: Day, row: Payment]
             m == matches[p]
  <2>1. matches \in [Payment -> Seq(Entry)] /\ MatchOK /\ OncePerRun /\ TypeOK
    BY <1>1 DEF NightInv, TypeOK
  <2>2. made[p] # None => made[p] \in Nat
    BY <2>1, BoundsAssumption DEF TypeOK, Day
  <2>3. ASSUME NEW i \in DOMAIN m
        PROVE  m[i].day = made[p] \/ m[i].day = made[p] + 1
    <3> HIDE DEF Entry
    <3>1. m[i] \in Entry
      BY <2>1
    <3> USE DEF Entry
    <3>2. m[i].day \in Nat
      BY <3>1, BoundsAssumption DEF Day
    <3>3. InWindow(p, m[i].day)
      BY <2>1 DEF MatchOK
    <3> QED BY <2>2, <3>2, <3>3 DEF InWindow
  <2>4. m \in Seq(Entry) /\ DOMAIN m = 1..Len(m) /\ Len(m) \in Nat
    <3> HIDE DEF Entry
    <3> QED BY <2>1
  <2>5. ASSUME NEW i \in DOMAIN m, NEW j \in DOMAIN m, m[i].day = m[j].day PROVE i = j
    BY <2>1, <2>5 DEF OncePerRun
  <2> HIDE DEF m, Entry
  <2>6. ASSUME Len(m) > 2 PROVE FALSE
    <3>1. 1 \in DOMAIN m /\ 2 \in DOMAIN m /\ 3 \in DOMAIN m
      BY <2>4, <2>6
    <3>2. m[1].day # m[2].day /\ m[1].day # m[3].day /\ m[2].day # m[3].day
      BY <2>5, <3>1
    <3> QED BY <2>3, <3>1, <3>2
  <2>7. Len(m) <= 2
    BY <2>4, <2>6
  <2> QED BY <2>7 DEF m
<1>2. NightInv => MatchedTwiceAtMost
  BY <1>1 DEF NightInv, OncePerRun, MatchedTwiceAtMost
<1> QED BY <1>2, NightInvariant, PTL

\* Once the run of a day is complete, and unless the answer it was given had no
\* list, the payments of the day before are matched or reported, or as many of
\* the two days as a list holds.
THEOREM RunsAccount == Spec => []CompleteRunAccounts
<1>1. NightInv => CompleteRunAccounts
  BY DEF NightInv
<1> QED BY <1>1, NightInvariant, PTL

\* By the end of each night that is not itself spoilt and has no ambiguous key
\* in its window, the payments of the day before are matched or reported, or as
\* many as a list holds, whatever became of the other nights.
THEOREM AccountedInTime == Spec => []AccountedByNextNight
<1>1. NightInv => AccountedByNextNight
  BY DEF NightInv, NightsOK, AmbiguousIn, CompleteRunAccounts, AccountedByNextNight
<1> QED BY <1>1, NightInvariant, PTL
=============================================================================
