---------------------------- MODULE CaseFormsProofs ----------------------------
(***************************************************************************)
(* What the run of CaseForms shows, for any people, days, entries and      *)
(* operations, and for any number of requests at a time: the types; that   *)
(* only a request whose rows were rewritten under it can spoil the rows or *)
(* pass the gate short of a form; and that while the admin leaves the      *)
(* people alone no such request exists for the positions and the gate.     *)
(***************************************************************************)
EXTENDS CaseForms, FiniteSetTheorems, SequenceTheorems, TLAPS

\* A person has one row, and is one of the m that were entered.
OneRowEach(roster, m) ==
    /\ \A i, j \in DOMAIN roster : roster[i].who = roster[j].who => i = j
    /\ \A i \in DOMAIN roster : roster[i].who <= m

\* What a file's rows are like while no request has been overtaken.
RowsInv ==
    /\ OneRowEach(file.roster, made)
    /\ NoFormIsNobodys /\ PrimaryRangeValid

\* The rows are still those the request has read ...
Fresh(t) == t.read.roster = file.roster /\ t.read.forms = file.forms

\* ... and a request ends that cannot say so.
EndsStale(s) == tx[s] # Idle /\ tx'[s] = Idle /\ ~Fresh(tx[s])
StaleEnds == \E s \in Sessions : EndsStale(s)

\* What each request has checked, of the rows as it read them.
SaveChecked(t) ==
    /\ t.index <= Required(t.read)
    /\ 0 < t.entry.start /\ 0 < t.entry.end => t.entry.start <= t.entry.end
AppointmentChecked(t) ==
    t.read.forms[1] # NoForm => t.travel <= t.read.forms[1].end
TransitionChecked(t) == Cardinality(Submitted(t.read)) >= Required(t.read)
RemoveChecked(t) ==
    t.index \in 2..Len(t.read.roster) /\ t.read.roster[t.index].who = t.who
Checked(t) ==
    /\ t.op = "save" => SaveChecked(t)
    /\ t.op = "appointment" => AppointmentChecked(t)
    /\ t.op = "transition" => TransitionChecked(t)
    /\ t.op = "remove" => RemoveChecked(t)
ChecksInv == \A s \in Sessions : Checked(tx[s])

-----------------------------------------------------------------------------
\* 1..n has n members.
LEMMA CountTo ==
    ASSUME NEW n \in Nat
    PROVE  IsFiniteSet(1..n) /\ Cardinality(1..n) = n
BY FS_Interval

\* A function on 1..n is a sequence of n.
LEMMA FunctionIsSequence ==
    ASSUME NEW R, NEW n \in Nat, NEW f \in [1..n -> R]
    PROVE  f \in Seq(R) /\ Len(f) = n
OBVIOUS

\* What a sequence holds is of its kind.
LEMMA SequenceMember ==
    ASSUME NEW R, NEW q \in Seq(R), NEW i \in DOMAIN q
    PROVE  q[i] \in R
BY ElementOfSeq, LenProperties

\* Rows in a batch: one for each person.
LEMMA BatchRows ==
    ASSUME NEW people \in SUBSET Persons, IsFiniteSet(people), NEW at \in Nat,
           NEW rows \in Batch(people, at)
    PROVE  /\ rows \in Seq([who : Persons, at : Nat])
           /\ \A i \in DOMAIN rows : rows[i].who \in people
           /\ \A i, j \in DOMAIN rows : rows[i].who = rows[j].who => i = j
           /\ Len(rows) = Cardinality(people)
<1>1. PICK p \in SetToSeqs(people) :
         rows = [i \in DOMAIN p |-> [who |-> p[i], at |-> at]]
  BY DEF Batch
<1>2. Cardinality(people) \in Nat
  BY FS_CardinalityType
<1>3. /\ p \in [1..Cardinality(people) -> people]
      /\ \A i, j \in 1..Cardinality(people) : i # j => p[i] # p[j]
  BY <1>1 DEF SetToSeqs
<1>4. rows \in [1..Cardinality(people) -> [who : Persons, at : Nat]]
  BY <1>1, <1>3
<1>5. rows \in Seq([who : Persons, at : Nat]) /\ Len(rows) = Cardinality(people)
  BY <1>2, <1>4, FunctionIsSequence
<1>6. \A i \in 1..Cardinality(people) : rows[i].who = p[i]
  BY <1>1, <1>3
<1>7. QED
  BY <1>3, <1>4, <1>5, <1>6

\* The positions of the rows that stay.
Kept(old, gone) == {k \in DOMAIN old : old[k].who \notin gone}

\* What is left of the rows are rows of theirs, in their order, none twice.
LEMMA WithoutRows ==
    ASSUME NEW R, NEW old \in Seq(R), NEW gone,
           NEW rows \in Without(old, gone)
    PROVE  /\ rows \in Seq(R)
           /\ Len(rows) = Cardinality(Kept(old, gone))
           /\ \E e \in [DOMAIN rows -> Kept(old, gone)] :
                 /\ \A i, j \in DOMAIN rows : i < j => e[i] < e[j]
                 /\ \A i \in DOMAIN rows : rows[i] = old[e[i]]
<1> DEFINE kept == Kept(old, gone)
<1> USE DEF Kept
<1>1. PICK e \in SetToSeqs(kept) :
         Rising(e) /\ rows = [i \in DOMAIN e |-> old[e[i]]]
  BY DEF Without
<1>2. IsFiniteSet(DOMAIN old)
  <2>1. DOMAIN old = 1..Len(old) /\ Len(old) \in Nat
    OBVIOUS
  <2>2. QED
    BY <2>1, FS_Interval
<1>3. IsFiniteSet(kept)
  BY <1>2, FS_Subset
<1>4. Cardinality(kept) \in Nat
  BY <1>3, FS_CardinalityType
<1>5. e \in [1..Cardinality(kept) -> kept]
  BY <1>1 DEF SetToSeqs
<1>6. rows \in [1..Cardinality(kept) -> R]
  BY <1>1, <1>5
<1>7. rows \in Seq(R) /\ Len(rows) = Cardinality(kept)
  BY <1>4, <1>6, FunctionIsSequence
<1>8. DOMAIN rows = DOMAIN e
  BY <1>5, <1>6
<1>9. QED
  BY <1>1, <1>5, <1>7, <1>8 DEF Rising

-----------------------------------------------------------------------------
\* A request begins, and ends, as a request.
LEMMA BeginTypes ==
    ASSUME TypeOK, NEW s \in Sessions, NEW t \in Request, Begin(s, t)
    PROVE  TypeOK'
BY DEF TypeOK, Begin

LEMMA EndTypes ==
    ASSUME TypeOK, NEW s \in Sessions, NEW op, End(s, op)
    PROVE  /\ tx' \in [Sessions -> Request \cup {Idle}]
           /\ tx[s] \in Request \/ tx[s] = Idle
BY DEF TypeOK, End

\* The request a commit ends is one of its operation's.
CoreDataRequest == [op : {"coreData"}, count : Indexes, read : FileType]

LEMMA RequestOfOp ==
    ASSUME NEW t \in Request \cup {Idle}
    PROVE  /\ t.op = "save" =>
                t \in [op : {"save"}, index : Indexes, who : Persons,
                       entry : Entry, read : FileType]
           /\ t.op = "appointment" =>
                t \in [op : {"appointment"}, date : Days, travel : Days, read : FileType]
           /\ t.op = "transition" => t \in [op : {"transition"}, read : FileType]
           /\ t.op = "coreData" => t \in CoreDataRequest
           /\ t.op = "remove" =>
                t \in [op : {"remove"}, index : Indexes, who : Persons, read : FileType]
           /\ t.op = "none" => t = Idle
BY DEF Request, Idle, CoreDataRequest

\* The rows of a file are people's.
LEMMA RowTypes ==
    ASSUME NEW f \in FileType, NEW i \in DOMAIN f.roster
    PROVE  f.roster[i].who \in Persons
<1>1. f.roster \in Seq([who : Persons, at : Nat])
  BY DEF FileType
<1>2. f.roster[i] \in [who : Persons, at : Nat]
  BY <1>1, ElementOfSeq, LenProperties
<1>3. QED
  BY <1>2

\* How many people a file must have a form of.
LEMMA RequiredNumber ==
    ASSUME NEW f \in FileType
    PROVE  /\ Required(f) \in Nat \ {0}
           /\ f.roster # <<>> => Required(f) = Len(f.roster)
           /\ f.roster = <<>> => Required(f) = 1
           /\ Len(f.roster) <= Required(f)
BY DEF FileType, Required

\* The rows updateApplicationCoreData enters are people's, and of all but the
\* holder newcomers, as many as are counted.
LEMMA EnteredPeople ==
    ASSUME made \in Persons, NEW t \in CoreDataRequest, NEW f \in FileType,
           made + Cardinality(Entered(t, f) \ {1}) <= MaxPersons
    PROVE  /\ Entered(t, f) \in SUBSET Persons /\ IsFiniteSet(Entered(t, f))
           /\ Cardinality(Entered(t, f) \ {1}) \in Nat
           /\ \A x \in Entered(t, f) :
                 \/ x \in (made + 1)..(made + Cardinality(Entered(t, f) \ {1}))
                 \/ x = 1 /\ t.read.roster = <<>>
           /\ t.count <= Required(t.read) => Entered(t, f) \subseteq {1}
<1> USE BoundsAssumption DEF Persons, Indexes
<1> DEFINE grow == t.count - Required(t.read)
           g == IF grow > 0 THEN grow ELSE 0
           companions == (made + 1)..(made + g)
<1>1. t.count \in Indexes /\ t.read \in FileType
  BY DEF CoreDataRequest
<1>2. g \in Nat /\ made \in Nat \ {0} /\ made + 1 \in Int /\ made + g \in Int
  BY <1>1, RequiredNumber
<1>3. \/ Entered(t, f) = companions
      \/ Entered(t, f) = companions \cup {1} /\ t.read.roster = <<>>
  BY DEF Entered
<1>4. 1 \notin companions
  BY <1>2
<1>5. Entered(t, f) \ {1} = companions
  BY <1>3, <1>4
<1> HIDE DEF g
<1>6. IsFiniteSet(companions) /\ Cardinality(companions) = g
  <2>1. /\ IsFiniteSet(companions)
        /\ Cardinality(companions)
             = IF made + 1 > made + g THEN 0 ELSE (made + g) - (made + 1) + 1
    BY <1>2, FS_Interval
  <2>2. QED
    BY <1>2, <2>1
<1>7. IsFiniteSet(Entered(t, f))
  <2>1. IsFiniteSet(companions \cup {1})
    BY <1>6, FS_AddElement
  <2>2. QED
    BY <1>3, <1>6, <2>1
<1>8. Entered(t, f) \in SUBSET Persons
  <2>1. made + g <= MaxPersons
    BY <1>5, <1>6
  <2>2. companions \subseteq Persons /\ 1 \in Persons
    BY <1>2, <2>1
  <2>3. QED
    BY <1>3, <2>2
<1>9. t.count <= Required(t.read) => companions = {}
  BY <1>1, <1>2, RequiredNumber DEF g
<1> HIDE DEF companions
<1>10. Cardinality(Entered(t, f) \ {1}) = g
  BY <1>5, <1>6
<1>11. \A x \in companions : x \in (made + 1)..(made + g)
  BY DEF companions
<1>12. QED
  BY <1>2, <1>3, <1>7, <1>8, <1>9, <1>10, <1>11

\* What a change of the number makes of a file is a file.
LEMMA ShrinkTypes ==
    ASSUME NEW t \in CoreDataRequest, NEW f \in FileType, NEW g \in Shrink(t, f)
    PROVE  g \in FileType
<1>1. CASE t.count >= Required(t.read)
  BY <1>1 DEF Shrink
<1>2. CASE ~(t.count >= Required(t.read))
  <2>1. PICK rows \in Without(f.roster, Surplus(t)) :
          g = [f EXCEPT !.roster = rows,
                        !.forms = [i \in Indexes |-> IF i > t.count THEN NoForm ELSE @[i]]]
    BY <1>2 DEF Shrink
  <2>2. rows \in Seq([who : Persons, at : Nat])
    BY WithoutRows DEF FileType
  <2>3. QED
    BY <2>1, <2>2 DEF FileType
<1>3. QED
  BY <1>1, <1>2

\* Every step keeps the types, whoever works on the file at the same time.
LEMMA TypeStep == TypeOK /\ [Next]_vars => TypeOK'
<1> SUFFICES ASSUME TypeOK, [Next]_vars
             PROVE  TypeOK'
  OBVIOUS
<1> USE BoundsAssumption, EntriesAssumption
<1>0. file \in FileType /\ made \in Persons /\ page \in Seq(Persons)
  BY DEF TypeOK
<1>1. ASSUME NEW s \in Sessions, NEW i \in Indexes, NEW e \in Entries, BeginSave(s, i, e)
      PROVE  TypeOK'
  <2>1. [op |-> "save", index |-> i, who |-> page[i], entry |-> e, read |-> file] \in Request
    BY <1>0, <1>1 DEF BeginSave, Request
  <2>2. QED
    BY <1>1, <2>1, BeginTypes DEF BeginSave
<1>2. ASSUME NEW s \in Sessions, CommitSave(s)
      PROVE  TypeOK'
  <2>1. tx[s] \in [op : {"save"}, index : Indexes, who : Persons,
                   entry : Entry, read : FileType]
    BY <1>2, RequestOfOp DEF CommitSave, End, TypeOK
  <2>2. [who |-> tx[s].who, start |-> tx[s].entry.start, end |-> tx[s].entry.end] \in Form
    BY <2>1 DEF Form, Entry
  <2>3. file' \in FileType
    BY <1>0, <1>2, <2>1, <2>2 DEF CommitSave, FileType
  <2>4. QED
    BY <1>2, <2>3, EndTypes DEF CommitSave, TypeOK
<1>3. ASSUME NEW s \in Sessions, NEW date \in Days \ {0}, NEW travel \in Days \ {0},
             BeginAppointment(s, date, travel)
      PROVE  TypeOK'
  <2>1. [op |-> "appointment", date |-> date, travel |-> travel, read |-> file] \in Request
    BY <1>0 DEF Request
  <2>2. QED
    BY <1>3, <2>1, BeginTypes DEF BeginAppointment
<1>4. ASSUME NEW s \in Sessions, CommitAppointment(s)
      PROVE  TypeOK'
  <2>1. tx[s] \in [op : {"appointment"}, date : Days, travel : Days, read : FileType]
    BY <1>4, RequestOfOp DEF CommitAppointment, End, TypeOK
  <2> DEFINE forms == [i \in Indexes |-> IF file.forms[i] = NoForm THEN NoForm
                                        ELSE [file.forms[i] EXCEPT !.start = tx[s].travel]]
  <2>2. forms \in [Indexes -> Form \cup {NoForm}]
    BY <1>0, <2>1 DEF FileType, Form
  <2>3. file' = [file EXCEPT !.appointment = tx[s].date, !.forms = forms]
    BY <1>4 DEF CommitAppointment
  <2>4. file' \in FileType
    BY <1>0, <2>1, <2>2, <2>3 DEF FileType
  <2>5. QED
    BY <1>4, <2>4, EndTypes DEF CommitAppointment, TypeOK
<1>5. ASSUME NEW s \in Sessions, BeginTransition(s)
      PROVE  TypeOK'
  <2>1. [op |-> "transition", read |-> file] \in Request
    BY <1>0 DEF Request
  <2>2. QED
    BY <1>5, <2>1, BeginTypes DEF BeginTransition
<1>6. ASSUME NEW s \in Sessions, CommitTransition(s)
      PROVE  TypeOK'
  BY <1>0, <1>6, EndTypes DEF CommitTransition, TypeOK, FileType, Stages
<1>7. ASSUME NEW s \in Sessions, NEW n \in Indexes, BeginCoreData(s, n)
      PROVE  TypeOK'
  <2>1. [op |-> "coreData", count |-> n, read |-> file] \in Request
    BY <1>0 DEF Request
  <2>2. QED
    BY <1>7, <2>1, BeginTypes DEF BeginCoreData
<1>8. ASSUME NEW s \in Sessions, CommitCoreData(s)
      PROVE  TypeOK'
  <2> DEFINE people == Entered(tx[s], file)
  <2>1. tx[s] \in CoreDataRequest
    BY <1>8, RequestOfOp DEF CommitCoreData, End, TypeOK
  <2>2. /\ made + Cardinality(people \ {1}) <= MaxPersons
        /\ made' = made + Cardinality(people \ {1})
        /\ \E rows \in Batch(people, made' + 1) :
             file' \in Shrink(tx[s], [file EXCEPT !.roster = @ \o rows])
    BY <1>8 DEF CommitCoreData
  <2>3. /\ people \in SUBSET Persons /\ IsFiniteSet(people)
        /\ Cardinality(people \ {1}) \in Nat
    BY <1>0, <2>1, <2>2, EnteredPeople
  <2> HIDE DEF people
  <2>4. made' \in Persons
    BY <1>0, <2>2, <2>3 DEF Persons
  <2>5. made' + 1 \in Nat
    <3>1. \A m \in Persons : m + 1 \in Nat
      BY DEF Persons
    <3>2. QED
      BY <2>4, <3>1
  <2>6. PICK rows \in Batch(people, made' + 1) :
          file' \in Shrink(tx[s], [file EXCEPT !.roster = @ \o rows])
    BY <2>2
  <2>7. rows \in Seq([who : Persons, at : Nat])
    BY <2>3, <2>5, <2>6, BatchRows
  <2>8. [file EXCEPT !.roster = @ \o rows] \in FileType
    <3>1. file.roster \o rows \in Seq([who : Persons, at : Nat])
      BY <1>0, <2>7, ConcatProperties DEF FileType
    <3>2. QED
      BY <1>0, <3>1 DEF FileType
  <2>9. file' \in FileType
    BY <2>1, <2>6, <2>8, ShrinkTypes
  <2>10. QED
    BY <1>8, <2>4, <2>9, EndTypes DEF CommitCoreData, TypeOK
<1>9. ASSUME NEW s \in Sessions, NEW k \in Indexes, BeginRemove(s, k)
      PROVE  TypeOK'
  <2>1. k \in DOMAIN file.roster
    BY <1>0, <1>9 DEF BeginRemove, FileType
  <2>2. file.roster[k].who \in Persons
    BY <1>0, <2>1, RowTypes
  <2>3. [op |-> "remove", index |-> k, who |-> file.roster[k].who, read |-> file] \in Request
    BY <1>0, <2>2 DEF Request
  <2>4. QED
    BY <1>9, <2>3, BeginTypes DEF BeginRemove
<1>10. ASSUME NEW s \in Sessions, CommitRemove(s)
      PROVE  TypeOK'
  <2>1. PICK rows \in Without(file.roster, {tx[s].who}) :
          file' = [file EXCEPT !.roster = rows, !.forms = Compacted(@, tx[s].index)]
    BY <1>10 DEF CommitRemove
  <2>2. rows \in Seq([who : Persons, at : Nat])
    BY <1>0, WithoutRows DEF FileType
  <2>3. Compacted(file.forms, tx[s].index) \in [Indexes -> Form \cup {NoForm}]
    BY <1>0 DEF Compacted, FileType, Indexes
  <2>4. file' \in FileType
    BY <1>0, <2>1, <2>2, <2>3 DEF FileType
  <2>5. QED
    BY <1>10, <2>4, EndTypes DEF CommitRemove, TypeOK
<1>11. ASSUME NEW s \in Sessions, Rollback(s)
      PROVE  TypeOK'
  BY <1>11 DEF Rollback, TypeOK
<1>12. ASSUME LoadPage
      PROVE  TypeOK'
  <2>1. CASE file.roster = <<>>
    <3>1. page' = <<1>> /\ 1 \in Persons
      BY <1>12, <2>1 DEF LoadPage, PageOrders, Persons
    <3>2. QED
      BY <1>12, <3>1 DEF LoadPage, TypeOK
  <2>2. CASE file.roster # <<>>
    <3>1. PICK r \in [DOMAIN file.roster -> ToSet(file.roster)] : page' = Whos(r)
      BY <1>12, <2>2 DEF LoadPage, PageOrders
    <3>2. /\ file.roster \in Seq([who : Persons, at : Nat])
          /\ DOMAIN file.roster = 1..Len(file.roster)
          /\ Len(file.roster) \in Nat
      BY <1>0 DEF FileType
    <3>3. \A x \in ToSet(file.roster) : x.who \in Persons
      BY <1>0, RowTypes DEF ToSet
    <3>4. page' \in [1..Len(file.roster) -> Persons]
      BY <3>1, <3>2, <3>3 DEF Whos
    <3>5. page' \in Seq(Persons)
      BY <3>2, <3>4, FunctionIsSequence
    <3>6. QED
      BY <1>12, <3>5 DEF LoadPage, TypeOK
  <2>3. QED
    BY <2>1, <2>2
<1>13. ASSUME NEW st \in Stages, Elsewhere(st)
      PROVE  TypeOK'
  BY <1>0, <1>13 DEF Elsewhere, TypeOK, FileType
<1>14. CASE UNCHANGED vars
  BY <1>14 DEF vars, TypeOK
<1>15. QED
  BY <1>1, <1>2, <1>3, <1>4, <1>5, <1>6, <1>7, <1>8, <1>9, <1>10, <1>11, <1>12,
     <1>13, <1>14 DEF Next

\* A file starts with its people, in the order of their rows.
LEMMA InitTypes == Init => TypeOK
<1> SUFFICES ASSUME Init  PROVE TypeOK
  OBVIOUS
<1>1. made \in Persons /\ (1..made) \in SUBSET Persons /\ IsFiniteSet(1..made)
  BY BoundsAssumption, FS_Interval DEF Init, Persons
<1>2. PICK roster \in Batch(1..made, 1) \cup (IF made = 1 THEN {<<>>} ELSE {}) :
        file = NewFile(roster)
  BY DEF Init
<1>3. roster \in Seq([who : Persons, at : Nat])
  <2>1. CASE roster = <<>>
    BY <2>1
  <2>2. CASE roster \in Batch(1..made, 1)
    BY <1>1, <2>2, BatchRows
  <2>3. QED
    BY <1>2, <2>1, <2>2
<1>4. file \in FileType
  BY <1>2, <1>3, BoundsAssumption DEF NewFile, FileType, Days, Stages
<1>5. QED
  BY <1>1, <1>4 DEF Init, TypeOK

\* The file, the page and the requests under way have their types, for any
\* number of requests at a time (CaseForms' TypeOK).
THEOREM TypeInvariant == Spec => []TypeOK
<1>1. QED
  BY InitTypes, TypeStep, PTL DEF Spec

-----------------------------------------------------------------------------
\* Whose rows go, the rest keep theirs.
LEMMA WithoutKeepsOneRowEach ==
    ASSUME NEW old \in Seq([who : Persons, at : Nat]), NEW m, OneRowEach(old, m),
           NEW gone, NEW rows \in Without(old, gone)
    PROVE  OneRowEach(rows, m)
<1>1. PICK e \in [DOMAIN rows -> Kept(old, gone)] :
         /\ \A i, j \in DOMAIN rows : i < j => e[i] < e[j]
         /\ \A i \in DOMAIN rows : rows[i] = old[e[i]]
  BY WithoutRows
<1>2. rows \in Seq([who : Persons, at : Nat]) /\ DOMAIN rows \subseteq Nat
  BY WithoutRows
<1>3. DOMAIN old \subseteq Nat
  OBVIOUS
<1>4. ASSUME NEW i \in DOMAIN rows, NEW j \in DOMAIN rows, rows[i].who = rows[j].who
      PROVE  i = j
  <2>1. old[e[i]].who = old[e[j]].who /\ e[i] \in DOMAIN old /\ e[j] \in DOMAIN old
    BY <1>1, <1>4 DEF Kept
  <2>2. e[i] = e[j] /\ e[i] \in Nat
    BY <1>3, <2>1 DEF OneRowEach
  <2>3. ~(i < j) /\ ~(j < i)
    BY <1>1, <2>2
  <2>4. QED
    BY <1>2, <2>3
<1>5. ASSUME NEW i \in DOMAIN rows
      PROVE  rows[i].who <= m
  BY <1>1 DEF OneRowEach, Kept
<1>6. QED
  BY <1>4, <1>5 DEF OneRowEach

\* A number smaller than the file's leaves that many rows.
LEMMA SurplusGoes ==
    ASSUME NEW t \in CoreDataRequest, NEW f \in FileType, NEW m,
           t.read.roster = f.roster, OneRowEach(f.roster, m),
           t.count < Required(f), NEW rows \in Without(f.roster, Surplus(t))
    PROVE  Len(rows) = t.count
<1> DEFINE kept == Kept(f.roster, Surplus(t))
<1>1. t.count \in Nat \ {0}
  BY BoundsAssumption DEF CoreDataRequest, Indexes
<1>2. /\ f.roster \in Seq([who : Persons, at : Nat]) /\ Len(f.roster) \in Nat
      /\ DOMAIN f.roster = 1..Len(f.roster)
  BY DEF FileType
<1>3. t.count < Len(f.roster)
  BY <1>1, RequiredNumber
<1>4. ASSUME NEW k \in 1..t.count
      PROVE  k \in kept
  <2>1. k \in DOMAIN f.roster
    BY <1>1, <1>2, <1>3
  <2>2. ASSUME NEW i \in (t.count + 1)..Len(t.read.roster), t.read.roster[i].who = f.roster[k].who
        PROVE  FALSE
    <3>1. i \in DOMAIN f.roster /\ i # k
      BY <1>1, <1>2
    <3>2. QED
      BY <2>1, <2>2, <3>1 DEF OneRowEach
  <2>3. QED
    BY <2>1, <2>2 DEF Surplus, Kept
<1>5. ASSUME NEW k \in kept
      PROVE  k \in 1..t.count
  <2>1. k \in 1..Len(f.roster) /\ f.roster[k].who \notin Surplus(t)
    BY <1>2 DEF Kept
  <2>2. k \notin (t.count + 1)..Len(t.read.roster)
    BY <2>1 DEF Surplus
  <2>3. QED
    BY <1>1, <1>2, <2>1, <2>2
<1>6. kept = 1..t.count
  BY <1>4, <1>5
<1>7. Cardinality(kept) = t.count
  <2>1. Cardinality(1..t.count) = t.count
    BY <1>1, CountTo
  <2>2. QED
    BY <1>6, <2>1
<1>8. QED
  BY <1>2, <1>7, WithoutRows

\* One person's row is one row.
LEMMA OneRowGoes ==
    ASSUME NEW old \in Seq([who : Persons, at : Nat]), NEW m, OneRowEach(old, m),
           NEW k \in DOMAIN old, NEW rows \in Without(old, {old[k].who})
    PROVE  Len(rows) = Len(old) - 1
<1> DEFINE kept == Kept(old, {old[k].who})
<1>1. kept = DOMAIN old \ {k}
  BY DEF OneRowEach, Kept
<1>2. DOMAIN old = 1..Len(old) /\ Len(old) \in Nat
  OBVIOUS
<1>3. IsFiniteSet(1..Len(old)) /\ Cardinality(1..Len(old)) = Len(old)
  BY <1>2, CountTo
<1>4. Cardinality(kept) = Len(old) - 1
  <2>1. IsFiniteSet(DOMAIN old) /\ Cardinality(DOMAIN old) = Len(old)
    BY <1>2, <1>3
  <2>2. QED
    BY <1>1, <2>1, FS_RemoveElement
<1>5. QED
  BY <1>4, WithoutRows

-----------------------------------------------------------------------------
\* What the rows are like depends on the people's rows and the forms only.
LEMMA RowsKept ==
    ASSUME RowsInv, file'.roster = file.roster, file'.forms = file.forms, made' = made
    PROVE  RowsInv' /\ Required(file)' = Required(file)
BY DEF RowsInv, OneRowEach, NoFormIsNobodys, Submitted, Required, PrimaryRangeValid

\* What is asked of the same rows has the same answer.
LEMMA SameRows ==
    ASSUME NEW f, NEW g, f.roster = g.roster, f.forms = g.forms
    PROVE  Required(f) = Required(g) /\ Submitted(f) = Submitted(g)
BY DEF Required, Submitted

\* With no form but its people's, a file that has as many forms as people has
\* one of each.
LEMMA CountedMeansAll ==
    ASSUME TypeOK, NoFormIsNobodys, Cardinality(Submitted(file)) >= Required(file)
    PROVE  /\ Submitted(file) = 1..Required(file)
           /\ \A i \in 1..Required(file) : file.forms[i] # NoForm
           /\ 1 \in Submitted(file) /\ Primary(file) = file.forms[1]
<1>1. Required(file) \in Nat \ {0}
  BY RequiredNumber DEF TypeOK
<1>2. Submitted(file) \in SUBSET (1..Required(file))
  BY <1>1, BoundsAssumption DEF NoFormIsNobodys, Submitted, Indexes
<1>3. IsFiniteSet(1..Required(file)) /\ Cardinality(1..Required(file)) = Required(file)
  BY <1>1, CountTo
<1>4. /\ IsFiniteSet(Submitted(file)) /\ Cardinality(Submitted(file)) <= Required(file)
      /\ Cardinality(Submitted(file)) = Required(file) => Submitted(file) = 1..Required(file)
  BY <1>2, <1>3, FS_Subset
<1>5. Submitted(file) = 1..Required(file)
  BY <1>1, <1>4, FS_CardinalityType
<1>6. \A i \in 1..Required(file) : file.forms[i] # NoForm
  BY <1>5 DEF Submitted
<1>7. 1 \in Submitted(file) /\ \A j \in Submitted(file) : j \in Nat /\ 1 <= j
  BY <1>1, <1>5
<1>8. (CHOOSE i \in Submitted(file) : \A j \in Submitted(file) : i <= j) = 1
  BY <1>7
<1>9. QED
  BY <1>5, <1>6, <1>7, <1>8 DEF Primary

\* A file whose number of people changes keeps one row for each, its main form
\* and no form beyond them.
LEMMA CoreDataKeeps ==
    ASSUME TypeOK, RowsInv, NEW s \in Sessions, Fresh(tx[s]), CommitCoreData(s)
    PROVE  RowsInv'
<1> DEFINE t == tx[s]
           people == Entered(t, file)
<1>1. t \in CoreDataRequest /\ t.op = "coreData"
  BY RequestOfOp DEF CommitCoreData, End, TypeOK
<1>2. t.read.roster = file.roster /\ t.read.forms = file.forms /\ t.read \in FileType
  BY <1>1 DEF Fresh, CoreDataRequest
<1>3. file \in FileType /\ made \in Persons /\ made \in Nat \ {0}
  BY DEF TypeOK, Persons
<1>4. /\ made + Cardinality(people \ {1}) <= MaxPersons
      /\ made' = made + Cardinality(people \ {1})
      /\ \E rows \in Batch(people, made' + 1) :
           file' \in Shrink(t, [file EXCEPT !.roster = @ \o rows])
  BY DEF CommitCoreData
<1>5. /\ people \in SUBSET Persons /\ IsFiniteSet(people)
      /\ Cardinality(people \ {1}) \in Nat
      /\ \A x \in people :
           \/ x \in (made + 1)..(made + Cardinality(people \ {1}))
           \/ x = 1 /\ t.read.roster = <<>>
      /\ t.count <= Required(t.read) => people \subseteq {1}
  BY <1>1, <1>3, <1>4, EnteredPeople
<1> HIDE DEF t, people
<1>6. made' \in Nat /\ made' + 1 \in Nat /\ made <= made'
  BY <1>3, <1>4, <1>5
<1>7. PICK rows \in Batch(people, made' + 1) :
         file' \in Shrink(t, [file EXCEPT !.roster = @ \o rows])
  BY <1>4
<1>8. /\ rows \in Seq([who : Persons, at : Nat])
      /\ \A i \in DOMAIN rows : rows[i].who \in people
      /\ \A i, j \in DOMAIN rows : rows[i].who = rows[j].who => i = j
      /\ Len(rows) = Cardinality(people)
  BY <1>5, <1>6, <1>7, BatchRows
<1> DEFINE more == [file EXCEPT !.roster = @ \o rows]
<1>9. /\ file.roster \in Seq([who : Persons, at : Nat])
      /\ file.roster \o rows \in Seq([who : Persons, at : Nat])
      /\ Len(file.roster \o rows) = Len(file.roster) + Len(rows)
      /\ Len(file.roster) \in Nat /\ Len(rows) \in Nat
  <2>1. file.roster \in Seq([who : Persons, at : Nat])
    BY <1>3 DEF FileType
  <2>2. /\ file.roster \o rows \in Seq([who : Persons, at : Nat])
        /\ Len(file.roster \o rows) = Len(file.roster) + Len(rows)
    BY <1>8, <2>1, ConcatProperties
  <2>3. Len(file.roster) \in Nat /\ Len(rows) \in Nat
    BY <1>8, <2>1, LenProperties
  <2>4. QED
    BY <2>1, <2>2, <2>3
<1>10. /\ more \in FileType /\ more.roster = file.roster \o rows
       /\ more.forms = file.forms
  BY <1>3, <1>9 DEF FileType
<1>11. OneRowEach(more.roster, made')
  <2> DEFINE all == file.roster \o rows
             n == Len(file.roster)
  <2>1. ASSUME NEW i \in DOMAIN all
        PROVE  \/ i \in DOMAIN file.roster /\ all[i] = file.roster[i]
               \/ i - n \in DOMAIN rows /\ all[i] = rows[i - n] /\ i \notin DOMAIN file.roster
    BY <1>8, <1>9
  <2>2. ASSUME NEW i \in DOMAIN rows
        PROVE  rows[i].who <= made' /\ (rows[i].who > made \/ file.roster = <<>>)
    <3>1. \/ rows[i].who \in (made + 1)..(made + Cardinality(people \ {1}))
          \/ rows[i].who = 1 /\ t.read.roster = <<>>
      BY <1>5, <1>8
    <3>2. QED
      BY <1>2, <1>3, <1>4, <1>5, <1>6, <3>1
  <2>3. ASSUME NEW i \in DOMAIN file.roster
        PROVE  file.roster[i].who <= made /\ file.roster[i].who \in Nat
    BY <1>3, RowTypes DEF RowsInv, OneRowEach, Persons
  <2>4. ASSUME NEW i \in DOMAIN rows
        PROVE  rows[i].who \in Nat
    <3>1. rows[i] \in [who : Persons, at : Nat]
      BY <1>8, SequenceMember
    <3>2. Persons \subseteq Nat
      BY DEF Persons
    <3>3. QED
      BY <3>1, <3>2
  <2>5. ASSUME NEW i \in DOMAIN all
        PROVE  all[i].who <= made'
    BY <1>3, <1>6, <2>1, <2>2, <2>3
  <2>6. ASSUME NEW i \in DOMAIN all, NEW j \in DOMAIN all, all[i].who = all[j].who
        PROVE  i = j
    <3>1. CASE i \in DOMAIN file.roster /\ j \in DOMAIN file.roster
      BY <2>1, <2>6, <3>1 DEF RowsInv, OneRowEach
    <3>2. CASE i \in DOMAIN file.roster /\ j \notin DOMAIN file.roster
      <4>1. file.roster # <<>>
        BY <3>2
      <4>2. QED
        BY <1>3, <2>1, <2>2, <2>3, <2>4, <2>6, <3>2, <4>1
    <3>3. CASE i \notin DOMAIN file.roster /\ j \in DOMAIN file.roster
      <4>1. file.roster # <<>>
        BY <3>3
      <4>2. QED
        BY <1>3, <2>1, <2>2, <2>3, <2>4, <2>6, <3>3, <4>1
    <3>4. CASE i \notin DOMAIN file.roster /\ j \notin DOMAIN file.roster
      <4>1. i - n = j - n
        BY <1>8, <2>1, <2>6, <3>4
      <4>2. i \in Nat /\ j \in Nat /\ n \in Nat
        BY <1>9
      <4>3. QED
        BY <4>1, <4>2
    <3>5. QED
      BY <3>1, <3>2, <3>3, <3>4
  <2>7. QED
    BY <1>10, <2>5, <2>6 DEF OneRowEach
<1>12. CASE t.count >= Required(t.read)
  <2>1. file' = more
    BY <1>7, <1>12 DEF Shrink
  <2>2. Required(more) >= Required(file)
    <3>1. Len(more.roster) >= Len(file.roster) /\ Len(more.roster) \in Nat
      BY <1>9, <1>10
    <3>2. Len(more.roster) <= Required(more) /\ Required(more) \in Nat \ {0}
      BY <1>10, RequiredNumber
    <3>3. Required(file) = 1 \/ Required(file) = Len(file.roster)
      BY DEF Required
    <3>4. QED
      BY <1>9, <3>1, <3>2, <3>3
  <2>3. ASSUME NEW i \in Submitted(more)
        PROVE  i <= Required(more)
    <3>1. i \in Submitted(file) /\ i \in Nat
      BY <1>10, BoundsAssumption DEF Submitted, Indexes
    <3>2. QED
      BY <1>3, <1>10, <2>2, <3>1, RequiredNumber DEF RowsInv, NoFormIsNobodys
  <2>4. QED
    BY <1>10, <1>11, <2>1, <2>3 DEF RowsInv, NoFormIsNobodys, PrimaryRangeValid
<1>13. CASE ~(t.count >= Required(t.read))
  <2>1. t.count \in Nat \ {0} /\ t.count < Required(t.read) /\ Required(t.read) \in Nat
    BY <1>1, <1>2, <1>13, BoundsAssumption, RequiredNumber DEF CoreDataRequest, Indexes
  <2>2. file.roster # <<>> /\ Required(t.read) = Required(file)
    BY <1>2, <2>1, RequiredNumber DEF Required
  <2>3. people = {}
    <3>1. people \subseteq {1}
      BY <1>5, <2>1
    <3>2. 1 \notin (made + 1)..(made + Cardinality(people \ {1}))
      BY <1>3, <1>5
    <3>3. 1 \notin people
      BY <1>2, <1>5, <2>2, <3>2
    <3>4. QED
      BY <3>1, <3>3
  <2>4. Len(rows) = 0
    BY <1>8, <2>3, FS_EmptySet
  <2>5. rows = <<>>
    BY <1>8, <2>4, EmptySeq
  <2>6. more.roster = file.roster
    BY <1>9, <1>10, <2>5, ConcatEmptySeq
  <2>7. PICK left \in Without(more.roster, Surplus(t)) :
           file' = [more EXCEPT !.roster = left,
                                !.forms = [i \in Indexes |-> IF i > t.count THEN NoForm
                                                            ELSE @[i]]]
    BY <1>7, <1>13 DEF Shrink
  <2>8. left \in Seq([who : Persons, at : Nat]) /\ OneRowEach(left, made')
    BY <1>9, <1>10, <1>11, <2>7, WithoutKeepsOneRowEach, WithoutRows
  <2>9. Required(more) = Required(file)
    BY <2>6 DEF Required
  <2>10. Len(left) = t.count
    BY <1>1, <1>2, <1>10, <1>11, <2>1, <2>2, <2>6, <2>7, <2>9, SurplusGoes
  <2>11. /\ file'.roster = left
         /\ file'.forms = [i \in Indexes |-> IF i > t.count THEN NoForm ELSE file.forms[i]]
    BY <1>10, <2>7 DEF FileType
  <2>12. Required(file)' = t.count
    <3>1. left # <<>>
      BY <2>1, <2>10
    <3>2. QED
      BY <2>10, <2>11, <3>1 DEF Required
  <2>13. NoFormIsNobodys'
    BY <2>1, <2>11, <2>12 DEF NoFormIsNobodys, Submitted, Indexes
  <2>14. 1 \in Indexes /\ ~(1 > t.count)
    BY <2>1, BoundsAssumption DEF Indexes
  <2>15. file'.forms[1] = file.forms[1]
    BY <2>11, <2>14
  <2>16. QED
    BY <2>8, <2>11, <2>13, <2>15 DEF RowsInv, PrimaryRangeValid
<1>14. QED
  BY <1>12, <1>13

\* When a person is removed the later forms close the gap.
LEMMA RemoveKeeps ==
    ASSUME TypeOK, RowsInv, NEW s \in Sessions, Fresh(tx[s]), Checked(tx[s]),
           CommitRemove(s)
    PROVE  RowsInv'
<1> DEFINE k == tx[s].index
<1>1. k \in 2..Len(file.roster) /\ file.roster[k].who = tx[s].who
  BY DEF CommitRemove, End, Fresh, Checked, RemoveChecked
<1>2. /\ file \in FileType /\ file.roster \in Seq([who : Persons, at : Nat])
      /\ Len(file.roster) \in Nat
  BY DEF TypeOK, FileType
<1>3. k \in DOMAIN file.roster /\ k \in Nat
  BY <1>1, <1>2
<1>4. PICK left \in Without(file.roster, {file.roster[k].who}) :
         file' = [file EXCEPT !.roster = left, !.forms = Compacted(@, k)]
  BY <1>1 DEF CommitRemove
<1>5. Len(left) = Len(file.roster) - 1
  BY <1>2, <1>3, OneRowGoes DEF RowsInv
<1>6. OneRowEach(left, made)
  BY <1>2, WithoutKeepsOneRowEach DEF RowsInv
<1>7. file'.roster = left /\ file'.forms = Compacted(file.forms, k)
  BY <1>2, <1>4 DEF FileType
<1> HIDE DEF k
<1>8. Required(file) = Len(file.roster) /\ Required(file)' = Len(file.roster) - 1
  <2>1. file.roster # <<>> /\ left # <<>>
    BY <1>1, <1>2, <1>5
  <2>2. QED
    BY <1>5, <1>7, <2>1 DEF Required
<1>9. ASSUME NEW i \in Indexes, Compacted(file.forms, k)[i] # NoForm
      PROVE  i <= Len(file.roster) - 1
  <2>1. CASE i < k
    BY <1>1, <1>2, <2>1 DEF Indexes
  <2>2. CASE ~(i < k)
    <3>1. i < MaxPersons /\ file.forms[i + 1] # NoForm
      BY <1>9, <2>2 DEF Compacted
    <3>2. i + 1 \in Submitted(file)
      BY <3>1, BoundsAssumption DEF Submitted, Indexes
    <3>3. i + 1 <= Len(file.roster)
      BY <1>8, <3>2 DEF RowsInv, NoFormIsNobodys
    <3>4. QED
      BY <1>2, <3>3, BoundsAssumption DEF Indexes
  <2>3. QED
    BY <2>1, <2>2
<1>10. NoFormIsNobodys'
  BY <1>7, <1>8, <1>9 DEF NoFormIsNobodys, Submitted
<1>11. file'.forms[1] = file.forms[1]
  <2>1. 1 \in Indexes /\ 1 < k
    BY <1>1, <1>2, BoundsAssumption DEF Indexes
  <2>2. QED
    BY <1>7, <2>1 DEF Compacted
<1>12. QED
  BY <1>6, <1>7, <1>10, <1>11 DEF RowsInv, PrimaryRangeValid, CommitRemove

-----------------------------------------------------------------------------
\* A form saved on the rows as they are is filed under somebody's position.
LEMMA SaveKeeps ==
    ASSUME TypeOK, RowsInv, NEW s \in Sessions, Fresh(tx[s]), Checked(tx[s]), CommitSave(s)
    PROVE  RowsInv'
<1>0. file \in FileType
  BY DEF TypeOK
<1>1. tx[s] \in [op : {"save"}, index : Indexes, who : Persons,
                 entry : Entry, read : FileType]
  BY RequestOfOp DEF CommitSave, End, TypeOK
<1>2. SaveChecked(tx[s]) /\ Required(tx[s].read) = Required(file)
  BY <1>1, SameRows DEF Checked, Fresh
<1> DEFINE form == [who |-> tx[s].who, start |-> tx[s].entry.start,
                    end |-> tx[s].entry.end]
<1>3. /\ file'.roster = file.roster /\ made' = made
      /\ file'.forms = [file.forms EXCEPT ![tx[s].index] = form]
  BY <1>0 DEF CommitSave, FileType
<1>4. Required(file)' = Required(file)
  BY <1>3 DEF Required
<1>5. NoFormIsNobodys'
  BY <1>0, <1>1, <1>2, <1>3, <1>4
     DEF RowsInv, NoFormIsNobodys, Submitted, SaveChecked, FileType
<1>6. file'.forms[1] = form \/ file'.forms[1] = file.forms[1]
  BY <1>0, <1>1, <1>3, BoundsAssumption DEF FileType, Indexes
<1>7. PrimaryRangeValid'
  BY <1>2, <1>6 DEF RowsInv, PrimaryRangeValid, SaveChecked
<1>8. QED
  BY <1>3, <1>5, <1>7 DEF RowsInv

\* A travel start set on the rows as they are is before the main form's end.
LEMMA AppointmentKeeps ==
    ASSUME TypeOK, RowsInv, NEW s \in Sessions, Fresh(tx[s]), Checked(tx[s]),
           CommitAppointment(s)
    PROVE  RowsInv'
<1>0. file \in FileType
  BY DEF TypeOK
<1>1. tx[s] \in [op : {"appointment"}, date : Days, travel : Days, read : FileType]
  BY RequestOfOp DEF CommitAppointment, End, TypeOK
<1>2. file.forms[1] # NoForm => tx[s].travel <= file.forms[1].end
  BY <1>1 DEF Checked, AppointmentChecked, Fresh
<1>3. /\ file'.roster = file.roster /\ made' = made
      /\ file'.forms = [i \in Indexes |->
                            IF file.forms[i] = NoForm THEN NoForm
                            ELSE [file.forms[i] EXCEPT !.start = tx[s].travel]]
  BY <1>0 DEF CommitAppointment, FileType
<1>4. Required(file)' = Required(file)
  BY <1>3 DEF Required
<1>5. NoFormIsNobodys'
  BY <1>3, <1>4 DEF RowsInv, NoFormIsNobodys, Submitted
<1>6. 1 \in Indexes
  BY BoundsAssumption DEF Indexes
<1>7. PrimaryRangeValid'
  <2>1. CASE file.forms[1] = NoForm
    BY <1>3, <1>6, <2>1 DEF PrimaryRangeValid
  <2>2. CASE file.forms[1] # NoForm
    <3>1. file.forms[1] \in Form
      BY <1>0, <1>6, <2>2 DEF FileType
    <3>2. file'.forms[1].start = tx[s].travel /\ file'.forms[1].end = file.forms[1].end
      BY <1>3, <1>6, <2>2, <3>1 DEF Form
    <3>3. QED
      BY <1>2, <2>2, <3>2 DEF PrimaryRangeValid
  <2>3. QED
    BY <2>1, <2>2
<1>8. QED
  BY <1>3, <1>5, <1>7 DEF RowsInv

\* A step leaves the rows as they should be, unless it ends a request whose
\* rows were rewritten under it.
LEMMA RowsStep ==
    ASSUME TypeOK, ChecksInv, RowsInv, [Next]_vars
    PROVE  RowsInv' \/ StaleEnds
<1>0. file \in FileType
  BY DEF TypeOK
<1>1. ASSUME NEW s \in Sessions,
             \/ CommitSave(s) \/ CommitAppointment(s)
             \/ CommitCoreData(s) \/ CommitRemove(s)
      PROVE  RowsInv' \/ EndsStale(s)
  <2>1. tx[s] # Idle /\ tx'[s] = Idle
    <3>1. /\ tx[s].op \in {"save", "appointment", "coreData", "remove"}
          /\ tx' = [tx EXCEPT ![s] = Idle]
      BY <1>1 DEF CommitSave, CommitAppointment, CommitCoreData, CommitRemove, End
    <3>2. Idle.op = "none"
      BY DEF Idle
    <3>3. QED
      BY <3>1, <3>2 DEF TypeOK
  <2>2. CASE ~Fresh(tx[s])
    BY <2>1, <2>2 DEF EndsStale
  <2>3. CASE Fresh(tx[s])
    BY <1>1, <2>3, SaveKeeps, AppointmentKeeps, CoreDataKeeps, RemoveKeeps DEF ChecksInv
  <2>4. QED
    BY <2>2, <2>3
<1>2. ASSUME UNCHANGED <<file, made>>
      PROVE  RowsInv'
  BY <1>2, RowsKept
<1>3. ASSUME \/ \E s \in Sessions : CommitTransition(s)
             \/ \E st \in Stages : Elsewhere(st)
      PROVE  RowsInv'
  <2>1. file'.roster = file.roster /\ file'.forms = file.forms /\ made' = made
    BY <1>0, <1>3 DEF CommitTransition, Elsewhere, FileType
  <2>2. QED
    BY <2>1, RowsKept
<1>4. QED
  BY <1>1, <1>2, <1>3
  DEF Next, vars, StaleEnds, BeginSave, BeginAppointment, BeginTransition,
      BeginCoreData, BeginRemove, Begin, Rollback, LoadPage

\* A request begins with its checks, and nothing rewrites what it has read.
LEMMA ChecksBegin ==
    ASSUME TypeOK, ChecksInv, NEW s \in Sessions, NEW t, Begin(s, t), Checked(t)
    PROVE  ChecksInv'
<1>1. \A r \in Sessions : tx'[r] = IF r = s THEN t ELSE tx[r]
  BY DEF Begin, TypeOK
<1>2. \A r \in Sessions : Checked(tx[r])'
  BY <1>1 DEF ChecksInv, Checked, SaveChecked, AppointmentChecked, TransitionChecked,
              RemoveChecked
<1>3. QED
  BY <1>2 DEF ChecksInv

LEMMA ChecksStep ==
    ASSUME TypeOK, ChecksInv, [Next]_vars
    PROVE  ChecksInv'
<1>1. ASSUME NEW s \in Sessions, NEW i \in Indexes, NEW e \in Entries, BeginSave(s, i, e)
      PROVE  ChecksInv'
  <2> DEFINE t == [op |-> "save", index |-> i, who |-> page[i], entry |-> e, read |-> file]
  <2>1. Checked(t)
    BY <1>1 DEF Checked, SaveChecked, BeginSave, IndexAllowed
  <2>2. QED
    BY <1>1, <2>1, ChecksBegin DEF BeginSave
<1>2. ASSUME NEW s \in Sessions, NEW date \in Days \ {0}, NEW travel \in Days \ {0},
             BeginAppointment(s, date, travel)
      PROVE  ChecksInv'
  <2> DEFINE t == [op |-> "appointment", date |-> date, travel |-> travel, read |-> file]
  <2>1. ASSUME file.forms[1] # NoForm
        PROVE  travel <= file.forms[1].end
    <3>1. 1 \in Submitted(file) /\ \A j \in Submitted(file) : j \in Nat /\ 1 <= j
      BY <2>1, BoundsAssumption DEF Submitted, Indexes
    <3>2. Primary(file) = file.forms[1]
      <4>1. (CHOOSE i \in Submitted(file) : \A j \in Submitted(file) : i <= j) = 1
        BY <3>1
      <4>2. QED
        BY <4>1 DEF Primary
    <3>3. QED
      BY <1>2, <3>2 DEF BeginAppointment, TravelFits
  <2>2. Checked(t)
    BY <2>1 DEF Checked, AppointmentChecked
  <2>3. QED
    BY <1>2, <2>2, ChecksBegin DEF BeginAppointment
<1>3. ASSUME NEW s \in Sessions, BeginTransition(s)
      PROVE  ChecksInv'
  <2> DEFINE t == [op |-> "transition", read |-> file]
  <2>1. Checked(t)
    BY <1>3 DEF Checked, TransitionChecked, BeginTransition
  <2>2. QED
    BY <1>3, <2>1, ChecksBegin DEF BeginTransition
<1>4. ASSUME NEW s \in Sessions, NEW n \in Indexes, BeginCoreData(s, n)
      PROVE  ChecksInv'
  <2> DEFINE t == [op |-> "coreData", count |-> n, read |-> file]
  <2>1. Checked(t)
    BY DEF Checked
  <2>2. QED
    BY <1>4, <2>1, ChecksBegin DEF BeginCoreData
<1>5. ASSUME NEW s \in Sessions, NEW k \in Indexes, BeginRemove(s, k)
      PROVE  ChecksInv'
  <2> DEFINE t == [op |-> "remove", index |-> k, who |-> file.roster[k].who, read |-> file]
  <2>1. Checked(t)
    BY <1>5 DEF Checked, RemoveChecked, BeginRemove
  <2>2. QED
    BY <1>5, <2>1, ChecksBegin DEF BeginRemove
<1>6. ASSUME NEW s \in Sessions, tx' = [tx EXCEPT ![s] = Idle] \/ tx' = tx
      PROVE  ChecksInv'
  <2>1. \A r \in Sessions : tx'[r] = Idle \/ tx'[r] = tx[r]
    BY <1>6 DEF TypeOK
  <2>2. \A r \in Sessions : Checked(tx[r])'
    BY <2>1 DEF ChecksInv, Checked, SaveChecked, AppointmentChecked, TransitionChecked,
                RemoveChecked, Idle
  <2>3. QED
    BY <2>2 DEF ChecksInv
<1>7. CASE tx' = tx
  BY <1>7 DEF ChecksInv, Checked, SaveChecked, AppointmentChecked, TransitionChecked,
              RemoveChecked
<1>8. QED
  BY <1>1, <1>2, <1>3, <1>4, <1>5, <1>6, <1>7
  DEF Next, vars, CommitSave, CommitAppointment, CommitTransition, CommitCoreData,
      CommitRemove, End, Rollback, LoadPage, Elsewhere

\* A file starts without forms, and with a row for each of its people.
LEMMA InitForms == Init => RowsInv /\ ChecksInv
<1> SUFFICES ASSUME Init  PROVE RowsInv /\ ChecksInv
  OBVIOUS
<1>1. made \in Persons /\ (1..made) \in SUBSET Persons /\ IsFiniteSet(1..made)
  BY BoundsAssumption, FS_Interval DEF Init, Persons
<1>2. PICK roster \in Batch(1..made, 1) \cup (IF made = 1 THEN {<<>>} ELSE {}) :
        file = NewFile(roster)
  BY DEF Init
<1>3. OneRowEach(roster, made)
  <2>1. CASE roster = <<>>
    BY <2>1 DEF OneRowEach
  <2>2. CASE roster \in Batch(1..made, 1)
    <3>1. /\ \A i \in DOMAIN roster : roster[i].who \in 1..made
          /\ \A i, j \in DOMAIN roster : roster[i].who = roster[j].who => i = j
      BY <1>1, <2>2, BatchRows
    <3>2. made \in Int
      BY <1>1 DEF Persons
    <3>3. QED
      BY <3>1, <3>2 DEF OneRowEach
  <2>3. QED
    BY <1>2, <2>1, <2>2
<1>4. file.roster = roster /\ file.forms = [i \in Indexes |-> NoForm]
  BY <1>2 DEF NewFile
<1>5. 1 \in Indexes
  BY BoundsAssumption DEF Indexes
<1>6. NoFormIsNobodys /\ PrimaryRangeValid
  BY <1>4, <1>5 DEF NoFormIsNobodys, Submitted, PrimaryRangeValid
<1>7. ChecksInv
  BY DEF Init, ChecksInv, Checked, Idle
<1>8. QED
  BY <1>3, <1>4, <1>6, <1>7 DEF RowsInv

LEMMA ChecksInvariant == Spec => [](TypeOK /\ ChecksInv)
<1>1. Init => TypeOK /\ ChecksInv
  BY InitTypes, InitForms
<1>2. TypeOK /\ ChecksInv /\ [Next]_vars => (TypeOK /\ ChecksInv)'
  BY TypeStep, ChecksStep
<1>3. QED
  BY <1>1, <1>2, PTL DEF Spec

\* However many requests are under way, the first form filed under a position
\* nobody has, the first travel range turned round and the first person with
\* two rows are the work of a request that wrote after another had rewritten
\* the rows it had read: no request spoils rows that are as it read them,
\* whichever operation it is and whatever people come and go.
THEOREM OnlyStaleRequestsSpoil == Spec => [][RowsInv => RowsInv' \/ StaleEnds]_vars
<1>1. TypeOK /\ ChecksInv /\ [Next]_vars => [RowsInv => RowsInv' \/ StaleEnds]_vars
  BY RowsStep
<1>2. QED
  BY <1>1, ChecksInvariant, PTL DEF Spec

\* A file leaves DOC_PROCESS for SEC_POOL; it has a form for each of its people.
GatePasses == file.stage = "DOC_PROCESS" /\ file'.stage = "SEC_POOL"
Complete == 1..Required(file) \subseteq Submitted(file)

\* It leaves so by a hand-off.
LEMMA GateIsTransition ==
    ASSUME TypeOK, [Next]_vars, GatePasses
    PROVE  \E s \in Sessions : CommitTransition(s)
<1> USE DEF GatePasses
<1>0. file \in FileType
  BY DEF TypeOK
<1>1. ASSUME NEW s \in Sessions, CommitCoreData(s)
      PROVE  FALSE
  <2>1. tx[s] \in CoreDataRequest
    BY <1>1, RequestOfOp DEF CommitCoreData, End, TypeOK
  <2>2. PICK rows : file' \in Shrink(tx[s], [file EXCEPT !.roster = @ \o rows])
    BY <1>1 DEF CommitCoreData
  <2>3. file'.stage = file.stage
    BY <1>0, <2>2 DEF Shrink, FileType
  <2>4. QED
    BY <2>3
<1>2. ASSUME NEW s \in Sessions, CommitSave(s) \/ CommitAppointment(s) \/ CommitRemove(s)
      PROVE  FALSE
  BY <1>0, <1>2 DEF CommitSave, CommitAppointment, CommitRemove, FileType
<1>3. ASSUME file' = file  PROVE FALSE
  BY <1>3
<1>4. ASSUME NEW st \in Stages, Elsewhere(st)  PROVE FALSE
  BY <1>0, <1>4 DEF Elsewhere, FileType
<1>6. QED
  BY <1>1, <1>2, <1>2, <1>3, <1>4
     DEF Next, vars, BeginSave, BeginAppointment, BeginTransition, BeginCoreData,
         BeginRemove, Begin, Rollback, LoadPage

\* The gate only counts rows.  With no row that is nobody's, a file that passes
\* it without a form for each of its people passes it by a hand-off whose rows
\* were rewritten between its check and its write.
ShortOnlyWhenStale ==
    GatePasses /\ NoFormIsNobodys => Complete \/ StaleEnds

THEOREM GateMissesOnlyWhenStale == Spec => [][ShortOnlyWhenStale]_vars
<1>1. ASSUME TypeOK, ChecksInv, [Next]_vars, GatePasses, NoFormIsNobodys
      PROVE  Complete \/ StaleEnds
  <2>1. PICK s \in Sessions : CommitTransition(s)
    BY <1>1, GateIsTransition
  <2>2. tx[s].op = "transition" /\ tx[s] # Idle /\ tx'[s] = Idle
    BY <1>1, <2>1 DEF CommitTransition, End, Idle, TypeOK
  <2>3. CASE ~Fresh(tx[s])
    BY <2>2, <2>3 DEF StaleEnds, EndsStale
  <2>4. CASE Fresh(tx[s])
    <3>1. Cardinality(Submitted(tx[s].read)) >= Required(tx[s].read)
      BY <1>1, <2>2 DEF ChecksInv, Checked, TransitionChecked
    <3>2. Cardinality(Submitted(file)) >= Required(file)
      BY <2>4, <3>1, SameRows DEF Fresh
    <3>3. QED
      BY <1>1, <3>2, CountedMeansAll DEF Complete
  <2>5. QED
    BY <2>3, <2>4
<1>2. TypeOK /\ ChecksInv /\ [Next]_vars => [ShortOnlyWhenStale]_vars
  BY <1>1 DEF ShortOnlyWhenStale
<1>3. QED
  BY <1>2, ChecksInvariant, PTL DEF Spec

-----------------------------------------------------------------------------
(***************************************************************************)
(* Any number of requests, while the admin leaves the people as onboarding *)
(* entered them: then a position that was somebody's stays theirs.         *)
(***************************************************************************)
PeopleStay == Endpoints \cap {"coreData", "remove"} = {}

\* What requests carry: operations that are in use, positions that are
\* somebody's, gates that were passed and still are, since forms stay too.
PositionsStand ==
    \A s \in Sessions : /\ tx[s] = Idle \/ tx[s].op \in Endpoints
                        /\ tx[s].op = "save" => tx[s].index <= Required(file)
SteadyInv ==
    /\ NoFormIsNobodys /\ PositionsStand
    /\ \A s \in Sessions : tx[s].op = "transition" => Complete

\* A request that begins is one, and leaves the file and the others alone.
LEMMA SteadyBegin ==
    ASSUME TypeOK, SteadyInv, NEW s \in Sessions, NEW t, Begin(s, t),
           t.op = "save" => t.index <= Required(file),
           t.op = "transition" => Complete
    PROVE  SteadyInv'
<1>1. file' = file /\ t.op \in Endpoints
  BY DEF Begin
<1>2. \A r \in Sessions : tx'[r] = IF r = s THEN t ELSE tx[r]
  BY DEF Begin, TypeOK
<1>3. /\ NoFormIsNobodys' /\ (Complete => Complete')
      /\ Required(file') = Required(file)
  BY <1>1 DEF SteadyInv, NoFormIsNobodys, Complete
<1>4. QED
  BY <1>1, <1>2, <1>3 DEF SteadyInv, PositionsStand

\* One that ends may enter a form under a position that is somebody's and
\* rewrite the forms there are; it takes none away.
LEMMA SteadyEnd ==
    ASSUME TypeOK, SteadyInv, NEW s \in Sessions, tx' = [tx EXCEPT ![s] = Idle] \/ tx' = tx,
           file'.roster = file.roster,
           \A i \in Indexes : file.forms[i] # NoForm => file'.forms[i] # NoForm,
           \A i \in Indexes : file'.forms[i] # NoForm =>
              file.forms[i] # NoForm \/ i <= Required(file)
    PROVE  SteadyInv'
<1>1. \A r \in Sessions : tx'[r] = tx[r] \/ tx'[r] = Idle
  BY DEF TypeOK
<1>2. Required(file') = Required(file)
  BY DEF Required
<1>3. NoFormIsNobodys'
  BY <1>2 DEF SteadyInv, NoFormIsNobodys, Submitted
<1>4. Complete => Complete'
  BY <1>2 DEF Complete, Submitted
<1>5. QED
  BY <1>1, <1>2, <1>3, <1>4 DEF SteadyInv, PositionsStand, Idle

\* No step does more than that.
LEMMA SteadyStep ==
    ASSUME PeopleStay, TypeOK, SteadyInv, [Next]_vars
    PROVE  SteadyInv'
<1>0. file \in FileType /\ \A i \in Indexes : file.forms[i] \in Form \cup {NoForm}
  BY DEF TypeOK, FileType
<1>1. ASSUME NEW s \in Sessions, NEW i \in Indexes, NEW e \in Entries,
             BeginSave(s, i, e)
      PROVE  SteadyInv'
  BY <1>1, SteadyBegin DEF BeginSave, IndexAllowed
<1>2. ASSUME NEW s \in Sessions, CommitSave(s)  PROVE SteadyInv'
  <2>1. tx[s].op = "save" /\ tx[s].index \in Indexes /\ tx[s].who \in Persons
    BY <1>2, RequestOfOp DEF CommitSave, End, TypeOK
  <2>2. tx[s].index <= Required(file)
    BY <2>1 DEF SteadyInv, PositionsStand
  <2> DEFINE form == [who |-> tx[s].who, start |-> tx[s].entry.start,
                      end |-> tx[s].entry.end]
  <2>3. form # NoForm
    <3>1. form.who \in Persons /\ NoForm.who \notin Persons
      BY <2>1 DEF Persons, NoForm
    <3>2. QED
      BY <3>1
  <2> HIDE DEF form
  <2>4. /\ file'.roster = file.roster /\ file'.forms = [file.forms EXCEPT ![tx[s].index] = form]
        /\ tx' = [tx EXCEPT ![s] = Idle]
    BY <1>0, <1>2 DEF CommitSave, End, FileType, form
  <2>5. file.forms \in [Indexes -> Form \cup {NoForm}]
    BY <1>0 DEF FileType
  <2>6. QED
    BY <2>1, <2>2, <2>3, <2>4, <2>5, SteadyEnd
<1>3. ASSUME NEW s \in Sessions, NEW date \in Days, NEW travel \in Days,
             BeginAppointment(s, date, travel)
      PROVE  SteadyInv'
  BY <1>3, SteadyBegin DEF BeginAppointment
<1>4. ASSUME NEW s \in Sessions, CommitAppointment(s)  PROVE SteadyInv'
  <2>1. /\ file'.roster = file.roster /\ tx' = [tx EXCEPT ![s] = Idle]
        /\ file'.forms = [i \in Indexes |->
                             IF file.forms[i] = NoForm THEN NoForm
                             ELSE [file.forms[i] EXCEPT !.start = tx[s].travel]]
    BY <1>0, <1>4 DEF CommitAppointment, End, FileType
  <2>2. ASSUME NEW i \in Indexes, file.forms[i] # NoForm
        PROVE  file'.forms[i] # NoForm
    <3>1. file.forms[i].who \in Persons /\ NoForm.who \notin Persons
      BY <1>0, <2>2 DEF Form, NoForm, Persons
    <3>2. file'.forms[i].who = file.forms[i].who
      BY <1>0, <2>1, <2>2 DEF Form
    <3>3. QED
      BY <3>1, <3>2
  <2>3. QED
    BY <2>1, <2>2, SteadyEnd
<1>5. ASSUME NEW s \in Sessions, BeginTransition(s)  PROVE SteadyInv'
  <2>1. Complete
    BY <1>5, CountedMeansAll DEF BeginTransition, SteadyInv, Complete
  <2>2. QED
    BY <1>5, <2>1, SteadyBegin DEF BeginTransition
<1>6. ASSUME NEW s \in Sessions, CommitTransition(s)  PROVE SteadyInv'
  <2>1. /\ file'.roster = file.roster /\ file'.forms = file.forms
        /\ tx' = [tx EXCEPT ![s] = Idle]
    BY <1>0, <1>6 DEF CommitTransition, End, FileType
  <2>2. QED
    BY <2>1, SteadyEnd
<1>7. ASSUME NEW s \in Sessions,
             \/ \E n \in Indexes : BeginCoreData(s, n)
             \/ \E k \in Indexes : BeginRemove(s, k)
             \/ CommitCoreData(s) \/ CommitRemove(s)
      PROVE  FALSE
  <2>1. ASSUME NEW n \in Indexes, BeginCoreData(s, n)  PROVE FALSE
    BY <2>1 DEF BeginCoreData, Begin, PeopleStay
  <2>2. ASSUME NEW k \in Indexes, BeginRemove(s, k)  PROVE FALSE
    BY <2>2 DEF BeginRemove, Begin, PeopleStay
  <2>3. ASSUME tx[s].op \in {"coreData", "remove"}  PROVE FALSE
    <3>1. Idle.op = "none" /\ tx[s] # Idle
      BY <2>3 DEF Idle
    <3>2. tx[s].op \in Endpoints
      BY <3>1 DEF SteadyInv, PositionsStand
    <3>3. QED
      BY <2>3, <3>2 DEF PeopleStay
  <2>4. QED
    BY <1>7, <2>1, <2>2, <2>3 DEF CommitCoreData, CommitRemove, End
<1>8. ASSUME NEW s \in Sessions, Rollback(s)  PROVE SteadyInv'
  BY <1>8, SteadyEnd DEF Rollback
<1>9. ASSUME NEW st \in Stages, Elsewhere(st)  PROVE SteadyInv'
  <2>1. file'.roster = file.roster /\ file'.forms = file.forms /\ tx' = tx
    BY <1>0, <1>9 DEF Elsewhere, FileType
  <2>2. Required(file') = Required(file) /\ Submitted(file') = Submitted(file)
    BY <2>1 DEF Required, Submitted
  <2>3. QED
    BY <2>1, <2>2 DEF SteadyInv, NoFormIsNobodys, PositionsStand, Complete
<1>10. CASE UNCHANGED <<file, tx>>
  BY <1>10 DEF SteadyInv, NoFormIsNobodys, PositionsStand, Complete
<1>11. QED
  BY <1>1, <1>2, <1>3, <1>4, <1>5, <1>6, <1>7, <1>8, <1>9, <1>10
  DEF Next, vars, LoadPage

\* The invariant, for the two theorems below.
LEMMA SteadyInvariant ==
    ASSUME PeopleStay
    PROVE  Spec => [](TypeOK /\ SteadyInv)
<1>1. Init => SteadyInv
  <2> SUFFICES ASSUME Init  PROVE SteadyInv
    OBVIOUS
  <2>1. NoFormIsNobodys
    BY InitForms DEF RowsInv
  <2>2. QED
    BY <2>1 DEF Init, SteadyInv, PositionsStand, Idle
<1>2. TypeOK /\ SteadyInv /\ [Next]_vars => SteadyInv'
  BY SteadyStep
<1>3. QED
  BY <1>1, <1>2, TypeInvariant, PTL DEF Spec

\* While nobody is entered or removed by the admin, no form is filed under a
\* position nobody has, however many requests are under way at a time ...
THEOREM FormsAreSomebodysMeanwhile ==
    ASSUME PeopleStay
    PROVE  Spec => []NoFormIsNobodys
<1>1. SteadyInv => NoFormIsNobodys
  BY DEF SteadyInv
<1>2. QED
  BY <1>1, SteadyInvariant, PTL

\* ... and the count of forms at the gate means a form for each person, also
\* when the hand-off commits.
THEOREM GateMeansFormsMeanwhile ==
    ASSUME PeopleStay
    PROVE  Spec => LeavesWithForms
<1>1. ASSUME TypeOK, SteadyInv, [Next]_vars, GatePasses
      PROVE  \A i \in 1..Required(file) : file.forms[i] # NoForm
  <2>1. \E s \in Sessions : tx[s].op = "transition"
    BY <1>1, GateIsTransition DEF CommitTransition, End
  <2>2. QED
    BY <1>1, <2>1 DEF SteadyInv, Complete, Submitted
<1>2. TypeOK /\ SteadyInv /\ [Next]_vars =>
        [file.stage = "DOC_PROCESS" /\ file'.stage = "SEC_POOL" =>
           \A i \in 1..Required(file) : file.forms[i] # NoForm]_vars
  BY <1>1 DEF GatePasses
<1>3. QED
  BY <1>2, SteadyInvariant, PTL DEF Spec, LeavesWithForms
=============================================================================
