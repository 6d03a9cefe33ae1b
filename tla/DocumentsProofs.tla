-------------------------- MODULE DocumentsProofs --------------------------
(***************************************************************************)
(* What the run of the documents shows, for any cards, file types and      *)
(* statuses, any number of documents, requests and status changes, and     *)
(* whatever the object store does.                                         *)
(***************************************************************************)
EXTENDS CaseDocuments, SequenceTheorems, TLAPS

\* The file type of a card is a file type.
LEMMA CardTypeIsType == \A c \in Cards : Catalog[c].type \in FileTypes
BY ScopeAssumption DEF FileTypes

\* A row is a row, or there is none.
LEMMA LiveIsRow ==
    ASSUME TypeOK, NEW d \in Live
    PROVE  d \in Ids /\ docs[d] \in Row
BY DEF TypeOK, Live

\* What a session has under way, by the name of its operation.
LEMMA TxByOp ==
    ASSUME TypeOK, NEW s \in Sessions
    PROVE  /\ tx[s].op = "upload" =>
                tx[s].by \in Actors /\ tx[s].type \in FileTypes
                /\ tx[s].card \in Cards \cup {"NONE"}
           /\ tx[s].op = "status" =>
                tx[s].card \in Cards /\ tx[s].status \in Statuses
                /\ tx[s].read \in Statuses \cup {"NONE"}
           /\ tx[s].op = "deliver" => tx[s].files \subseteq Delivery
           /\ tx[s].op = "appointment" =>
                tx[s].link \in BOOLEAN /\ tx[s].key \in Ids /\ tx[s].feeKey \in Ids \cup {0}
<1>1. tx[s] \in TxType \cup {Idle}
  BY DEF TypeOK
<1>2. QED
  BY <1>1 DEF TxType, Idle

\* Inserting rows leaves every id with a row or none.
LEMMA InsertTypes ==
    ASSUME TypeOK, NEW rows \in Seq(Row), Insert(rows)
    PROVE  docs' \in [Ids -> Row \cup {Absent}] /\ minted' \in 0..MaxDocs
<1>1. Len(rows) \in Nat /\ minted \in Nat
  BY DEF TypeOK
<1>2. minted' \in 0..MaxDocs
  BY <1>1, ScopeAssumption DEF Insert, TypeOK
<1>3. ASSUME NEW d \in Ids, d \in minted + 1 .. minted + Len(rows)
      PROVE  rows[d - minted] \in Row
  <2>1. d - minted \in 1 .. Len(rows)
    BY <1>1, <1>3
  <2>2. QED
    BY <2>1
<1>4. QED
  BY <1>2, <1>3 DEF Insert, TypeOK

\* Sequences of one and of two.
LEMMA OneOrTwo ==
    ASSUME NEW S, NEW x \in S, NEW y \in S
    PROVE  <<>> \in Seq(S) /\ <<x>> \in Seq(S) /\ <<x, y>> \in Seq(S)
OBVIOUS

LEMMA AppendToOne == \A x, y : Append(<<x>>, y) = <<x, y>>
<1> SUFFICES ASSUME NEW x, NEW y  PROVE Append(<<x>>, y) = <<x, y>>
  OBVIOUS
<1>1. <<x>> \in Seq({x, y}) /\ <<x, y>> \in Seq({x, y}) /\ y \in {x, y}
  BY OneOrTwo
<1>2. Append(<<x>>, y) \in Seq({x, y}) /\ Len(Append(<<x>>, y)) = 2
      /\ Append(<<x>>, y)[1] = x /\ Append(<<x>>, y)[2] = y
  BY <1>1, AppendProperties
<1>3. Len(<<x, y>>) = 2 /\ <<x, y>>[1] = x /\ <<x, y>>[2] = y
  OBVIOUS
<1>4. \A i \in 1 .. 2 : Append(<<x>>, y)[i] = <<x, y>>[i]
  <2>1. \A i \in 1 .. 2 : i = 1 \/ i = 2
    OBVIOUS
  <2>2. QED
    BY <1>2, <1>3, <2>1, Zenon
<1>5. QED
  BY <1>1, <1>2, <1>3, <1>4, SeqEqual, Zenon

\* The steps of a card a request leaves behind.
LEMMA CardStepsCases ==
    ASSUME NEW t, t.status \in Statuses, t.read \in Statuses \cup {"NONE"}
    PROVE  \/ t.read = t.status /\ CardSteps(t) = <<>>
           \/ /\ t.read = "NONE" /\ t.status = "HAZIRLANIYOR"
              /\ CardSteps(t) = <<[before |-> "NONE", after |-> "HAZIRLANIYOR"]>>
           \/ /\ t.read # "NONE" /\ t.read # t.status
              /\ CardSteps(t) = <<[before |-> t.read, after |-> t.status]>>
           \/ /\ t.read = "NONE" /\ t.status # "HAZIRLANIYOR"
              /\ CardSteps(t) = <<[before |-> "NONE", after |-> "HAZIRLANIYOR"],
                                  [before |-> "HAZIRLANIYOR", after |-> t.status]>>
<1> USE ScopeAssumption
<1>1. CASE t.read = "NONE" /\ t.status = "HAZIRLANIYOR"
  BY <1>1 DEF CardSteps
<1>2. CASE t.read = "NONE" /\ t.status # "HAZIRLANIYOR"
  <2>1. CardSteps(t) = Append(<<[before |-> "NONE", after |-> "HAZIRLANIYOR"]>>,
                              [before |-> "HAZIRLANIYOR", after |-> t.status])
    BY <1>2 DEF CardSteps
  <2>2. CardSteps(t) = <<[before |-> "NONE", after |-> "HAZIRLANIYOR"],
                         [before |-> "HAZIRLANIYOR", after |-> t.status]>>
    BY <2>1, AppendToOne
  <2>3. QED
    BY <1>2, <2>2
<1>3. CASE t.read # "NONE" /\ t.read = t.status
  BY <1>3 DEF CardSteps
<1>4. CASE t.read # "NONE" /\ t.read # t.status
  <2>1. CardSteps(t) = Append(<<>>, [before |-> t.read, after |-> t.status])
    BY <1>4 DEF CardSteps
  <2>2. QED
    BY <1>4, <2>1
<1>5. QED
  BY <1>1, <1>2, <1>3, <1>4

\* They are steps.
LEMMA CardStepsType ==
    ASSUME NEW t, t.status \in Statuses, t.read \in Statuses \cup {"NONE"}
    PROVE  CardSteps(t) \in Seq(Step)
<1>1. /\ [before |-> "NONE", after |-> "HAZIRLANIYOR"] \in Step
      /\ [before |-> "HAZIRLANIYOR", after |-> t.status] \in Step
      /\ [before |-> t.read, after |-> t.status] \in Step
  BY ScopeAssumption DEF Step
<1> HIDE DEF Step
<1>2. QED
  BY <1>1, CardStepsCases, OneOrTwo, Zenon

\* The linked file's row is a row, or none is needed.
LEMMA LinkedCopyType ==
    ASSUME TypeOK, NEW key \in Ids \cup {0}, NEW type \in SharedTypes, NEW by \in Staffers
    PROVE  /\ LinkedCopy(key, type, by) \in Seq(Row)
           /\ Len(LinkedCopy(key, type, by)) \in 0 .. 1
           /\ key = 0 => LinkedCopy(key, type, by) = <<>>
           /\ \A i \in 1 .. Len(LinkedCopy(key, type, by)) :
                 LinkedCopy(key, type, by)[i] =
                    [file |-> Linked, type |-> type, card |-> "NONE", by |-> by, key |-> key]
<1>1. Catalog.RANDEVU_ONAYI.type = "APPOINTMENT_CONFIRMATION"
      /\ Catalog.VIZE_HARCI_SERVIS_BEDELI_DEKONTU.type = "VISA_FEE_RECEIPT"
  BY DEF Catalog, Card
<1>2. type \in FileTypes
  BY <1>1 DEF SharedTypes, FileTypes, Catalog
<1>3. CASE LinkedCopy(key, type, by) = <<>>
  BY <1>3
<1>4. CASE LinkedCopy(key, type, by) # <<>>
  <2>1. /\ key # 0
        /\ LinkedCopy(key, type, by) =
             <<[file |-> Linked, type |-> type, card |-> "NONE", by |-> by, key |-> key]>>
    BY <1>4 DEF LinkedCopy
  <2>2. [file |-> Linked, type |-> type, card |-> "NONE", by |-> by, key |-> key] \in Row
    BY <1>2, <2>1 DEF Row, Actors
  <2>3. QED
    BY <2>1, <2>2
<1>5. QED
  BY <1>3, <1>4

\* The rows a commit of the appointment adds.
SharedRows(t, by) == LinkedCopy(t.key, "APPOINTMENT_CONFIRMATION", by)
                     \o LinkedCopy(t.feeKey, "VISA_FEE_RECEIPT", by)

\* They are rows of the linked file for the objects of the case's papers.
LEMMA SharedRowsAre ==
    ASSUME TypeOK, NEW s \in Sessions, tx[s].op = "appointment", NEW by \in Staffers
    PROVE  /\ SharedRows(tx[s], by) \in Seq(Row)
           /\ \A i \in 1 .. Len(SharedRows(tx[s], by)) :
                LET r == SharedRows(tx[s], by)[i]
                IN  /\ r.file = Linked /\ r.card = "NONE" /\ r.type \in SharedTypes
                    /\ r.key \in {tx[s].key, tx[s].feeKey} \ {0}
<1> DEFINE a == LinkedCopy(tx[s].key, "APPOINTMENT_CONFIRMATION", by)
           b == LinkedCopy(tx[s].feeKey, "VISA_FEE_RECEIPT", by)
<1>1. tx[s].key \in Ids /\ tx[s].feeKey \in Ids \cup {0}
  BY TxByOp
<1>2. /\ a \in Seq(Row) /\ Len(a) \in 0 .. 1
      /\ \A i \in 1 .. Len(a) : a[i] = [file |-> Linked, type |-> "APPOINTMENT_CONFIRMATION",
                                        card |-> "NONE", by |-> by, key |-> tx[s].key]
  BY <1>1, LinkedCopyType DEF SharedTypes
<1>3. /\ b \in Seq(Row) /\ Len(b) \in 0 .. 1 /\ (tx[s].feeKey = 0 => b = <<>>)
      /\ \A i \in 1 .. Len(b) : b[i] = [file |-> Linked, type |-> "VISA_FEE_RECEIPT",
                                        card |-> "NONE", by |-> by, key |-> tx[s].feeKey]
  BY <1>1, LinkedCopyType DEF SharedTypes
<1> HIDE DEF a, b
<1>4. /\ a \o b \in Seq(Row) /\ Len(a \o b) = Len(a) + Len(b)
      /\ \A i \in 1 .. Len(a) + Len(b) :
            (a \o b)[i] = IF i <= Len(a) THEN a[i] ELSE b[i - Len(a)]
  BY <1>2, <1>3, ConcatProperties
<1>5. ASSUME NEW i \in 1 .. Len(a \o b)
      PROVE  /\ (a \o b)[i].file = Linked /\ (a \o b)[i].card = "NONE"
             /\ (a \o b)[i].type \in SharedTypes
             /\ (a \o b)[i].key \in {tx[s].key, tx[s].feeKey} \ {0}
  <2>1. CASE i <= Len(a)
    BY <1>1, <1>2, <1>4, <2>1 DEF SharedTypes, Ids
  <2>2. CASE ~(i <= Len(a))
    <3>1. i - Len(a) \in 1 .. Len(b) /\ tx[s].feeKey # 0
      BY <1>2, <1>3, <1>4, <2>2
    <3>2. QED
      BY <1>3, <1>4, <2>2, <3>1 DEF SharedTypes
  <2>3. QED
    BY <2>1, <2>2
<1>6. SharedRows(tx[s], by) = a \o b
  BY DEF SharedRows, a, b
<1>7. QED
  BY <1>4, <1>5, <1>6

-----------------------------------------------------------------------------
\* A request that begins leaves everything else alone.
LEMMA BeginTypes ==
    ASSUME TypeOK, NEW s \in Sessions, NEW t \in TxType, Begin(s, t)
    PROVE  TypeOK'
<1>1. tx' \in [Sessions -> TxType \cup {Idle}]
  BY DEF Begin, TypeOK
<1>2. QED
  BY <1>1 DEF Begin, TypeOK, store, board, crm

\* A request that ends leaves its session idle.
LEMMA EndTypes ==
    ASSUME TypeOK, NEW s \in Sessions, NEW op, End(s, op)
    PROVE  tx' \in [Sessions -> TxType \cup {Idle}]
BY DEF End, TypeOK

\* Every step keeps the types.
LEMMA TypeStep == TypeOK /\ [Next]_dvars => TypeOK'
<1> SUFFICES ASSUME TypeOK, [Next]_dvars
             PROVE  TypeOK'
  OBVIOUS
<1> USE ScopeAssumption
<1>1. ASSUME NEW s \in Sessions, NEW by \in Uploaders, NEW type \in Types,
             NEW card \in Cards \cup {"NONE"}, BeginUpload(s, by, type, card)
      PROVE  TypeOK'
  <2>1. [op |-> "upload", by |-> by, type |-> type, card |-> card] \in TxType
    BY DEF TxType
  <2>2. QED
    BY <1>1, <2>1, BeginTypes DEF BeginUpload
<1>2. ASSUME NEW s \in Sessions, NEW c \in Cards, NEW st \in Statuses, BeginStatus(s, c, st)
      PROVE  TypeOK'
  <2>1. [op |-> "status", card |-> c, status |-> st, read |-> items[c]] \in TxType
    BY DEF TxType, TypeOK
  <2>2. QED
    BY <1>2, <2>1, BeginTypes DEF BeginStatus
<1>3. ASSUME NEW s \in Sessions, BeginDeliver(s)  PROVE TypeOK'
  <2>1. [op |-> "deliver", files |-> Package] \in TxType
    BY DEF TxType, Package
  <2>2. QED
    BY <1>3, <2>1, BeginTypes DEF BeginDeliver
<1>4. ASSUME NEW s \in Sessions, NEW d \in Ids, NEW fee \in Ids \cup {0},
             NEW link \in BOOLEAN, BeginAppointment(s, d, fee, link)
      PROVE  TypeOK'
  <2>1. d \in Live /\ (fee # 0 => fee \in Live)
    BY <1>4 DEF BeginAppointment, OfType, CaseDocs, Ids
  <2>2. docs[d].key \in Ids /\ (fee # 0 => docs[fee].key \in Ids)
    BY <2>1, LiveIsRow DEF Row
  <2>3. [op |-> "appointment", link |-> link, key |-> docs[d].key,
         feeKey |-> IF fee = 0 THEN 0 ELSE docs[fee].key] \in TxType
    BY <2>2 DEF TxType
  <2>4. QED
    BY <1>4, <2>3, BeginTypes DEF BeginAppointment
<1>5. ASSUME NEW s \in Sessions, CommitUpload(s)  PROVE TypeOK'
  <2>1. minted + 1 \in Ids
    BY <1>5 DEF CommitUpload, Insert, TypeOK, Ids
  <2> DEFINE row == [file |-> "case", type |-> tx[s].type, card |-> tx[s].card,
                     by |-> tx[s].by, key |-> minted + 1]
  <2>2. row \in Row
    BY <1>5, <2>1, TxByOp DEF Row, CommitUpload, End
  <2> HIDE DEF row
  <2>3. Insert(<<row>>) /\ <<row>> \in Seq(Row)
    BY <1>5, <2>2 DEF CommitUpload, row
  <2>4. docs' \in [Ids -> Row \cup {Absent}] /\ minted' \in 0..MaxDocs
    BY <2>3, InsertTypes
  <2>5. tx' \in [Sessions -> TxType \cup {Idle}]
    BY <1>5, EndTypes DEF CommitUpload
  <2>6. QED
    BY <1>5, <2>4, <2>5 DEF CommitUpload, TypeOK, board, crm
<1>6. ASSUME NEW s \in Sessions, CommitStatus(s)  PROVE TypeOK'
  <2>1. tx[s].op = "status"
    BY <1>6 DEF CommitStatus, End
  <2>2. /\ tx[s].card \in Cards /\ tx[s].status \in Statuses
        /\ CardSteps(tx[s]) \in Seq(Step) /\ cardTrail[tx[s].card] \in Seq(Step)
    BY <2>1, TxByOp, CardStepsType DEF TypeOK
  <2>3. cardTrail[tx[s].card] \o CardSteps(tx[s]) \in Seq(Step)
    BY <2>2, ConcatProperties
  <2>4. cardTrail' \in [Cards -> Seq(Step)]
    BY <1>6, <2>3 DEF CommitStatus, TypeOK
  <2>5. items' \in [Cards -> Statuses \cup {"NONE"}]
    BY <1>6, <2>2 DEF CommitStatus, TypeOK
  <2>6. tx' \in [Sessions -> TxType \cup {Idle}]
    BY <1>6, EndTypes DEF CommitStatus
  <2>7. QED
    BY <1>6, <2>4, <2>5, <2>6 DEF CommitStatus, TypeOK, store, crm
<1>7. ASSUME NEW s \in Sessions, CommitDeliver(s)  PROVE TypeOK'
  <2>1. delivered' \subseteq Delivery
    BY <1>7, TxByOp DEF CommitDeliver, End
  <2>2. tx' \in [Sessions -> TxType \cup {Idle}]
    BY <1>7, EndTypes DEF CommitDeliver
  <2>3. QED
    BY <1>7, <2>1, <2>2 DEF CommitDeliver, TypeOK, store, board, crm
<1>8. ASSUME NEW s \in Sessions, NEW by \in Staffers, CommitAppointment(s, by)  PROVE TypeOK'
  <2>1. tx[s].op = "appointment"
    BY <1>8 DEF CommitAppointment, End
  <2>2. tx[s].link => Insert(SharedRows(tx[s], by))
    BY <1>8 DEF CommitAppointment, SharedRows
  <2>3. docs' \in [Ids -> Row \cup {Absent}] /\ minted' \in 0..MaxDocs
    <3>1. CASE tx[s].link
      BY <2>1, <2>2, <3>1, SharedRowsAre, InsertTypes
    <3>2. CASE ~tx[s].link
      BY <1>8, <3>2 DEF CommitAppointment, TypeOK
    <3>3. QED
      BY <3>1, <3>2
  <2>4. tx' \in [Sessions -> TxType \cup {Idle}]
    BY <1>8, EndTypes DEF CommitAppointment
  <2>5. QED
    BY <1>8, <2>3, <2>4 DEF CommitAppointment, Record, TypeOK, board
<1>9. ASSUME NEW s \in Sessions, Rollback(s)  PROVE TypeOK'
  BY <1>9 DEF Rollback, TypeOK, store, board, crm
<1>10. ASSUME NEW k \in Ids, Storage(k)  PROVE TypeOK'
  BY <1>10 DEF Storage, Put, DeleteObject, CleanupLost, TypeOK, board, crm
<1>11. ASSUME NEW d \in Ids, Remove(d)  PROVE TypeOK'
  <2>1. docs[d].key \in Ids
    BY <1>11, LiveIsRow DEF Remove, Row
  <2>2. QED
    BY <1>11, <2>1 DEF Remove, TypeOK, board, crm
<1>12. ASSUME NEW p \in Plans, Crm(p)  PROVE TypeOK'
  BY <1>12 DEF Crm, Reimport, UpdateCrm, Record, TypeOK, store, board
<1>13. CASE UNCHANGED dvars
  BY <1>13 DEF dvars, store, board, crm, TypeOK
<1>14. QED
  BY <1>1, <1>2, <1>3, <1>4, <1>5, <1>6, <1>7, <1>8, <1>9, <1>10, <1>11, <1>12, <1>13
     DEF Next, Request, Commit

\* The documents begin well typed.
LEMMA InitTypes == Init => TypeOK
<1> SUFFICES ASSUME Init  PROVE TypeOK
  OBVIOUS
<1>1. docs \in [Ids -> Row \cup {Absent}] /\ minted \in 0..MaxDocs
  BY ScopeAssumption DEF Init
<1>2. cardTrail \in [Cards -> Seq(Step)]
  BY DEF Init
<1>3. tx \in [Sessions -> TxType \cup {Idle}] /\ items \in [Cards -> Statuses \cup {"NONE"}]
  BY ScopeAssumption DEF Init
<1>4. QED
  BY <1>1, <1>2, <1>3 DEF Init, TypeOK

\* Type correctness of documents, objects, cards, delivery and transactions.
THEOREM DocumentsTyped == Spec => []TypeOK
<1>1. QED
  BY InitTypes, TypeStep, PTL DEF Spec

-----------------------------------------------------------------------------
(***************************************************************************)
(* The trail of a card.                                                    *)
(***************************************************************************)
\* A trail that leads from a new card to a status.
NewCard == {"NONE", "HAZIRLANIYOR"}
Leads(trail, status) ==
    /\ IF trail = <<>> THEN status \in NewCard ELSE status = trail[Len(trail)].after
    /\ \A i \in 1..Len(trail) :
           IF i = 1 THEN trail[i].before \in NewCard
                    ELSE trail[i].before = trail[i - 1].after

\* A step from where the trail leads makes it lead one status further.
LEMMA LeadsOn ==
    ASSUME NEW trail \in Seq(Step), NEW status, Leads(trail, status),
           NEW step \in Step, step.before = status
    PROVE  Append(trail, step) \in Seq(Step) /\ Leads(Append(trail, step), step.after)
<1> DEFINE more == Append(trail, step)
<1>1. /\ more \in Seq(Step) /\ more # <<>> /\ Len(more) = Len(trail) + 1
      /\ Len(trail) \in Nat
      /\ \A i \in 1 .. Len(trail) : more[i] = trail[i]
      /\ more[Len(trail) + 1] = step
  BY AppendProperties
<1>2. trail = <<>> <=> Len(trail) = 0
  BY EmptySeq
<1> HIDE DEF more
<1>3. ASSUME NEW i \in 1 .. Len(more)
      PROVE  IF i = 1 THEN more[i].before \in NewCard
                      ELSE more[i].before = more[i - 1].after
  <2>1. CASE i \in 1 .. Len(trail)
    <3>1. more[i] = trail[i] /\ (i # 1 => more[i - 1] = trail[i - 1])
      BY <1>1, <2>1
    <3>2. QED
      BY <2>1, <3>1 DEF Leads
  <2>2. CASE i = Len(trail) + 1
    <3>1. CASE Len(trail) = 0
      BY <1>1, <1>2, <2>2, <3>1 DEF Leads
    <3>2. CASE Len(trail) # 0
      <4>1. /\ i # 1 /\ i - 1 = Len(trail) /\ Len(trail) \in 1 .. Len(trail)
        BY <1>1, <2>2, <3>2
      <4>2. more[i - 1] = trail[Len(trail)] /\ more[i] = step
        BY <1>1, <2>2, <4>1
      <4>3. QED
        BY <1>2, <3>2, <4>1, <4>2 DEF Leads
    <3>3. QED
      BY <3>1, <3>2
  <2>3. QED
    BY <1>1, <2>1, <2>2
<1>4. Leads(more, step.after)
  BY <1>1, <1>3 DEF Leads
<1>5. QED
  BY <1>1, <1>4 DEF more

\* Appending one step, and two.
LEMMA ConcatOne ==
    ASSUME NEW S, NEW q \in Seq(S), NEW x \in S
    PROVE  q \o <<x>> = Append(q, x)
OBVIOUS

LEMMA ConcatTwo ==
    ASSUME NEW S, NEW q \in Seq(S), NEW x \in S, NEW y \in S
    PROVE  q \o <<x, y>> = Append(Append(q, x), y)
<1>1. <<x, y>> \in Seq(S) /\ Len(<<x, y>>) = 2 /\ <<x, y>>[1] = x /\ <<x, y>>[2] = y
  OBVIOUS
<1>2. /\ q \o <<x, y>> \in Seq(S) /\ Len(q \o <<x, y>>) = Len(q) + 2
      /\ \A i \in 1 .. Len(q) + 2 :
           (q \o <<x, y>>)[i] = IF i <= Len(q) THEN q[i] ELSE <<x, y>>[i - Len(q)]
  BY <1>1, ConcatProperties
<1>3. /\ Append(q, x) \in Seq(S) /\ Len(Append(q, x)) = Len(q) + 1
      /\ \A i \in 1 .. Len(q) : Append(q, x)[i] = q[i]
      /\ Append(q, x)[Len(q) + 1] = x
  BY AppendProperties
<1>4. /\ Append(Append(q, x), y) \in Seq(S) /\ Len(Append(Append(q, x), y)) = Len(q) + 2
      /\ \A i \in 1 .. Len(q) + 1 : Append(Append(q, x), y)[i] = Append(q, x)[i]
      /\ Append(Append(q, x), y)[Len(q) + 2] = y
  <2>1. /\ Append(Append(q, x), y) \in Seq(S)
        /\ Len(Append(Append(q, x), y)) = Len(Append(q, x)) + 1
        /\ \A i \in 1 .. Len(Append(q, x)) : Append(Append(q, x), y)[i] = Append(q, x)[i]
        /\ Append(Append(q, x), y)[Len(Append(q, x)) + 1] = y
    BY <1>3, AppendProperties
  <2>2. Len(q) \in Nat /\ Len(Append(q, x)) + 1 = Len(q) + 2
    BY <1>3
  <2>3. QED
    BY <1>3, <2>1, <2>2
<1>5. ASSUME NEW i \in 1 .. Len(q) + 2
      PROVE  (q \o <<x, y>>)[i] = Append(Append(q, x), y)[i]
  <2>1. Len(q) \in Nat
    OBVIOUS
  <2>2. CASE i <= Len(q)
    BY <1>2, <1>3, <1>4, <2>1, <2>2
  <2>3. CASE i = Len(q) + 1
    BY <1>1, <1>2, <1>3, <1>4, <2>1, <2>3
  <2>4. CASE i = Len(q) + 2
    BY <1>1, <1>2, <1>4, <2>1, <2>4
  <2>5. QED
    BY <2>1, <2>2, <2>3, <2>4
<1>6. QED
  BY <1>2, <1>4, <1>5, SeqEqual

\* Where a commit's rows take the trail of a card.
LEMMA StatusLeads ==
    ASSUME TypeOK, CardTrailChain, NEW s \in Sessions, CommitStatus(s)
    PROVE  Leads(cardTrail[tx[s].card] \o CardSteps(tx[s]), items'[tx[s].card])
<1> DEFINE t == tx[s]
           trail == cardTrail[t.card]
<1>1. t.op = "status" /\ (t.read # t.status => items[t.card] = t.read)
  BY DEF CommitStatus, End, CardWhere
<1>2. /\ t.card \in Cards /\ t.status \in Statuses /\ t.read \in Statuses \cup {"NONE"}
      /\ trail \in Seq(Step)
  BY <1>1, TxByOp DEF TypeOK
<1>3. Leads(trail, items[t.card])
  BY <1>2 DEF CardTrailChain, Leads, NewCard
<1>4. items'[t.card] = IF t.read = t.status THEN items[t.card] ELSE t.status
  BY <1>2 DEF CommitStatus, TypeOK
<1> DEFINE made == [before |-> "NONE", after |-> "HAZIRLANIYOR"]
           rest == [before |-> "HAZIRLANIYOR", after |-> t.status]
           step == [before |-> t.read, after |-> t.status]
<1>5. made \in Step /\ rest \in Step /\ step \in Step
  BY <1>2, ScopeAssumption DEF Step
<1>6. /\ made.before = "NONE" /\ made.after = "HAZIRLANIYOR"
      /\ rest.before = "HAZIRLANIYOR" /\ rest.after = t.status
      /\ step.before = t.read /\ step.after = t.status
  OBVIOUS
<1>7. \/ t.read = t.status /\ CardSteps(t) = <<>>
      \/ t.read = "NONE" /\ t.status = "HAZIRLANIYOR" /\ CardSteps(t) = <<made>>
      \/ t.read # "NONE" /\ t.read # t.status /\ CardSteps(t) = <<step>>
      \/ t.read = "NONE" /\ t.status # "HAZIRLANIYOR" /\ CardSteps(t) = <<made, rest>>
  BY <1>2, CardStepsCases
<1>8. t.status # "NONE"
  BY <1>2, ScopeAssumption
<1> HIDE DEF made, rest, step, t, trail
<1>9. CASE t.read = t.status /\ CardSteps(t) = <<>>
  <2>1. trail \o <<>> = trail
    BY <1>2, ConcatEmptySeq
  <2>2. QED
    BY <1>3, <1>4, <1>9, <2>1 DEF t, trail
<1>10. CASE t.read = "NONE" /\ t.status = "HAZIRLANIYOR" /\ CardSteps(t) = <<made>>
  <2>1. items[t.card] = "NONE" /\ items'[t.card] = "HAZIRLANIYOR"
    BY <1>1, <1>4, <1>8, <1>10
  <2>2. trail \o <<made>> = Append(trail, made)
    BY <1>2, <1>5, ConcatOne
  <2>3. Leads(Append(trail, made), "HAZIRLANIYOR")
    BY <1>2, <1>3, <1>5, <1>6, <2>1, LeadsOn
  <2>4. QED
    BY <1>10, <2>1, <2>2, <2>3 DEF t, trail
<1>11. CASE t.read # "NONE" /\ t.read # t.status /\ CardSteps(t) = <<step>>
  <2>1. items[t.card] = t.read /\ items'[t.card] = t.status
    BY <1>1, <1>4, <1>11
  <2>2. trail \o <<step>> = Append(trail, step)
    BY <1>2, <1>5, ConcatOne
  <2>3. Leads(Append(trail, step), t.status)
    BY <1>2, <1>3, <1>5, <1>6, <2>1, LeadsOn
  <2>4. QED
    BY <1>11, <2>1, <2>2, <2>3 DEF t, trail
<1>12. CASE t.read = "NONE" /\ t.status # "HAZIRLANIYOR" /\ CardSteps(t) = <<made, rest>>
  <2>1. items[t.card] = "NONE" /\ items'[t.card] = t.status
    BY <1>1, <1>4, <1>8, <1>12
  <2>2. trail \o <<made, rest>> = Append(Append(trail, made), rest)
    BY <1>2, <1>5, ConcatTwo
  <2>3. Append(trail, made) \in Seq(Step) /\ Leads(Append(trail, made), "HAZIRLANIYOR")
    BY <1>2, <1>3, <1>5, <1>6, <2>1, LeadsOn
  <2>4. Leads(Append(Append(trail, made), rest), t.status)
    BY <1>5, <1>6, <2>3, LeadsOn
  <2>5. QED
    BY <1>12, <2>1, <2>2, <2>4 DEF t, trail
<1>13. QED
  BY <1>7, <1>9, <1>10, <1>11, <1>12 DEF t

\* A card's audit rows lead, without a gap, from its creation to its status,
\* however many requests race on it.
THEOREM CardTrailsChain == Spec => []CardTrailChain
<1>1. Init => CardTrailChain
  BY DEF Init, CardTrailChain
<1>2. TypeOK /\ CardTrailChain /\ [Next]_dvars => CardTrailChain'
  <2> SUFFICES ASSUME TypeOK, CardTrailChain, [Next]_dvars
               PROVE  CardTrailChain'
    OBVIOUS
  <2>1. ASSUME NEW s \in Sessions, CommitStatus(s)  PROVE CardTrailChain'
    <3>1. Leads(cardTrail[tx[s].card] \o CardSteps(tx[s]), items'[tx[s].card])
      BY <2>1, StatusLeads
    <3>2. /\ cardTrail' = [cardTrail EXCEPT ![tx[s].card] =
                             cardTrail[tx[s].card] \o CardSteps(tx[s])]
          /\ \A c \in Cards : c # tx[s].card => items'[c] = items[c]
      BY <2>1 DEF CommitStatus, TypeOK
    <3>3. ASSUME NEW c \in Cards  PROVE Leads(cardTrail'[c], items'[c])
      <4>1. CASE c = tx[s].card
        BY <3>1, <3>2, <4>1 DEF TypeOK
      <4>2. CASE c # tx[s].card
        <5>1. cardTrail'[c] = cardTrail[c] /\ items'[c] = items[c]
          BY <3>2, <4>2 DEF TypeOK
        <5>2. QED
          BY <5>1 DEF CardTrailChain, Leads, NewCard
      <4>3. QED
        BY <4>1, <4>2
    <3>4. QED
      BY <3>3 DEF CardTrailChain, Leads, NewCard
  <2>2. CASE UNCHANGED board
    BY <2>2 DEF CardTrailChain, board
  <2>3. QED
    BY <2>1, <2>2 DEF Next, Request, Commit, Storage, BeginUpload, BeginStatus, BeginDeliver,
       BeginAppointment, Begin, CommitUpload, CommitDeliver, CommitAppointment, Rollback,
       Put, DeleteObject, CleanupLost, Remove, dvars, Crm, Reimport, UpdateCrm
<1>3. QED
  BY <1>1, <1>2, DocumentsTyped, PTL DEF Spec

-----------------------------------------------------------------------------
(***************************************************************************)
(* The rows and the objects.  The ids above minted are unused; a key is    *)
(* the id of the row it was made for, and only the shared papers have more *)
(* than one row; what a card's row says fits the card.                     *)
(***************************************************************************)
RowFits(d) ==
    /\ d <= minted /\ docs[d].key <= minted
    /\ docs[d].type \notin SharedTypes => docs[d].key = d
    /\ docs[d].card # "NONE" =>
         docs[d].file = "case" /\ docs[d].type = Catalog[docs[d].card].type
    /\ ~opened /\ docs[d].file = "case" /\ docs[d].by = "CUSTOMER" =>
         docs[d].type = "PASSPORT"
RowsFit == \A d \in Live : RowFits(d)

KeysShared ==
    \A d, e \in Live : d # e /\ docs[d].key = docs[e].key => docs[d].type \in SharedTypes
CleanupMinted == \A k \in cleanup : k <= minted

\* What the requests under way have read stays good enough to be written.
UploadFits(t) ==
    /\ t.card # "NONE" => t.type = Catalog[t.card].type
    /\ ~opened /\ t.by = "CUSTOMER" => t.type = "PASSPORT"
SharingFits(t) ==
    \A k \in {t.key, t.feeKey} \ {0} :
        k <= minted /\ \A d \in Live : docs[d].key = k => docs[d].type \in SharedTypes
TxFits ==
    \A s \in Sessions : /\ tx[s].op = "upload" => UploadFits(tx[s])
                        /\ tx[s].op = "appointment" => SharingFits(tx[s])

RowInv == RowsFit /\ KeysShared /\ CleanupMinted /\ CleanupSparesRows /\ TxFits

\* A request that begins with what fits.
LEMMA BeginFits ==
    ASSUME TypeOK, RowInv, NEW s \in Sessions, NEW t, Begin(s, t),
           t.op = "upload" => UploadFits(t), t.op = "appointment" => SharingFits(t)
    PROVE  RowInv'
<1>1. tx' = [tx EXCEPT ![s] = t] /\ UNCHANGED <<docs, minted, cleanup, opened>>
  BY DEF Begin, store, crm
<1>2. RowsFit' /\ KeysShared' /\ CleanupMinted' /\ CleanupSparesRows'
  BY <1>1 DEF RowInv, RowsFit, RowFits, KeysShared, CleanupMinted, CleanupSparesRows, Live
<1>3. TxFits'
  <2>1. /\ \A u : UploadFits(u)' <=> UploadFits(u)
        /\ \A u : SharingFits(u)' <=> SharingFits(u)
    BY <1>1 DEF UploadFits, SharingFits, Live
  <2>2. ASSUME NEW q \in Sessions
        PROVE  /\ tx'[q].op = "upload" => UploadFits(tx'[q])
               /\ tx'[q].op = "appointment" => SharingFits(tx'[q])
    <3>1. tx'[q] = IF q = s THEN t ELSE tx[q]
      BY <1>1 DEF TypeOK
    <3>2. QED
      BY <3>1 DEF RowInv, TxFits
  <2>3. QED
    BY <2>1, <2>2 DEF TxFits
<1>4. QED
  BY <1>2, <1>3 DEF RowInv

\* Rows that go, and keys to be deleted that are none of the rows'.
LEMMA FewerRowsFit ==
    ASSUME TypeOK, RowInv, UNCHANGED <<minted, opened>>, Live' \subseteq Live,
           \A d \in Live' : docs'[d] = docs[d],
           \A k \in cleanup' : k <= minted,
           \A d \in Live' : docs[d].key \in cleanup' => docs[d].type \in SharedTypes,
           \A s \in Sessions : tx'[s] = tx[s] \/ tx'[s] = Idle
    PROVE  RowInv'
<1>1. RowsFit' /\ KeysShared' /\ CleanupMinted' /\ CleanupSparesRows'
  BY DEF RowInv, RowsFit, RowFits, KeysShared, CleanupMinted, CleanupSparesRows
<1>2. TxFits'
  <2> SUFFICES ASSUME NEW s \in Sessions
               PROVE  /\ tx'[s].op = "upload" => UploadFits(tx[s])'
                      /\ tx'[s].op = "appointment" => SharingFits(tx[s])'
    BY DEF TxFits
  <2>1. CASE tx'[s] = Idle
    BY <2>1 DEF Idle
  <2>2. CASE tx'[s] = tx[s]
    BY <2>2 DEF RowInv, TxFits, UploadFits, SharingFits
  <2>3. QED
    BY <2>1, <2>2
<1>3. QED
  BY <1>1, <1>2 DEF RowInv

\* Rows that come with new ids: a row with a key of its own, or rows of the
\* linked file with keys that all are shared.
LEMMA MoreRowsFit ==
    ASSUME TypeOK, RowInv, NEW rows \in Seq(Row), Insert(rows),
           UNCHANGED cleanup, opened' \in {opened, TRUE},
           \A s \in Sessions : tx'[s] = tx[s] \/ tx'[s] = Idle,
           \A i \in 1 .. Len(rows) :
               \/ /\ rows[i].key = minted + 1 /\ Len(rows) = 1
                  /\ rows[i].card # "NONE" =>
                        rows[i].file = "case" /\ rows[i].type = Catalog[rows[i].card].type
                  /\ ~opened' /\ rows[i].file = "case"
                       /\ rows[i].by = "CUSTOMER" => rows[i].type = "PASSPORT"
               \/ /\ rows[i].card = "NONE" /\ rows[i].file # "case"
                  /\ rows[i].type \in SharedTypes /\ rows[i].key <= minted
                  /\ \A d \in Live : docs[d].key = rows[i].key => docs[d].type \in SharedTypes
    PROVE  RowInv'
<1> DEFINE new == minted + 1 .. minted + Len(rows)
<1>n. minted \in Nat /\ Len(rows) \in Nat /\ minted' = minted + Len(rows)
  BY DEF TypeOK, Insert
<1>a. ~opened' => ~opened
  BY Zenon
<1>t. docs' \in [Ids -> Row \cup {Absent}]
  BY InsertTypes
<1>1. ASSUME NEW d \in Live'
      PROVE  /\ d \in Ids /\ docs'[d] \in Row
             /\ \/ d \in Live /\ d \notin new /\ docs'[d] = docs[d]
                \/ d \in new /\ d - minted \in 1 .. Len(rows) /\ docs'[d] = rows[d - minted]
  <2>1. d \in Ids /\ docs'[d] # Absent
    BY DEF Live
  <2>2. CASE d \in new
    BY <1>n, <1>t, <2>1, <2>2 DEF Insert
  <2>3. CASE d \notin new
    BY <1>t, <2>1, <2>3 DEF Insert, Live
  <2>4. QED
    BY <2>2, <2>3
<1>o. \A d \in Live : /\ RowFits(d) /\ d \in Ids /\ docs[d] \in Row
                      /\ docs[d].key \in Nat /\ docs[d].key < minted + 1
  BY <1>n, LiveIsRow DEF RowInv, RowsFit, RowFits, Row, Ids
<1> HIDE DEF new
<1>2. RowsFit'
  <2> SUFFICES ASSUME NEW d \in Live'  PROVE RowFits(d)'
    BY DEF RowsFit
  <2>1. CASE d \in Live /\ d \notin new /\ docs'[d] = docs[d]
    <3>1. /\ d \in Nat /\ docs[d].key \in Nat /\ d <= minted /\ docs[d].key <= minted
      BY <1>o, <2>1 DEF RowFits, Ids
    <3>2. d <= minted' /\ docs'[d].key <= minted'
      BY <1>n, <2>1, <3>1
    <3>3. QED
      BY <1>a, <1>o, <2>1, <3>2 DEF RowFits
  <2>2. CASE d \in new /\ d - minted \in 1 .. Len(rows) /\ docs'[d] = rows[d - minted]
    <3>1. d \in Nat /\ minted + 1 <= d /\ d <= minted'
      BY <1>n, <2>2 DEF new
    <3>2. docs'[d].key <= minted'
      <4>1. docs'[d].key \in Nat
        BY <1>1 DEF Row, Ids
      <4>2. \/ docs'[d].key = minted + 1 /\ Len(rows) = 1
            \/ docs'[d].key <= minted
        BY <2>2
      <4>3. CASE docs'[d].key = minted + 1 /\ Len(rows) = 1
        BY <1>n, <4>3
      <4>4. CASE docs'[d].key <= minted
        BY <1>n, <4>1, <4>4
      <4>5. QED
        BY <4>2, <4>3, <4>4
    <3>3. docs'[d].type \notin SharedTypes => docs'[d].key = d
      BY <1>n, <2>2, <3>1
    <3>4. /\ docs'[d].card # "NONE" =>
               docs'[d].file = "case" /\ docs'[d].type = Catalog[docs'[d].card].type
          /\ ~opened' /\ docs'[d].file = "case" /\ docs'[d].by = "CUSTOMER" =>
               docs'[d].type = "PASSPORT"
      BY <2>2
    <3>5. QED
      BY <3>1, <3>2, <3>3, <3>4 DEF RowFits
  <2>3. QED
    BY <1>1, <2>1, <2>2
<1>3. ASSUME NEW d \in Live', docs'[d].type \notin SharedTypes
      PROVE  /\ docs'[d].key \notin cleanup
             /\ \A e \in Live' : docs'[e].key = docs'[d].key => e = d
             /\ \A k \in Nat : k <= minted /\ (\A c \in Live : docs[c].key = k => docs[c].type \in SharedTypes)
                   => docs'[d].key # k
  <2>1. CASE d \in Live /\ d \notin new /\ docs'[d] = docs[d]
    <3>1. docs'[d].key \notin cleanup
      BY <1>3, <2>1 DEF RowInv, CleanupSparesRows
    <3>2. ASSUME NEW e \in Live', docs'[e].key = docs'[d].key, e # d  PROVE FALSE
      <4>1. CASE e \in Live /\ e \notin new /\ docs'[e] = docs[e]
        BY <1>3, <2>1, <3>2, <4>1 DEF RowInv, KeysShared
      <4>2. CASE e \in new /\ e - minted \in 1 .. Len(rows) /\ docs'[e] = rows[e - minted]
        BY <1>n, <1>o, <1>3, <2>1, <3>2, <4>2
      <4>3. QED
        BY <1>1, <4>1, <4>2
    <3>3. QED
      BY <1>3, <2>1, <3>1, <3>2
  <2>2. CASE d \in new /\ d - minted \in 1 .. Len(rows) /\ docs'[d] = rows[d - minted]
    <3>1. docs'[d].key = minted + 1 /\ Len(rows) = 1 /\ d = minted + 1
      BY <1>n, <1>3, <2>2 DEF new
    <3>2. docs'[d].key \notin cleanup
      BY <1>n, <3>1 DEF RowInv, CleanupMinted
    <3>3. ASSUME NEW e \in Live', docs'[e].key = docs'[d].key  PROVE e = d
      <4>1. CASE e \in Live /\ e \notin new /\ docs'[e] = docs[e]
        BY <1>o, <3>1, <3>3, <4>1, <1>n
      <4>2. CASE e \in new
        BY <1>n, <3>1, <4>2 DEF new
      <4>3. QED
        BY <1>1, <4>1, <4>2
    <3>4. QED
      BY <1>n, <3>1, <3>2, <3>3
  <2>3. QED
    BY <1>1, <2>1, <2>2
<1>4. KeysShared' /\ CleanupSparesRows'
  BY <1>3 DEF KeysShared, CleanupSparesRows
<1>5. CleanupMinted'
  BY <1>n DEF RowInv, CleanupMinted, TypeOK, Ids
<1>6. TxFits'
  <2> SUFFICES ASSUME NEW s \in Sessions
               PROVE  /\ tx'[s].op = "upload" => UploadFits(tx[s])'
                      /\ tx'[s].op = "appointment" => SharingFits(tx[s])'
    BY DEF TxFits
  <2>1. CASE tx'[s] = Idle
    BY <2>1 DEF Idle
  <2>2. CASE tx'[s] = tx[s]
    <3>1. tx'[s].op = "upload" => UploadFits(tx[s])'
      BY <1>a, <2>2 DEF RowInv, TxFits, UploadFits
    <3>2. ASSUME tx[s].op = "appointment"  PROVE SharingFits(tx[s])'
      <4>1. SharingFits(tx[s]) /\ tx[s].key \in Nat /\ tx[s].feeKey \in Nat
        BY <3>2, TxByOp DEF RowInv, TxFits, Ids
      <4>2. QED
        <5> SUFFICES ASSUME NEW k \in {tx[s].key, tx[s].feeKey} \ {0}
                     PROVE  k <= minted' /\ \A d \in Live' : docs'[d].key = k =>
                                                 docs'[d].type \in SharedTypes
          BY <2>2 DEF SharingFits
        <5>1. /\ k \in Nat /\ k <= minted
              /\ \A d \in Live : docs[d].key = k => docs[d].type \in SharedTypes
          BY <4>1 DEF SharingFits
        <5>2. k <= minted'
          BY <1>n, <5>1
        <5>3. QED
          BY <1>3, <5>1, <5>2
    <3>3. QED
      BY <2>2, <3>1, <3>2
  <2>3. QED
    BY <2>1, <2>2
<1>7. QED
  BY <1>2, <1>4, <1>5, <1>6 DEF RowInv

\* A file that was never open to the customer is PREPAID, without a date.
KeptLocked == opened \/ (plan = "PREPAID" /\ ~appointed)

LEMMA LockStep == KeptLocked /\ [Next]_dvars => KeptLocked'
<1> SUFFICES ASSUME KeptLocked, [Next]_dvars
             PROVE  KeptLocked'
  OBVIOUS
<1>1. ASSUME NEW s \in Sessions, Request(s) \/ Commit(s) \/ Rollback(s)  PROVE KeptLocked'
  <2>1. CASE UNCHANGED crm
    BY <2>1 DEF KeptLocked, crm
  <2>2. ASSUME NEW by, CommitAppointment(s, by)  PROVE KeptLocked'
    BY <2>2 DEF CommitAppointment, Record, KeptLocked
  <2>3. QED
    BY <1>1, <2>1, <2>2 DEF Request, Commit, Rollback, BeginUpload, BeginStatus, BeginDeliver,
       BeginAppointment, Begin, CommitUpload, CommitStatus, CommitDeliver
<1>2. ASSUME NEW k \in Ids, Storage(k) \/ Remove(k)  PROVE KeptLocked'
  BY <1>2 DEF Storage, Put, DeleteObject, CleanupLost, Remove, KeptLocked, crm
<1>3. ASSUME NEW p \in Plans, Crm(p)  PROVE KeptLocked'
  BY <1>3 DEF Crm, Reimport, UpdateCrm, Record, KeptLocked
<1>4. CASE UNCHANGED dvars
  BY <1>4 DEF dvars, crm, KeptLocked
<1>5. QED
  BY <1>1, <1>2, <1>3, <1>4 DEF Next

\* It is locked at every moment until it is opened.
LEMMA StaysKept == Spec => []KeptLocked
<1>1. Init => KeptLocked
  BY DEF Init, KeptLocked
<1>2. QED
  BY <1>1, LockStep, PTL DEF Spec

\* Every step keeps the rows, the keys and what is under way in order.
LEMMA RowStep == TypeOK /\ KeptLocked /\ RowInv /\ [Next]_dvars => RowInv'
<1> SUFFICES ASSUME TypeOK, KeptLocked, RowInv, [Next]_dvars
             PROVE  RowInv'
  OBVIOUS
<1>r. /\ \A d \in Live : RowFits(d)
      /\ \A s \in Sessions : /\ tx[s].op = "upload" => UploadFits(tx[s])
                             /\ tx[s].op = "appointment" => SharingFits(tx[s])
      /\ \A k \in cleanup : k <= minted
      /\ \A d \in Live : docs[d].key \in cleanup => docs[d].type \in SharedTypes
  BY DEF RowInv, RowsFit, TxFits, CleanupMinted, CleanupSparesRows
<1>1. ASSUME NEW s \in Sessions, NEW by, NEW type, NEW card, BeginUpload(s, by, type, card)
      PROVE  RowInv'
  <2> DEFINE t == [op |-> "upload", by |-> by, type |-> type, card |-> card]
  <2>1. UploadFits(t)
    BY <1>1 DEF BeginUpload, CardFits, UploadAllowed, UploadFits, KeptLocked
  <2>2. Begin(s, t) /\ t.op = "upload"
    BY <1>1 DEF BeginUpload
  <2> HIDE DEF t
  <2>3. QED
    BY <2>1, <2>2, BeginFits
<1>2. ASSUME NEW s \in Sessions, NEW c, NEW st, BeginStatus(s, c, st)  PROVE RowInv'
  <2> DEFINE t == [op |-> "status", card |-> c, status |-> st, read |-> items[c]]
  <2>1. Begin(s, t) /\ t.op = "status"
    BY <1>2 DEF BeginStatus
  <2> HIDE DEF t
  <2>2. QED
    BY <2>1, BeginFits
<1>3. ASSUME NEW s \in Sessions, BeginDeliver(s)  PROVE RowInv'
  <2> DEFINE t == [op |-> "deliver", files |-> Package]
  <2>1. Begin(s, t) /\ t.op = "deliver"
    BY <1>3 DEF BeginDeliver
  <2> HIDE DEF t
  <2>2. QED
    BY <2>1, BeginFits
<1>4. ASSUME NEW s \in Sessions, NEW d \in Ids, NEW fee \in Ids \cup {0},
             NEW link \in BOOLEAN, BeginAppointment(s, d, fee, link)
      PROVE  RowInv'
  <2> DEFINE t == [op |-> "appointment", link |-> link, key |-> docs[d].key,
                   feeKey |-> IF fee = 0 THEN 0 ELSE docs[fee].key]
  <2>1. ASSUME NEW e \in Live, docs[e].type \in SharedTypes
        PROVE  /\ docs[e].key <= minted
               /\ \A f \in Live : docs[f].key = docs[e].key => docs[f].type \in SharedTypes
    BY <1>r, <2>1 DEF RowInv, KeysShared, RowFits
  <2>2. /\ d \in Live /\ docs[d].type \in SharedTypes
        /\ fee # 0 => fee \in Live /\ docs[fee].type \in SharedTypes
    BY <1>4 DEF BeginAppointment, OfType, CaseDocs, SharedTypes
  <2>3. SharingFits(t)
    BY <2>1, <2>2 DEF SharingFits
  <2>4. Begin(s, t) /\ t.op = "appointment"
    BY <1>4 DEF BeginAppointment
  <2> HIDE DEF t
  <2>5. QED
    BY <2>3, <2>4, BeginFits
<1>e. ASSUME NEW s \in Sessions, NEW op, End(s, op)
      PROVE  \A q \in Sessions : tx'[q] = tx[q] \/ tx'[q] = Idle
  BY <1>e DEF End, TypeOK
<1>5. ASSUME NEW s \in Sessions, CommitUpload(s)  PROVE RowInv'
  <2> DEFINE row == [file |-> "case", type |-> tx[s].type, card |-> tx[s].card,
                     by |-> tx[s].by, key |-> minted + 1]
             rows == <<row>>
  <2>1. tx[s].op = "upload" /\ UNCHANGED <<cleanup, opened>> /\ Insert(rows)
        /\ minted + 1 \in Ids
    BY <1>5 DEF CommitUpload, End, Insert, TypeOK, Ids, crm
  <2>2. row \in Row
    BY <2>1, TxByOp DEF Row
  <2>3. /\ row.file = "case" /\ row.key = minted + 1
        /\ row.card # "NONE" => row.type = Catalog[row.card].type
        /\ ~opened' /\ row.by = "CUSTOMER" => row.type = "PASSPORT"
    BY <1>r, <2>1 DEF UploadFits
  <2> HIDE DEF row
  <2>4. rows \in Seq(Row) /\ Len(rows) = 1 /\ \A i \in 1 .. Len(rows) : rows[i] = row
    BY <2>2
  <2>5. \A q \in Sessions : tx'[q] = tx[q] \/ tx'[q] = Idle
    BY <1>5, <1>e DEF CommitUpload
  <2> HIDE DEF rows
  <2>6. QED
    BY <2>1, <2>3, <2>4, <2>5, MoreRowsFit
<1>6. ASSUME NEW s \in Sessions, NEW by \in Staffers, CommitAppointment(s, by), tx[s].link
      PROVE  RowInv'
  <2> DEFINE rows == SharedRows(tx[s], by)
  <2>1. tx[s].op = "appointment" /\ UNCHANGED cleanup /\ opened' \in {opened, TRUE} /\ Insert(rows)
    BY <1>6 DEF CommitAppointment, Record, TypeOK, End, SharedRows
  <2>2. /\ rows \in Seq(Row)
        /\ \A i \in 1 .. Len(rows) :
             /\ rows[i].file = Linked /\ rows[i].card = "NONE" /\ rows[i].type \in SharedTypes
             /\ rows[i].key \in {tx[s].key, tx[s].feeKey} \ {0}
    BY <2>1, SharedRowsAre
  <2>3. SharingFits(tx[s])
    BY <1>r, <2>1
  <2>4. \A q \in Sessions : tx'[q] = tx[q] \/ tx'[q] = Idle
    BY <1>6, <1>e DEF CommitAppointment
  <2> HIDE DEF rows
  <2>5. ASSUME NEW i \in 1 .. Len(rows)
        PROVE  /\ rows[i].card = "NONE" /\ rows[i].file # "case"
               /\ rows[i].type \in SharedTypes /\ rows[i].key <= minted
               /\ \A d \in Live : docs[d].key = rows[i].key => docs[d].type \in SharedTypes
    <3>1. /\ rows[i].file = Linked /\ rows[i].card = "NONE" /\ rows[i].type \in SharedTypes
          /\ rows[i].key \in {tx[s].key, tx[s].feeKey} \ {0}
      BY <2>2, Zenon
    <3>2. \A k \in {tx[s].key, tx[s].feeKey} \ {0} :
             k <= minted /\ \A d \in Live : docs[d].key = k => docs[d].type \in SharedTypes
      BY <2>3 DEF SharingFits
    <3>3. Linked # "case"
      BY ScopeAssumption, Zenon
    <3>4. QED
      BY <3>1, <3>2, <3>3, Zenon
  <2>6. QED
    BY <2>1, <2>2, <2>4, <2>5, MoreRowsFit
<1>7. ASSUME UNCHANGED <<docs, minted>>, opened' \in {opened, TRUE}, cleanup' \subseteq cleanup,
             \A q \in Sessions : tx'[q] = tx[q] \/ tx'[q] = Idle
      PROVE  RowInv'
  <2>1. ~opened' => ~opened
    BY <1>7, Zenon
  <2>2. RowsFit' /\ KeysShared' /\ CleanupMinted' /\ CleanupSparesRows'
    BY <1>7, <2>1
       DEF RowInv, RowsFit, RowFits, KeysShared, CleanupMinted, CleanupSparesRows, Live
  <2>3. ASSUME NEW q \in Sessions
        PROVE  /\ tx'[q].op = "upload" => UploadFits(tx[q])'
               /\ tx'[q].op = "appointment" => SharingFits(tx[q])'
    <3>1. CASE tx'[q] = Idle
      BY <3>1 DEF Idle
    <3>2. CASE tx'[q] = tx[q]
      BY <1>7, <2>1, <3>2 DEF RowInv, TxFits, UploadFits, SharingFits, Live
    <3>3. QED
      BY <1>7, <3>1, <3>2
  <2>4. QED
    BY <2>2, <2>3 DEF RowInv, TxFits
<1>8. ASSUME NEW s \in Sessions, NEW by \in Staffers, CommitAppointment(s, by), ~tx[s].link
      PROVE  RowInv'
  BY <1>7, <1>8, <1>e DEF CommitAppointment, Record, TypeOK
<1>9. ASSUME NEW s \in Sessions, CommitStatus(s) \/ CommitDeliver(s) \/ Rollback(s)
      PROVE  RowInv'
  <2>1. \A q \in Sessions : tx'[q] = tx[q] \/ tx'[q] = Idle
    BY <1>9, <1>e DEF CommitStatus, CommitDeliver, Rollback, TypeOK
  <2>2. QED
    BY <1>7, <1>9, <2>1 DEF CommitStatus, CommitDeliver, Rollback, store, crm
<1>10. ASSUME NEW k \in Ids, Storage(k)  PROVE RowInv'
  BY <1>7, <1>10 DEF Storage, Put, DeleteObject, CleanupLost, crm
<1>11. ASSUME NEW d \in Ids, Remove(d)  PROVE RowInv'
  <2>1. /\ d \in Live /\ UNCHANGED <<minted, opened, tx>>
        /\ cleanup' = cleanup \cup {docs[d].key} /\ Live' = Live \ {d}
        /\ \A e \in Live' : docs'[e] = docs[e]
    BY <1>11 DEF Remove, Live, TypeOK, crm
  <2>2. \A k \in cleanup' : k <= minted
    BY <1>r, <2>1 DEF RowFits
  <2>3. \A e \in Live' : docs[e].key \in cleanup' => docs[e].type \in SharedTypes
    BY <1>r, <2>1 DEF RowInv, KeysShared
  <2>4. QED
    BY <2>1, <2>2, <2>3, FewerRowsFit
<1>12. ASSUME NEW p \in Plans, Crm(p)  PROVE RowInv'
  BY <1>7, <1>12 DEF Crm, Reimport, UpdateCrm, Record, store, TypeOK
<1>13. CASE UNCHANGED dvars
  BY <1>7, <1>13 DEF dvars, store, crm
<1>14. QED
  BY <1>1, <1>2, <1>3, <1>4, <1>5, <1>6, <1>8, <1>9, <1>10, <1>11, <1>12, <1>13
     DEF Next, Request, Commit

\* The rows are in order at every moment.
LEMMA RowInvariant == Spec => []RowInv
<1>1. Init => RowInv
  BY DEF Init, RowInv, RowsFit, KeysShared, CleanupMinted, CleanupSparesRows, TxFits, Live,
     Idle
<1>2. QED
  BY <1>1, DocumentsTyped, StaysKept, RowStep, PTL DEF Spec

\* No clean-up takes the bytes of a document that is still listed, but for the
\* papers two files share.
THEOREM CleanupSpares == Spec => []CleanupSparesRows
<1>1. RowInv => CleanupSparesRows
  BY DEF RowInv
<1>2. QED
  BY <1>1, RowInvariant, PTL

\* A file that was PREPAID without an appointment all along holds nothing of
\* its customer's but passports, although the lock is looked at before the
\* transaction.
THEOREM PrepaidStaysLocked == Spec => []PrepaidLocked
<1>1. RowInv => PrepaidLocked
  BY DEF RowInv, RowsFit, RowFits, PrepaidLocked, CaseDocs
<1>2. QED
  BY <1>1, RowInvariant, PTL

-----------------------------------------------------------------------------
(***************************************************************************)
(* The delivery.                                                           *)
(***************************************************************************)
FilesFit(files) ==
    \A f \in files : /\ f.doc <= minted
                     /\ f.doc \in Live => /\ docs[f.doc].type = Catalog[f.card].type
                                          /\ docs[f.doc].file = "case"
PackagesFit ==
    \A s \in Sessions : tx[s].op = "deliver" => FilesFit(tx[s].files)
DeliveryInv == FilesFit(delivered) /\ PackagesFit

\* The package a delivery is about to hand out fits its cards.
LEMMA PackageFits ==
    ASSUME TypeOK, RowInv
    PROVE  FilesFit(Package)
<1> SUFFICES ASSUME NEW f \in Package
             PROVE  /\ f.doc <= minted
                    /\ docs[f.doc].type = Catalog[f.card].type /\ docs[f.doc].file = "case"
  BY DEF FilesFit
<1>1. f.doc \in CardDocument(f.card)
  BY DEF Package
<1>2. /\ f.doc \in CaseDocs
      /\ docs[f.doc].card = f.card \/ docs[f.doc].type = Catalog[f.card].type
  BY <1>1 DEF CardDocument, Newest, OfType
<1>3. f.card # "NONE"
  BY ScopeAssumption DEF Package, Delivery, Catalog
<1>4. QED
  BY <1>2, <1>3 DEF RowInv, RowsFit, RowFits, CaseDocs

\* No step changes a row that is there, or brings one back.
LEMMA RowsKept ==
    ASSUME TypeOK, [Next]_dvars
    PROVE  /\ minted <= minted'
           /\ \A d \in Ids : d <= minted /\ d \in Live' => d \in Live /\ docs'[d] = docs[d]
<1>n. minted \in Nat
  BY DEF TypeOK
<1>1. ASSUME NEW rows, Len(rows) \in Nat, Insert(rows)
      PROVE  /\ minted <= minted'
             /\ \A d \in Ids : d <= minted /\ d \in Live' => d \in Live /\ docs'[d] = docs[d]
  BY <1>n, <1>1 DEF Insert, Live, Ids
<1>2. ASSUME NEW s \in Sessions, CommitUpload(s)
      PROVE  /\ minted <= minted'
             /\ \A d \in Ids : d <= minted /\ d \in Live' => d \in Live /\ docs'[d] = docs[d]
  <2> DEFINE rows == <<[file |-> "case", type |-> tx[s].type, card |-> tx[s].card,
                        by |-> tx[s].by, key |-> minted + 1]>>
  <2>1. Insert(rows) /\ Len(rows) \in Nat
    BY <1>2 DEF CommitUpload
  <2> HIDE DEF rows
  <2>2. QED
    BY <1>1, <2>1
<1>3. ASSUME NEW s \in Sessions, NEW by \in Staffers, CommitAppointment(s, by), tx[s].link
      PROVE  /\ minted <= minted'
             /\ \A d \in Ids : d <= minted /\ d \in Live' => d \in Live /\ docs'[d] = docs[d]
  <2>1. Insert(SharedRows(tx[s], by)) /\ tx[s].op = "appointment"
    BY <1>3 DEF CommitAppointment, SharedRows, End
  <2>2. Len(SharedRows(tx[s], by)) \in Nat
    BY <2>1, SharedRowsAre
  <2>3. QED
    BY <1>1, <2>1, <2>2
<1>4. ASSUME NEW d \in Ids, Remove(d)
      PROVE  /\ minted <= minted'
             /\ \A e \in Ids : e <= minted /\ e \in Live' => e \in Live /\ docs'[e] = docs[e]
  BY <1>n, <1>4 DEF Remove, Live, TypeOK
<1>5. CASE UNCHANGED <<docs, minted>>
  BY <1>n, <1>5 DEF Live
<1>6. QED
  BY <1>2, <1>3, <1>4, <1>5 DEF Next, Request, Commit, Storage, BeginUpload, BeginStatus,
     BeginDeliver, BeginAppointment, Begin, CommitStatus, CommitDeliver, CommitAppointment,
     Rollback, Put, DeleteObject, CleanupLost, dvars, store, Crm, Reimport, UpdateCrm

\* What a step does to the package and the requests that deliver.
LEMMA DeliverMoves ==
    ASSUME TypeOK, [Next]_dvars
    PROVE  /\ delivered' = delivered
              \/ \E s \in Sessions : tx[s].op = "deliver" /\ delivered' = tx[s].files
           /\ \A s \in Sessions : tx'[s].op = "deliver" =>
                 \/ tx[s].op = "deliver" /\ tx'[s] = tx[s]
                 \/ tx'[s].files = Package
<1>1. ASSUME NEW s \in Sessions, NEW t, Begin(s, t),
             t.op = "deliver" => t.files = Package, NEW q \in Sessions
      PROVE  /\ delivered' = delivered
             /\ tx'[q].op = "deliver" =>
                   \/ tx[q].op = "deliver" /\ tx'[q] = tx[q]
                   \/ tx'[q].files = Package
  BY <1>1 DEF Begin, TypeOK
<1>2. ASSUME NEW s \in Sessions, Request(s), NEW q \in Sessions
      PROVE  /\ delivered' = delivered
             /\ tx'[q].op = "deliver" =>
                   \/ tx[q].op = "deliver" /\ tx'[q] = tx[q]
                   \/ tx'[q].files = Package
  <2>1. PICK t : Begin(s, t) /\ (t.op = "deliver" => t.files = Package)
    <3>1. ASSUME NEW by, NEW type, NEW card, BeginUpload(s, by, type, card)
          PROVE  \E t : Begin(s, t) /\ t.op # "deliver"
      <4> DEFINE t == [op |-> "upload", by |-> by, type |-> type, card |-> card]
      <4>1. Begin(s, t) /\ t.op # "deliver"
        BY <3>1 DEF BeginUpload
      <4>2. QED
        BY <4>1
    <3>2. ASSUME NEW c, NEW st, BeginStatus(s, c, st)
          PROVE  \E t : Begin(s, t) /\ t.op # "deliver"
      <4> DEFINE t == [op |-> "status", card |-> c, status |-> st, read |-> items[c]]
      <4>1. Begin(s, t) /\ t.op # "deliver"
        BY <3>2 DEF BeginStatus
      <4>2. QED
        BY <4>1
    <3>3. ASSUME BeginDeliver(s)
          PROVE  \E t : Begin(s, t) /\ t.files = Package
      <4> DEFINE t == [op |-> "deliver", files |-> Package]
      <4>1. Begin(s, t) /\ t.files = Package
        BY <3>3 DEF BeginDeliver
      <4>2. QED
        BY <4>1
    <3>4. ASSUME NEW d, NEW fee, NEW link, BeginAppointment(s, d, fee, link)
          PROVE  \E t : Begin(s, t) /\ t.op # "deliver"
      <4> DEFINE t == [op |-> "appointment", link |-> link, key |-> docs[d].key,
                       feeKey |-> IF fee = 0 THEN 0 ELSE docs[fee].key]
      <4>1. Begin(s, t) /\ t.op # "deliver"
        BY <3>4 DEF BeginAppointment
      <4>2. QED
        BY <4>1
    <3>5. QED
      BY <1>2, <3>1, <3>2, <3>3, <3>4, Zenon DEF Request
  <2>2. QED
    BY <1>1, <2>1
<1>3. ASSUME NEW s \in Sessions, Commit(s) \/ Rollback(s), NEW q \in Sessions
      PROVE  /\ delivered' = delivered
                \/ \E r \in Sessions : tx[r].op = "deliver" /\ delivered' = tx[r].files
             /\ tx'[q].op = "deliver" => tx[q].op = "deliver" /\ tx'[q] = tx[q]
  <2>1. tx' = [tx EXCEPT ![s] = Idle]
    BY <1>3 DEF Commit, CommitUpload, CommitStatus, CommitDeliver, CommitAppointment, End, Rollback
  <2>2. tx'[q].op = "deliver" => tx[q].op = "deliver" /\ tx'[q] = tx[q]
    BY <2>1 DEF TypeOK, Idle
  <2>3. delivered' = delivered \/ (tx[s].op = "deliver" /\ delivered' = tx[s].files)
    BY <1>3 DEF Commit, CommitUpload, CommitStatus, CommitDeliver, CommitAppointment, End, Rollback
  <2>4. QED
    BY <2>2, <2>3
<1>4. CASE UNCHANGED <<delivered, tx>>
  BY <1>4
<1>5. QED
  BY <1>2, <1>3, <1>4 DEF Next, Storage, Put, DeleteObject, CleanupLost, Remove, dvars, Crm,
     Reimport, UpdateCrm

\* Every step keeps what was handed out, and what is about to be, fitting.
LEMMA DeliveryStep == TypeOK /\ RowInv /\ DeliveryInv /\ [Next]_dvars => DeliveryInv'
<1> SUFFICES ASSUME TypeOK, RowInv, DeliveryInv, [Next]_dvars
             PROVE  DeliveryInv'
  OBVIOUS
<1>1. ASSUME NEW files, files \subseteq Delivery, FilesFit(files)
      PROVE  FilesFit(files)'
  <2> SUFFICES ASSUME NEW f \in files
               PROVE  /\ f.doc <= minted'
                      /\ f.doc \in Live' => /\ docs'[f.doc].type = Catalog[f.card].type
                                            /\ docs'[f.doc].file = "case"
    BY DEF FilesFit
  <2>1. f.doc \in Ids /\ f.doc \in Nat /\ f.doc <= minted /\ minted \in Nat
    BY <1>1 DEF FilesFit, Delivery, TypeOK, Ids
  <2>2. minted' \in Nat
    BY TypeStep DEF TypeOK
  <2>3. QED
    BY <1>1, <2>1, <2>2, RowsKept DEF FilesFit
<1>2. FilesFit(delivered)'
  <2>1. ASSUME delivered' = delivered  PROVE FilesFit(delivered)'
    BY <1>1, <2>1 DEF DeliveryInv, TypeOK, FilesFit
  <2>2. ASSUME NEW s \in Sessions, tx[s].op = "deliver", delivered' = tx[s].files
        PROVE  FilesFit(delivered)'
    <3>1. FilesFit(tx[s].files) /\ tx[s].files \subseteq Delivery
      BY <2>2, TxByOp DEF DeliveryInv, PackagesFit
    <3>2. \A f \in tx[s].files : /\ f.doc <= minted'
                                 /\ f.doc \in Live' => /\ docs'[f.doc].type = Catalog[f.card].type
                                                       /\ docs'[f.doc].file = "case"
      <4> DEFINE files == tx[s].files
      <4>1. \A f \in files : f.doc \in Ids /\ f.doc \in Nat /\ f.doc <= minted
        BY <3>1 DEF FilesFit, Delivery, Ids
      <4>2. minted \in Nat /\ minted' \in Nat
        BY TypeStep DEF TypeOK
      <4>3. QED
        BY <3>1, <4>1, <4>2, RowsKept DEF FilesFit
    <3>3. QED
      BY <2>2, <3>2 DEF FilesFit
  <2>3. QED
    BY <2>1, <2>2, DeliverMoves
<1>3. ASSUME NEW s \in Sessions, tx'[s].op = "deliver"
      PROVE  FilesFit(tx[s].files)'
  <2>1. /\ tx'[s].files \subseteq Delivery
        /\ FilesFit(tx'[s].files)
    BY <1>3, DeliverMoves, PackageFits, TxByOp DEF DeliveryInv, PackagesFit, Package
  <2>2. \A f \in tx'[s].files : f.doc \in Ids /\ f.doc \in Nat /\ f.doc <= minted
    BY <2>1 DEF FilesFit, Delivery, Ids
  <2>3. minted \in Nat /\ minted' \in Nat
    BY TypeStep DEF TypeOK
  <2>4. QED
    BY <2>1, <2>2, <2>3, RowsKept DEF FilesFit
<1>4. QED
  BY <1>2, <1>3 DEF DeliveryInv, PackagesFit

\* What was ever delivered under a card fits the card.
THEOREM DeliveryMatches == Spec => []DeliveredMatchesCard
<1>1. Init => DeliveryInv
  BY DEF Init, DeliveryInv, FilesFit, PackagesFit, Idle
<1>2. DeliveryInv => DeliveredMatchesCard
  BY DEF DeliveryInv, FilesFit, DeliveredMatchesCard
<1>3. QED
  BY <1>1, <1>2, DocumentsTyped, RowInvariant, DeliveryStep, PTL DEF Spec
=============================================================================
