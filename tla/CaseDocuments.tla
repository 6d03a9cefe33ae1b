---------------------------- MODULE CaseDocuments ----------------------------
(***************************************************************************)
(* The documents of one visa application: their rows in PostgreSQL, their  *)
(* bytes in the object store, the document-assistant cards and the package *)
(* delivered to the customer (DocumentsService, StorageService and         *)
(* updateDocAssistantStatus and deliverToCustomer of                       *)
(* VisaApplicationsService).                                               *)
(*                                                                         *)
(* The two stores share no transaction.  An upload inserts the row first   *)
(* and hands out a presigned URL; whoever holds the URL may PUT the bytes  *)
(* until it expires.  A removal deletes the row first and the object       *)
(* afterwards, at its best effort.                                         *)
(*                                                                         *)
(* As in AppWorkflow a handler is two actions, Begin<Op> that reads and    *)
(* checks and Commit<Op> that writes; anything may commit in between.      *)
(***************************************************************************)
EXTENDS Integers, Sequences, FiniteSets

CONSTANTS
    Cards,        \* the cards the instance works with
    Types,        \* the file types it uploads
    Statuses,     \* the card statuses it sets
    Plans,        \* the payment types it gives a CRM record
    Linked,       \* a file of the same customer that shares papers
    Sessions,     \* requests the server works on at the same time
    Uploaders,    \* the actors that upload
    Endpoints,    \* the operations the instance exercises
    MaxDocs,      \* bound: document rows ever created
    MaxSteps      \* bound: no status request begins on a card with that many
                  \* audit rows

(***************************************************************************)
(* DOC_ASSISTANT_CATALOG: constraint and file type of every card.          *)
(***************************************************************************)
Card(label, type) == [label |-> label, type |-> type]
Catalog ==
    [VIZE_DILEKCESI_NIYET_YAZISI |-> Card("ZORUNLU", "LETTER_OF_INTENT"),
     SEYAHAT_PLANI |-> Card("OPSIYONEL", "TRAVEL_PLAN"),
     UCAK_REZERVASYONU |-> Card("OPSIYONEL", "FLIGHT_HOTEL_RESERVATION"),
     OTEL_KONAKLAMA_REZERVASYONU |->
         Card("OPSIYONEL", "FLIGHT_HOTEL_RESERVATION"),
     SEYAHAT_SAGLIK_SIGORTASI |-> Card("ZORUNLU", "HEALTH_INSURANCE"),
     SPONSORLUK_YAZISI |-> Card("OPSIYONEL", "OTHER"),
     EK_TURISTIK_DESTEK_BELGELERI |-> Card("OPSIYONEL", "OTHER"),
     RANDEVU_ONAYI |-> Card("ZORUNLU", "APPOINTMENT_CONFIRMATION"),
     BASVURU_TESLIM_FORMU |-> Card("ZORUNLU", "CONSULATE_FORM"),
     VIZE_HARCI_SERVIS_BEDELI_DEKONTU |-> Card("OPSIYONEL", "VISA_FEE_RECEIPT"),
     KALAN_ODEME_DEKONTU |-> Card("SARTLI_ZORUNLU", "FINAL_RECEIPT"),
     VIZE_SONUC_BELGESI |-> Card("SUREC_SONU", "VISA_GRANT"),
     DIGER_EK_OPERASYON_BELGESI |-> Card("OPSIYONEL", "OTHER")]
FileTypes == {Catalog[c].type : c \in DOMAIN Catalog} \cup {"PASSPORT"}

Staffers == {"DOC", "ADMIN"}
Actors == Staffers \cup {"CUSTOMER", "SALES", "SEC"}
OpNames == {"upload", "remove", "status", "deliver", "appointment", "share",
            "crm", "import"}

ASSUME ScopeAssumption == /\ Cards \subseteq DOMAIN Catalog
                          /\ Types \subseteq FileTypes
                          /\ "HAZIRLANIYOR" \in Statuses
                          /\ "NONE" \notin Statuses
                          /\ Plans \subseteq {"NORMAL", "PREPAID"}
                          /\ Linked # "case"
                          /\ Endpoints \subseteq OpNames
                          /\ Uploaders \subseteq Actors
                          /\ MaxDocs \in Nat /\ MaxSteps \in Nat

VARIABLES
    docs,       \* the document rows, by id; ids grow with createdAt
    minted,     \* rows created so far, and so the last id handed out
    objects,    \* the keys the object store holds bytes for
    cleanup,    \* keys whose deleteObject is under way after the commit
    items,      \* status of each ApplicationDocAssistantItem, "NONE" if no row
    cardTrail,  \* per card the before/after of its audit rows, in order
    imported,   \* the file came from a workbook
    plan,       \* the payment type of the CRM record, "NONE" without a record
    appointed,  \* its appointment date is set
    opened,     \* history: the file was not PREPAID, or had a date, at some time
    delivered,  \* deliveredToCustomerFiles; {} until the first delivery
    tx          \* what the request a session works on has read

store == <<docs, minted, objects, cleanup>>
board == <<items, cardTrail>>
crm   == <<imported, plan, appointed, opened>>
dvars == <<store, board, crm, delivered, tx>>

Ids == 1..MaxDocs
Absent == [file |-> "none"]
Row == [file : {"case", Linked}, type : FileTypes, card : Cards \cup {"NONE"},
        by : Actors, key : Ids]
Step == [before : Statuses \cup {"NONE"}, after : Statuses]
Delivery == [card : Cards, doc : Ids]
Idle == [op |-> "none"]

Live == {d \in Ids : docs[d] # Absent}
CaseDocs == {d \in Live : docs[d].file = "case"}
OfType(type) == {d \in CaseDocs : docs[d].type = type}

-----------------------------------------------------------------------------
\* A file is new here: create() gives it all its cards, without audit rows;
\* onboarding gives it none, and the import none but a CRM record of any plan.
Init ==
    /\ docs = [d \in Ids |-> Absent]
    /\ minted = 0
    /\ objects = {}
    /\ cleanup = {}
    /\ \/ /\ items = [c \in Cards |-> "HAZIRLANIYOR"] /\ plan = "NONE"
       \/ /\ items = [c \in Cards |-> "NONE"] /\ plan \in Plans \cup {"NONE"}
    /\ cardTrail = [c \in Cards |-> <<>>]
    /\ appointed = FALSE
    /\ imported = (plan # "NONE")
    /\ opened = (plan # "PREPAID")
    /\ delivered = {}
    /\ tx = [s \in Sessions |-> Idle]

Begin(s, t) ==
    /\ t.op \in Endpoints
    /\ tx[s] = Idle
    /\ tx' = [tx EXCEPT ![s] = t]
    /\ UNCHANGED <<store, board, crm, delivered>>

End(s, op) == tx[s].op = op /\ tx' = [tx EXCEPT ![s] = Idle]

\* A check of the commit that fails, a lost connection, a restart: no trace.
Rollback(s) ==
    /\ tx[s] # Idle
    /\ tx' = [tx EXCEPT ![s] = Idle]
    /\ UNCHANGED <<store, board, crm, delivered>>

(***************************************************************************)
(* createUploadUrl.  The actors are the file's own customer and its        *)
(* assigned staff: assertCanUpload lets nobody else pass.                  *)
(***************************************************************************)
\* Mutant: unlocked by either of the two instead of both.
EitherUnlocks(by, type) ==
    by = "CUSTOMER" /\ plan = "PREPAID" /\ ~appointed
        /\ OfType("APPOINTMENT_CONFIRMATION") = {} => type = "PASSPORT"
\* assertCustomerPrepaidUploadAllowed
UploadAllowed(by, type) ==
    by = "CUSTOMER" /\ plan = "PREPAID"
        /\ (~appointed \/ OfType("APPOINTMENT_CONFIRMATION") = {})
    => type = "PASSPORT"

\* Mutant: the uploader's file type is taken as it comes.
AnyTypeFits(by, type, card) == card # "NONE" => by \in Staffers
CardFits(by, type, card) ==
    card # "NONE" => by \in Staffers /\ Catalog[card].type = type

BeginUpload(s, by, type, card) ==
    /\ UploadAllowed(by, type)
    /\ CardFits(by, type, card)
    /\ Begin(s, [op |-> "upload", by |-> by, type |-> type, card |-> card])

\* The rows get the next ids there are.
Insert(rows) ==
    /\ minted + Len(rows) <= MaxDocs
    /\ minted' = minted + Len(rows)
    /\ docs' = [d \in Ids |-> IF d \in minted + 1 .. minted + Len(rows)
                              THEN rows[d - minted] ELSE docs[d]]

\* buildObjectKey: a random UUID, so the key is as new as the row.
CommitUpload(s) ==
    LET t == tx[s] IN
    /\ End(s, "upload")
    /\ Insert(<<[file |-> "case", type |-> t.type, card |-> t.card,
                 by |-> t.by, key |-> minted + 1]>>)
    /\ UNCHANGED <<objects, cleanup, board, crm, delivered>>

\* Whoever was handed the URL PUTs the bytes, once or more often, sooner or
\* later; that it expires (UPLOAD_URL_TTL_SECONDS) is one way of never.
Put(k) ==
    /\ k <= minted
    /\ objects' = objects \cup {k}
    /\ UNCHANGED <<docs, minted, cleanup, board, crm, delivered, tx>>

(***************************************************************************)
(* remove deletes a row by its id whatever it read of it before, and fails *)
(* if it is gone: one step.  (Reviewing a document sets its approval,      *)
(* which nothing here reads; the hand-off that does is in AppWorkflow.)    *)
(***************************************************************************)
\* Mutant: the object is deleted first, the row when that has succeeded.
RemoveObjectFirst(d) ==
    /\ "remove" \in Endpoints
    /\ d \in Live
    /\ cleanup' = cleanup \cup {docs[d].key}
    /\ docs' = [docs EXCEPT ![d] = IF @.key \in cleanup THEN Absent ELSE @]
    /\ UNCHANGED <<minted, objects, board, crm, delivered, tx>>
\* remove, by the file's customer or an admin: the transaction.
Remove(d) ==
    /\ "remove" \in Endpoints
    /\ d \in Live
    /\ docs' = [docs EXCEPT ![d] = Absent]
    /\ cleanup' = cleanup \cup {docs[d].key}
    /\ UNCHANGED <<minted, objects, board, crm, delivered, tx>>

\* storage.deleteObject after the commit ...
DeleteObject(k) ==
    /\ k \in cleanup
    /\ objects' = objects \ {k}
    /\ cleanup' = cleanup \ {k}
    /\ UNCHANGED <<docs, minted, board, crm, delivered, tx>>

\* ... fails and is swallowed, or the server stops before it.
CleanupLost(k) ==
    /\ k \in cleanup
    /\ cleanup' = cleanup \ {k}
    /\ UNCHANGED <<docs, minted, objects, board, crm, delivered, tx>>

(***************************************************************************)
(* updateDocAssistantStatus.  The item row is created on first use, in the *)
(* same transaction; a status that is already there changes nothing.       *)
(***************************************************************************)
\* Mutant: UPDATE ... WHERE { id }.
CardWhereIdOnly(t) == t.read = "NONE" => items[t.card] = "NONE"
\* UPDATE ... WHERE { id, status }; the unique index for a row being created.
CardWhere(t) == items[t.card] = t.read

BeginStatus(s, c, st) ==
    /\ Len(cardTrail[c]) < MaxSteps
    /\ Begin(s, [op |-> "status", card |-> c, status |-> st, read |-> items[c]])

\* The rows a commit leaves behind: created as HAZIRLANIYOR, then changed.
CardSteps(t) ==
    LET created == IF t.read = "NONE"
                   THEN <<[before |-> "NONE", after |-> "HAZIRLANIYOR"]>>
                   ELSE <<>>
        from == IF t.read = "NONE" THEN "HAZIRLANIYOR" ELSE t.read
    IN IF from = t.status THEN created
       ELSE Append(created, [before |-> from, after |-> t.status])

CommitStatus(s) ==
    LET t == tx[s] IN
    /\ End(s, "status")
    /\ t.read # t.status => CardWhere(t)
    /\ items' = IF t.read = t.status THEN items
                                     ELSE [items EXCEPT ![t.card] = t.status]
    /\ cardTrail' = [cardTrail EXCEPT ![t.card] = @ \o CardSteps(t)]
    /\ UNCHANGED <<store, crm, delivered>>

(***************************************************************************)
(* deliverToCustomer                                                       *)
(***************************************************************************)
\* The cards that must be ready: a card without an item row is not asked for.
RequiredCards ==
    {c \in Cards : /\ items[c] # "NONE"
                   /\ \/ Catalog[c].label = "ZORUNLU"
                      \/ Catalog[c].label = "SARTLI_ZORUNLU" /\ plan = "PREPAID"}

Newest(S) == {d \in S : \A e \in S : e <= d}
\* resolveCardDocument: newest of the card's own, else newest of its type.
CardDocument(c) ==
    LET own == {d \in CaseDocs : docs[d].card = c}
    IN Newest(IF own # {} THEN own ELSE OfType(Catalog[c].type))

Ready(c) == items[c] = "TESLIME_HAZIR"

RequirementMet(c) == Ready(c) /\ CardDocument(c) # {}

Package == {f \in Delivery : Ready(f.card) /\ f.doc \in CardDocument(f.card)}

Deliverable == /\ \A c \in RequiredCards : RequirementMet(c)
               /\ Package # {}

BeginDeliver(s) ==
    /\ Deliverable
    /\ Begin(s, [op |-> "deliver", files |-> Package])

CommitDeliver(s) ==
    /\ End(s, "deliver")
    /\ delivered' = tx[s].files
    /\ UNCHANGED <<store, board, crm>>

(***************************************************************************)
(* The CRM record, as far as documents go: updateCrm by an admin, or by    *)
(* sales in their stage, and its workbook imported again, without a date.  *)
(* updateCrm writes the date it was given or else the one it has read; as  *)
(* it checks nothing else here, it is one step that writes a date or none: *)
(* none also over a date entered since it read the record.                 *)
(***************************************************************************)
Record(p, date) ==
    /\ UNCHANGED imported
    /\ plan' = p
    /\ appointed' = date
    /\ opened' = (opened \/ p # "PREPAID" \/ date)

UpdateCrm(p, date) ==
    /\ "crm" \in Endpoints
    /\ Record(p, date)
    /\ UNCHANGED <<store, board, delivered, tx>>

Reimport(p) ==
    /\ "import" \in Endpoints
    /\ imported
    /\ Record(p, FALSE)
    /\ UNCHANGED <<store, board, delivered, tx>>

(***************************************************************************)
(* updateAppointmentOps, as far as documents go: the confirmation it is    *)
(* given must be there, and so must the visa fee's receipt if there is a   *)
(* fee (0: there is none).  A file linked to the case gets rows of its own *)
(* for the same stored objects.  The rest is in CaseForms.                 *)
(***************************************************************************)
SharedTypes == {"APPOINTMENT_CONFIRMATION", "VISA_FEE_RECEIPT"}

BeginAppointment(s, d, fee, link) ==
    /\ plan # "NONE"
    /\ d \in OfType("APPOINTMENT_CONFIRMATION")
    /\ fee \in OfType("VISA_FEE_RECEIPT") \cup {0}
    /\ link => "share" \in Endpoints
    /\ Begin(s, [op |-> "appointment", link |-> link, key |-> docs[d].key,
                 feeKey |-> IF fee = 0 THEN 0 ELSE docs[fee].key])

\* The linked file's own row for an object, unless it has one already.
LinkedCopy(key, type, by) ==
    IF key = 0 \/ \E d \in Live : /\ docs[d].file = Linked
                                  /\ docs[d].type = type
                                  /\ docs[d].key = key
    THEN <<>>
    ELSE <<[file |-> Linked, type |-> type, card |-> "NONE", by |-> by,
            key |-> key]>>

CommitAppointment(s, by) ==
    LET t == tx[s] IN
    /\ End(s, "appointment")
    /\ Record(plan, TRUE)
    /\ IF t.link
       THEN Insert(LinkedCopy(t.key, "APPOINTMENT_CONFIRMATION", by)
                   \o LinkedCopy(t.feeKey, "VISA_FEE_RECEIPT", by))
       ELSE UNCHANGED <<docs, minted>>
    /\ UNCHANGED <<objects, cleanup, board, delivered>>

-----------------------------------------------------------------------------
\* What a request does in its session.
Request(s) ==
    tx[s] = Idle /\
    \/ \E by \in Uploaders, type \in Types, card \in Cards \cup {"NONE"} :
          BeginUpload(s, by, type, card)
    \/ \E c \in Cards, st \in Statuses : BeginStatus(s, c, st)
    \/ BeginDeliver(s)
    \/ \E d \in Ids, fee \in Ids \cup {0}, link \in BOOLEAN :
          BeginAppointment(s, d, fee, link)

Commit(s) ==
    \/ CommitUpload(s)
    \/ CommitStatus(s)
    \/ CommitDeliver(s)
    \/ \E by \in Staffers \cap Uploaders : CommitAppointment(s, by)

\* What happens at the object store.
Storage(k) == Put(k) \/ DeleteObject(k) \/ CleanupLost(k)

\* What happens to the CRM record.
Crm(p) == Reimport(p) \/ \E date \in BOOLEAN : UpdateCrm(p, date)

Next ==
    \/ \E s \in Sessions : Request(s) \/ Commit(s) \/ Rollback(s)
    \/ \E k \in Ids : Storage(k)
    \/ \E d \in Ids : Remove(d)
    \/ \E p \in Plans : Crm(p)

Spec == Init /\ [][Next]_dvars

-----------------------------------------------------------------------------
TxType ==
    [op : {"upload"}, by : Actors, type : FileTypes, card : Cards \cup {"NONE"}]
    \cup [op : {"status"}, card : Cards, status : Statuses,
          read : Statuses \cup {"NONE"}]
    \cup [op : {"deliver"}, files : SUBSET Delivery]
    \cup [op : {"appointment"}, link : BOOLEAN, key : Ids, feeKey : Ids \cup {0}]

\* Type correctness of documents, objects, cards, delivery and transactions.
TypeOK ==
    /\ docs \in [Ids -> Row \cup {Absent}]
    /\ minted \in 0..MaxDocs
    /\ objects \subseteq Ids
    /\ cleanup \subseteq Ids
    /\ items \in [Cards -> Statuses \cup {"NONE"}]
    /\ cardTrail \in [Cards -> Seq(Step)]
    /\ plan \in Plans \cup {"NONE"}
    /\ imported \in BOOLEAN /\ appointed \in BOOLEAN /\ opened \in BOOLEAN
    /\ delivered \subseteq Delivery
    /\ tx \in [Sessions -> TxType \cup {Idle}]

\* The audit rows of a card form one unbroken chain to the status it has now,
\* however many requests raced on it: the compare-and-swap of
\* updateDocAssistantStatus and the unique index keep an update that read an
\* outdated status from being written on top of another.  The chain begins
\* with the creation of the card, or with the status create() gave it.
CardTrailChain ==
    \A c \in Cards :
        LET trail == cardTrail[c] IN
        /\ IF trail = <<>> THEN items[c] \in {"NONE", "HAZIRLANIYOR"}
                           ELSE items[c] = trail[Len(trail)].after
        /\ \A i \in 1..Len(trail) :
               IF i = 1 THEN trail[i].before \in {"NONE", "HAZIRLANIYOR"}
                        ELSE trail[i].before = trail[i - 1].after

\* The customer is handed, under a card's title, a document of the file type
\* the card is for: deliverToCustomer takes a card's own document without
\* looking at its type, so this rests on what createUploadUrl let in earlier.
\* (The row may be gone by now; a row that is there is the one delivered.)
DeliveredMatchesCard ==
    \A f \in delivered : f.doc \in Live =>
        /\ docs[f.doc].type = Catalog[f.card].type
        /\ docs[f.doc].file = "case"

\* An object that is being deleted after the commit is not the object of a
\* document somebody still sees: keys are never reused and the row goes first.
\* The exception are the papers updateAppointmentOps lets two files share:
\* there the removal of either row takes the bytes of both.
CleanupSparesRows ==
    \A d \in Live : docs[d].key \in cleanup => docs[d].type \in SharedTypes

\* A customer gets anything but a passport into a file only after the file
\* was not PREPAID, or had an appointment, at some time: although the lock is
\* checked outside of any transaction, and the plan, the date and the
\* confirmation may change between that check and the row.
PrepaidLocked ==
    ~opened =>
        \A d \in CaseDocs : docs[d].by = "CUSTOMER" => docs[d].type = "PASSPORT"
=============================================================================
