------------------------------- MODULE CaseForms -------------------------------
(***************************************************************************)
(* The people of one visa application and their application forms:         *)
(* onboarding, updateDetails, updateAppointmentOps and the DOC_PROCESS     *)
(* gate of transitionStage, and the admin's updateApplicationCoreData and  *)
(* removeOnboardingApplicant.                                              *)
(*                                                                         *)
(* A person is a row of onboarding_applicants; a form is a row of          *)
(* visa_application_details under an applicantIndex.  Nothing but the      *)
(* position ties a form to its person, and the customer picks the position *)
(* on a page loaded earlier.  The answers to a country's own questions,    *)
(* kept in application.metadata, are left out: nothing here reads them.    *)
(*                                                                         *)
(* A handler is two actions as in AppWorkflow: Begin<Op> checks the file   *)
(* as it reads it, Commit<Op> writes.  Days stand for ISO dates, 0 for an  *)
(* empty one, which compares below every other as "" does.                 *)
(***************************************************************************)
EXTENDS Integers, Sequences, FiniteSets, SequencesExt

CONSTANTS
    MaxPersons,  \* bound: people ever entered
    Together,    \* bound: people one request enters
    MaxDay,      \* bound: the latest day
    MinDays,     \* COUNTRY_RULES[targetCountry].minDays
    Entries,     \* what the customer fills in
    Sessions,    \* requests the server works on at the same time
    Endpoints    \* the operations the instance exercises

OpNames == {"save", "appointment", "transition", "coreData", "remove"}

ASSUME BoundsAssumption == /\ MaxPersons \in Nat \ {0} /\ Together \in 1..MaxPersons
                           /\ MaxDay \in Nat /\ MinDays \in Nat
                           /\ Endpoints \subseteq OpNames

Persons == 1..MaxPersons   \* 1 is the account's holder
Days == 0..MaxDay

\* A form's travel dates.  A draft may lack them; nothing on the server asks for
\* anything else of a form later.
Entry == [start : Days, end : Days]
ASSUME EntriesAssumption == Entries \subseteq Entry

NoForm == [who |-> 0]
Form == [who : Persons, start : Days, end : Days]

VARIABLES
    file,   \* the rows of the application
    made,   \* people entered so far
    page,   \* the people as the customer's page lists them
    tx      \* what the request a session works on has read

vars == <<file, made, page, tx>>

Idle == [op |-> "none"]
Stages == {"SALES_PROCESS", "DOC_PROCESS", "SEC_POOL", "COMPLETED"}

-----------------------------------------------------------------------------
(***************************************************************************)
(* The roster.  Rows entered by one request carry the same createdAt; what *)
(* orders them is their random id.  The admin's operations sort by         *)
(* (createdAt, id), and that is how file.roster is kept; the application   *)
(* page sorts by createdAt alone and may show such rows in any order.      *)
(***************************************************************************)
Batch(people, at) ==
    {[i \in DOMAIN p |-> [who |-> p[i], at |-> at]] : p \in SetToSeqs(people)}

\* The rows left, in their order, when the rows of some people are deleted.
Rising(e) == \A i, j \in DOMAIN e : i < j => e[i] < e[j]
Without(rows, gone) ==
    LET kept == {k \in DOMAIN rows : rows[k].who \notin gone}
    IN {[i \in DOMAIN e |-> rows[e[i]]] : e \in {p \in SetToSeqs(kept) : Rising(p)}}

Whos(rows) == [i \in DOMAIN rows |-> rows[i].who]

\* Mutant: the placeholder of a file without rows is taken for a person.
PlaceholderIsNobody(f) == IF f.roster = <<>> THEN {<<0>>} ELSE {Whos(f.roster)}
\* getApplicationById as the page reads it; no rows: the holder alone.
PageOrders(f) ==
    IF f.roster = <<>> THEN {<<1>>}
    ELSE {Whos(rows) : rows \in
            {r \in [DOMAIN f.roster -> ToSet(f.roster)] :
                /\ ToSet(r) = ToSet(f.roster)
                /\ \A i \in DOMAIN r : r[i].at = f.roster[i].at}}

\* resolveRequiredApplicantCount
Required(f) == IF f.roster = <<>> THEN 1 ELSE Len(f.roster)

Indexes == 1..MaxPersons
Submitted(f) == {i \in Indexes : f.forms[i] # NoForm}

\* pickPrimaryApplicantDetails: index 1, else the lowest there is.
Primary(f) == f.forms[CHOOSE i \in Submitted(f) : \A j \in Submitted(f) : i <= j]

NewFile(roster) ==
    [roster |-> roster, forms |-> [i \in Indexes |-> NoForm],
     appointment |-> 0, stage |-> "SALES_PROCESS"]

\* onboard enters the holder and the companions; create enters nobody.
Init ==
    /\ made \in 1..Together
    /\ \E roster \in Batch(1..made, 1) \cup (IF made = 1 THEN {<<>>} ELSE {}) :
          file = NewFile(roster)
    /\ page = <<>>
    /\ tx = [s \in Sessions |-> Idle]

Begin(s, t) ==
    /\ t.op \in Endpoints
    /\ tx[s] = Idle
    /\ tx' = [tx EXCEPT ![s] = t]
    /\ UNCHANGED <<file, made, page>>

End(s, op) == tx[s].op = op /\ tx' = [tx EXCEPT ![s] = Idle]

\* A commit that fails leaves no trace.
Rollback(s) ==
    /\ tx[s] # Idle
    /\ tx' = [tx EXCEPT ![s] = Idle]
    /\ UNCHANGED <<file, made, page>>

(***************************************************************************)
(* The customer's page is loaded, and stays as it is until the next time.  *)
(***************************************************************************)
LoadPage ==
    /\ "save" \in Endpoints
    /\ page' \in PageOrders(file)
    /\ UNCHANGED <<file, made, tx>>

(***************************************************************************)
(* updateDetails: one person's form, a draft or whole.                     *)
(***************************************************************************)
IndexAllowed(i) == i <= Required(file)

BeginSave(s, i, e) ==
    /\ i \in DOMAIN page
    /\ IndexAllowed(i)
    /\ file.stage # "COMPLETED"
    /\ 0 < e.start /\ 0 < e.end => e.start <= e.end
    /\ Begin(s, [op |-> "save", index |-> i, who |-> page[i], entry |-> e,
                 read |-> file])

\* The form is an upsert.
CommitSave(s) ==
    LET t == tx[s] IN
    /\ End(s, "save")
    /\ file' = [file EXCEPT
                   !.forms[t.index] = [who |-> t.who, start |-> t.entry.start,
                                       end |-> t.entry.end]]
    /\ UNCHANGED <<made, page>>

(***************************************************************************)
(* updateAppointmentOps: the appointment, and one travel start for all.    *)
(***************************************************************************)
\* Mutant: the end date is not looked at.
LeadTimeOnly(date, travel) == date + MinDays <= travel
TravelFits(date, travel) ==
    /\ date + MinDays <= travel
    /\ travel <= Primary(file).end

BeginAppointment(s, date, travel) ==
    /\ file.stage = "DOC_PROCESS"
    /\ Cardinality(Submitted(file)) >= Required(file)
    /\ TravelFits(date, travel)
    /\ Begin(s, [op |-> "appointment", date |-> date, travel |-> travel,
                 read |-> file])

CommitAppointment(s) ==
    LET t == tx[s] IN
    /\ End(s, "appointment")
    /\ file' = [file EXCEPT
                   !.appointment = t.date,
                   !.forms = [i \in Indexes |->
                                 IF @[i] = NoForm THEN NoForm
                                 ELSE [@[i] EXCEPT !.start = t.travel]]]
    /\ UNCHANGED <<made, page>>

(***************************************************************************)
(* transitionStage out of DOC_PROCESS, as far as the forms go: it counts   *)
(* the rows.  (The documents it also asks for are in AppWorkflow.)         *)
(***************************************************************************)
BeginTransition(s) ==
    /\ file.stage = "DOC_PROCESS"
    /\ Cardinality(Submitted(file)) >= Required(file)
    /\ file.appointment > 0
    /\ LET form == Primary(file) IN
       /\ 0 < form.start /\ form.start <= form.end
       /\ file.appointment + MinDays <= form.start
    /\ Begin(s, [op |-> "transition", read |-> file])

CommitTransition(s) ==
    /\ End(s, "transition")
    /\ file.stage = "DOC_PROCESS"
    /\ file' = [file EXCEPT !.stage = "SEC_POOL"]
    /\ UNCHANGED <<made, page>>

\* Whatever else moves the file along (AppWorkflow).  forceStage may also put
\* it into SEC_POOL past the gate, as it is meant to.
Elsewhere(st) ==
    /\ st \in Stages \ {"SEC_POOL"}
    /\ file.stage # "COMPLETED"
    /\ st # file.stage
    /\ file' = [file EXCEPT !.stage = st]
    /\ UNCHANGED <<made, page, tx>>

(***************************************************************************)
(* updateApplicationCoreData with a number of applicants.  The passports a *)
(* larger number asks for are uploaded; a name given for a position is the *)
(* spelling of the person's that is there.                                 *)
(***************************************************************************)
BeginCoreData(s, n) ==
    /\ made + Together >= n
    /\ Begin(s, [op |-> "coreData", count |-> n, read |-> file])

\* Rows the request enters: those missing to the number, the holder's if the
\* file had none; and one for the holder when there is still none.
Entered(t, now) ==
    LET grow == t.count - Required(t.read)
        companions == (made + 1)..(made + (IF grow > 0 THEN grow ELSE 0))
    IN IF t.read.roster = <<>> /\ (grow > 0 \/ now.roster = <<>>)
       THEN companions \cup {1} ELSE companions

\* The people of the rows read beyond the number.
Surplus(t) == {t.read.roster[k].who : k \in (t.count + 1)..Len(t.read.roster)}

\* Mutant: the forms stay when the people go.
ShrinkRosterOnly(t, f) ==
    IF t.count >= Required(t.read) THEN {f}
    ELSE {[f EXCEPT !.roster = rows] : rows \in Without(f.roster, Surplus(t))}
\* Fewer people: their rows go, and the forms beyond the number.
Shrink(t, f) ==
    IF t.count >= Required(t.read) THEN {f}
    ELSE {[f EXCEPT !.roster = rows,
                    !.forms = [i \in Indexes |-> IF i > t.count THEN NoForm ELSE @[i]]] :
             rows \in Without(f.roster, Surplus(t))}

CommitCoreData(s) ==
    LET t == tx[s]
        people == Entered(t, file)
    IN
    /\ End(s, "coreData")
    /\ made + Cardinality(people \ {1}) <= MaxPersons
    /\ made' = made + Cardinality(people \ {1})
    /\ \E rows \in Batch(people, made' + 1) :
          file' \in Shrink(t, [file EXCEPT !.roster = @ \o rows])
    /\ UNCHANGED page

(***************************************************************************)
(* removeOnboardingApplicant: the row, the form at its position, and the   *)
(* later forms one position down.                                          *)
(***************************************************************************)
BeginRemove(s, k) ==
    /\ Len(file.roster) > 1
    /\ k \in 2..Len(file.roster)
    /\ Begin(s, [op |-> "remove", index |-> k, who |-> file.roster[k].who,
                 read |-> file])

\* Mutant: the later forms stay where they are.
NotCompacted(forms, k) == [forms EXCEPT ![k] = NoForm]
Compacted(forms, k) ==
    [i \in Indexes |-> IF i < k THEN forms[i]
                       ELSE IF i < MaxPersons THEN forms[i + 1] ELSE NoForm]

CommitRemove(s) ==
    LET t == tx[s] IN
    /\ End(s, "remove")
    /\ t.who \in ToSet(Whos(file.roster))
    /\ \E rows \in Without(file.roster, {t.who}) :
          file' = [file EXCEPT !.roster = rows, !.forms = Compacted(@, t.index)]
    /\ UNCHANGED <<made, page>>

-----------------------------------------------------------------------------
Next ==
    \/ \E s \in Sessions :
          \/ \E i \in Indexes, e \in Entries : BeginSave(s, i, e)
          \/ CommitSave(s)
          \/ \E date, travel \in Days \ {0} : BeginAppointment(s, date, travel)
          \/ CommitAppointment(s)
          \/ BeginTransition(s) \/ CommitTransition(s)
          \/ \E n \in Indexes : BeginCoreData(s, n)
          \/ CommitCoreData(s)
          \/ \E k \in Indexes : BeginRemove(s, k)
          \/ CommitRemove(s)
          \/ Rollback(s)
    \/ LoadPage
    \/ \E st \in Stages : Elsewhere(st)

Spec == Init /\ [][Next]_vars

-----------------------------------------------------------------------------
FileType ==
    [roster : Seq([who : Persons, at : Nat]), forms : [Indexes -> Form \cup {NoForm}],
     appointment : Days, stage : Stages]

Request ==
    [op : {"save"}, index : Indexes, who : Persons, entry : Entry, read : FileType]
    \cup [op : {"appointment"}, date : Days, travel : Days, read : FileType]
    \cup [op : {"transition"}, read : FileType]
    \cup [op : {"coreData"}, count : Indexes, read : FileType]
    \cup [op : {"remove"}, index : Indexes, who : Persons, read : FileType]

\* Type correctness of the file, the page and the requests under way.
TypeOK ==
    /\ file \in FileType
    /\ made \in Persons
    /\ page \in Seq(Persons)
    /\ tx \in [Sessions -> Request \cup {Idle}]

\* A file leaves DOC_PROCESS only with a form for each of its people: the gate
\* counts rows, so this rests on every other operation leaving no row behind
\* that is nobody's.
LeavesWithForms ==
    [][file.stage = "DOC_PROCESS" /\ file'.stage = "SEC_POOL" =>
          \A i \in 1..Required(file) : file.forms[i] # NoForm]_vars

\* The travel range of the main applicant is never turned round, though it is
\* written by two departments, each of which looks at one end of it.
PrimaryRangeValid ==
    LET form == file.forms[1] IN
    form # NoForm /\ 0 < form.start /\ 0 < form.end => form.start <= form.end

\* Whoever leaves, the main form stays a form of its file's and the rest close
\* the gap: no form is ever filed under a position that nobody has.
NoFormIsNobodys == \A i \in Submitted(file) : i <= Required(file)
=============================================================================
