------------------------------- MODULE Accounts -------------------------------
(***************************************************************************)
(* Accounts and the files that come and go with them: register and onboard *)
(* (AuthService), create (VisaApplicationsService), the accounts staff     *)
(* create, deactivate and delete (UsersService, AdminService), and the     *)
(* scripts that load a workbook of old customers and take it out again     *)
(* (import-excel, revert-import).  The scripts are run by hand, on a live  *)
(* database, and as often as it takes.                                     *)
(*                                                                         *)
(* What hangs on a file by a cascading key (CRM record, forms, cards,      *)
(* people) goes with it; of these only the money of the CRM record is      *)
(* kept.  Audit rows have the keys of documents and are deleted beside     *)
(* them by the same conditions; they are left out.                         *)
(***************************************************************************)
EXTENDS Integers, FiniteSets

CONSTANTS
    Emails,       \* addresses people register with
    Rows,         \* rows of the workbook
    Amounts,      \* what parseAmount makes of a cell, 0 where it finds none
    Plus(_, _),   \* the sum of two amounts, rounded
    Minus(_, _),  \* their difference, rounded
    Cells,        \* what the cells of a row may say of money, by row
    Entries,      \* what staff may send as a CRM record's money
    Party,        \* people, and passports, of an onboarding
    Jobs,         \* requests and runs of a script that work at the same time
    MaxIds        \* bound: accounts and files ever created

WorkbookRows == 1..Rows

ASSUME AccountsAssumption ==
    /\ Rows \in Nat /\ Party \in Nat \ {0} /\ MaxIds \in Nat
    /\ Amounts \subseteq Int
    /\ Emails \cap WorkbookRows = {}

\* "cash": PESIN in the down payment's cell; "settled": a word for paid in the
\* remainder's.
CellType == [total : Amounts, down : Amounts, remain : Amounts,
             cash : BOOLEAN, settled : BOOLEAN]
Null == -1
EntryType == [total : Int, upfront : Nat \cup {Null}, plan : {"NORMAL", "PREPAID"}]
ASSUME CellsAssumption ==
    Cells \in [WorkbookRows -> SUBSET CellType] /\ Entries \subseteq EntryType

\* Amounts are floats, counted here in units of the smallest one.  A sum or a
\* difference of two is rounded, which keeps the order of exact results.
ASSUME RoundingAssumption ==
    \A a, b \in Amounts :
        /\ Plus(a, b) \in Int /\ Minus(a, b) \in Int
        /\ a > 0 /\ b > 0 => Plus(a, b) >= a /\ Plus(a, b) >= b
        /\ b > 0 => Minus(a, b) <= a

\* An imported account has an address made from its row: the row stands for it.
Addresses == Emails \cup WorkbookRows
NoObject == [of |-> 0, nr |-> 0]
Passports(id) == {[of |-> id, nr |-> i] : i \in 1..Party}
NoMoney == [total |-> 0, upfront |-> Null, plan |-> "NONE"]

VARIABLES
    users,    \* [id, email, staff, active]
    files,    \* [id, customer, row, money]; row 0: not from the workbook
              \* money: what the CRM record says, followed for imported files
    docs,     \* [file, by, object]
    objects,  \* passports in the object store
    minted,   \* ids given out
    jobs      \* what each request or script has in its variables

vars == <<users, files, docs, objects, minted, jobs>>
db == <<users, files, docs, objects, minted>>

Idle == [op |-> "none"]
Taken(e) == \E u \in users : u.email = e
Ids(rows) == {x.id : x \in rows}

Init ==
    /\ users = {} /\ files = {} /\ docs = {} /\ objects = {}
    /\ minted = 0
    /\ jobs = [j \in Jobs |-> Idle]

Begin(j, t) == jobs[j] = Idle /\ jobs' = [jobs EXCEPT ![j] = t]
End(j) == jobs' = [jobs EXCEPT ![j] = Idle]

\* An exception, a crash, a script that is interrupted: what is committed stays.
Abort(j) == jobs[j] # Idle /\ End(j) /\ UNCHANGED db

-----------------------------------------------------------------------------
(***************************************************************************)
(* register and onboard look for the address first; the unique index has   *)
(* the last word.                                                          *)
(***************************************************************************)
BeginRegister(j, e) ==
    /\ ~Taken(e)
    /\ Begin(j, [op |-> "register", email |-> e])
    /\ UNCHANGED db

Account(id, e, staff) == [id |-> id, email |-> e, staff |-> staff, active |-> TRUE]
File(id, customer, row, money) ==
    [id |-> id, customer |-> customer, row |-> row, money |-> money]

CommitRegister(j) ==
    /\ jobs[j].op = "register"
    /\ ~Taken(jobs[j].email)
    /\ minted < MaxIds
    /\ minted' = minted + 1
    /\ users' = users \cup {Account(minted', jobs[j].email, FALSE)}
    /\ End(j)
    /\ UNCHANGED <<files, docs, objects>>

\* The id of the account is drawn first: it is part of the objects' names.
BeginOnboard(j, e) ==
    /\ ~Taken(e)
    /\ minted < MaxIds
    /\ minted' = minted + 1
    /\ Begin(j, [op |-> "onboard", email |-> e, id |-> minted'])
    /\ UNCHANGED <<users, files, docs, objects>>

\* uploadBuffers sends the passports in parallel, before the transaction.
StorePassport(j, o) ==
    /\ jobs[j].op = "onboard"
    /\ o \in Passports(jobs[j].id) \ objects
    /\ objects' = objects \cup {o}
    /\ UNCHANGED <<users, files, docs, minted, jobs>>

\* Mutant: Promise.any for Promise.all.
AnyStored(id) == Passports(id) \cap objects # {}
AllStored(id) == Passports(id) \subseteq objects

CommitOnboard(j) ==
    LET id == jobs[j].id IN
    /\ jobs[j].op = "onboard"
    /\ AllStored(id)
    /\ ~Taken(jobs[j].email)
    /\ minted < MaxIds
    /\ minted' = minted + 1
    /\ users' = users \cup {Account(id, jobs[j].email, FALSE)}
    /\ files' = files \cup {File(minted', id, 0, NoMoney)}
    /\ docs' = docs \cup {[file |-> minted', by |-> id, object |-> o] :
                            o \in Passports(id)}
    /\ End(j)
    /\ UNCHANGED objects

\* createUser, createStaff, createCustomer: one transaction, no look before it.
CreateAccount(e, staff) ==
    /\ ~Taken(e)
    /\ minted < MaxIds
    /\ minted' = minted + 1
    /\ users' = users \cup {Account(minted', e, staff)}
    /\ UNCHANGED <<files, docs, objects, jobs>>

Deactivate(u) ==
    /\ u \in users
    /\ users' = (users \ {u}) \cup {[u EXCEPT !.active = FALSE]}
    /\ UNCHANGED <<files, docs, objects, minted, jobs>>

\* create, for the customer itself or by staff for it.
OpenFile(u) ==
    /\ u \in users /\ ~u.staff
    /\ minted < MaxIds
    /\ minted' = minted + 1
    /\ files' = files \cup {File(minted', u.id, 0, NoMoney)}
    /\ UNCHANGED <<users, docs, objects, jobs>>

\* A document of a file: its customer's, or staff's.  (CaseDocuments has more.)
AddDocument(u, f) ==
    /\ u \in users /\ u.active
    /\ f \in files
    /\ u.staff \/ f.customer = u.id
    /\ docs' = docs \cup {[file |-> f.id, by |-> u.id, object |-> NoObject]}
    /\ UNCHANGED <<users, files, objects, minted, jobs>>

-----------------------------------------------------------------------------
(***************************************************************************)
(* deleteUser and revert-import: the accounts are read, then their files,  *)
(* and the rows are deleted by these lists.  The foreign keys refuse the   *)
(* whole deletion when something they do not name refers to an account.    *)
(***************************************************************************)
BeginDelete(j, u) ==
    /\ u \in users
    /\ Begin(j, [op |-> "delete", users |-> {u.id}, listed |-> FALSE, files |-> {}])
    /\ UNCHANGED db

Imported == {u \in users : u.email \in WorkbookRows}

BeginRevert(j) ==
    /\ Imported # {}
    /\ Begin(j, [op |-> "revert", users |-> Ids(Imported), listed |-> FALSE,
                 files |-> {}])
    /\ UNCHANGED db

Deletes(j) == jobs[j].op \in {"delete", "revert"}

ListFiles(j) ==
    /\ Deletes(j) /\ ~jobs[j].listed
    /\ jobs' = [jobs EXCEPT
                   ![j].listed = TRUE,
                   ![j].files = Ids({f \in files : f.customer \in jobs[j].users})]
    /\ UNCHANGED db

\* user.delete wants a row, deleteMany takes what there is.
StillThere(t) == t.op = "delete" => t.users \subseteq Ids(users)
\* No file the list does not name: the key from files to users.
NothingRefersTo(t) ==
    \A f \in files : f.customer \in t.users => f.id \in t.files

\* Rows whose file a deletion takes: a running import is not to blame for them.
RowsOf(fs) == {f.row : f \in fs} \ {0}

CommitDeletion(j) ==
    LET t == jobs[j]
        gone == {f \in files : f.id \in t.files}
    IN
    /\ Deletes(j) /\ t.listed
    /\ StillThere(t) /\ NothingRefersTo(t)
    /\ users' = {u \in users : u.id \notin t.users}
    /\ files' = files \ gone
    /\ docs' = {d \in docs : d.file \notin t.files /\ d.by \notin t.users}
    /\ jobs' = [k \in Jobs |->
                  IF k = j THEN Idle
                  ELSE IF jobs[k].op = "import"
                  THEN [jobs[k] EXCEPT !.excused = @ \cup RowsOf(gone)]
                  ELSE jobs[k]]
    /\ UNCHANGED <<objects, minted>>

-----------------------------------------------------------------------------
(***************************************************************************)
(* import-excel: what a row says of money.  The cells are filled by hand:  *)
(* an amount may be missing, negative, or contradict the other two.        *)
(***************************************************************************)
Larger(a, b) == IF a >= b THEN a ELSE b

\* Mutant: the total is what its cell says.
TotalAsWritten(total, down, remain) ==
    IF remain > 0 THEN (IF down > 0 THEN Plus(down, remain) ELSE total) ELSE Larger(total, down)
TotalOf(total, down, remain) ==
    CASE remain > 0 /\ down > 0 -> Plus(down, remain)
      [] remain > 0 /\ down <= 0 -> Larger(total, remain)
      [] OTHER -> Larger(total, down)
UpfrontOf(total, down, remain) ==
    CASE remain > 0 /\ down > 0 -> down
      [] remain > 0 /\ down <= 0 ->
            Larger(Minus(Larger(total, remain), remain), 0)
      [] OTHER -> TotalOf(total, down, remain)

\* Mutant: negative amounts are taken as they are.
AsComputed(n) == n
AtLeastZero(n) == Larger(n, 0)

Prepared(cell) ==
    LET total == cell.total
        down == IF cell.cash THEN total ELSE cell.down
        remain == IF cell.cash \/ cell.settled THEN 0 ELSE cell.remain
    IN [total |-> AtLeastZero(TotalOf(total, down, remain)),
        upfront |-> AtLeastZero(UpfrontOf(total, down, remain)),
        plan |-> IF remain > 0 THEN "PREPAID" ELSE "NORMAL"]

\* What UpdateApplicationCrmDto and the finance guard of updateCrm let through.
\* (An upfront amount beside NORMAL is dropped: it is written as Null.)
MayRecord(m) ==
    /\ m.total > 0
    /\ m.plan = "NORMAL" <=> m.upfront = Null
    /\ m.upfront <= m.total

\* updateCrm of an imported file: the record is written anew.
EditMoney(f, m) ==
    /\ f \in files /\ f.row # 0
    /\ MayRecord(m)
    /\ files' = (files \ {f}) \cup {[f EXCEPT !.money = m]}
    /\ UNCHANGED <<users, docs, objects, minted, jobs>>

(***************************************************************************)
(* One run: row after row, each in a transaction of its own.               *)
(***************************************************************************)
BeginImport(j) ==
    /\ Begin(j, [op |-> "import", next |-> 1, failed |-> FALSE, open |-> FALSE,
                 seen |-> {}, excused |-> {}])
    /\ UNCHANGED db

AtRow(j) == jobs[j].op = "import" /\ jobs[j].next \in WorkbookRows

\* A row without a name is skipped.
SkipRow(j) ==
    /\ AtRow(j) /\ ~jobs[j].open
    /\ jobs' = [jobs EXCEPT ![j].next = @ + 1,
                            ![j].excused = @ \cup {jobs[j].next}]
    /\ UNCHANGED db

Named(r) == {u \in users : u.email = r}

\* upsertPreparedRow looks for the account; it uses the answer to count only.
BeginRow(j) ==
    /\ AtRow(j) /\ ~jobs[j].open
    /\ jobs' = [jobs EXCEPT ![j].open = TRUE,
                            ![j].seen = Ids(Named(jobs[j].next))]
    /\ UNCHANGED db

\* The account is upserted, which locks its row against other imports and
\* deletions until the commit; the file is looked for after that.
\* Mutant: an account that was not there before has no file.
FileSeen(r, t) ==
    {f \in files : f.row = r /\ f.customer \in Ids(Named(r)) \cap t.seen}
FileOfRow(r, t) == {f \in files : f.row = r /\ f.customer \in Ids(Named(r))}

UpsertUser(r) ==
    IF Named(r) = {} THEN users \cup {Account(minted + 1, r, FALSE)}
    ELSE (users \ Named(r)) \cup {[u EXCEPT !.active = TRUE, !.staff = FALSE] :
                                     u \in Named(r)}

CommitRow(j, cell) ==
    LET t == jobs[j]
        r == t.next
        money == Prepared(cell)
        there == FileOfRow(r, t)
        owner == IF Named(r) = {} THEN minted + 1
                 ELSE CHOOSE id \in Ids(Named(r)) : TRUE
    IN
    /\ AtRow(j) /\ t.open
    /\ minted + 2 <= MaxIds
    /\ minted' = minted + (IF Named(r) = {} THEN 1 ELSE 0)
                        + (IF there = {} THEN 1 ELSE 0)
    /\ users' = UpsertUser(r)
    /\ files' = IF there = {}
                THEN files \cup {File(minted', owner, r, money)}
                ELSE LET f == CHOOSE x \in there : TRUE IN
                     (files \ {f}) \cup {[f EXCEPT !.money = money]}
    /\ jobs' = [jobs EXCEPT ![j].open = FALSE, ![j].next = @ + 1]
    /\ UNCHANGED <<docs, objects>>

\* Mutant: the catch warns and does not count.
FailUncounted(t) == [t EXCEPT !.open = FALSE, !.next = @ + 1]
\* The catch around a row: the loop goes on.
FailCounted(t) == [t EXCEPT !.open = FALSE, !.next = @ + 1, !.failed = TRUE]

FailRow(j) ==
    /\ AtRow(j) /\ jobs[j].open
    /\ jobs' = [jobs EXCEPT ![j] = FailCounted(@)]
    /\ UNCHANGED db

\* process.exitCode is 1 when a row failed.
FinishImport(j) ==
    /\ jobs[j].op = "import" /\ jobs[j].next \notin WorkbookRows
    /\ End(j)
    /\ UNCHANGED db

-----------------------------------------------------------------------------
Import(j) ==
    \/ BeginImport(j) \/ SkipRow(j) \/ BeginRow(j) \/ FailRow(j) \/ FinishImport(j)
    \/ AtRow(j) /\ \E cell \in Cells[jobs[j].next] : CommitRow(j, cell)

Next ==
    \/ \E j \in Jobs :
          \/ \E e \in Emails : BeginRegister(j, e) \/ BeginOnboard(j, e)
          \/ CommitRegister(j) \/ CommitOnboard(j)
          \/ \E o \in Passports(IF jobs[j].op = "onboard" THEN jobs[j].id ELSE 0) :
                StorePassport(j, o)
          \/ \E u \in users : BeginDelete(j, u)
          \/ BeginRevert(j) \/ ListFiles(j) \/ CommitDeletion(j)
          \/ Import(j)
          \/ Abort(j)
    \/ \E e \in Emails, staff \in BOOLEAN : CreateAccount(e, staff)
    \/ \E u \in users : Deactivate(u) \/ OpenFile(u)
    \/ \E u \in users, f \in files : AddDocument(u, f)
    \/ \E f \in files, m \in Entries : EditMoney(f, m)

Spec == Init /\ [][Next]_vars

-----------------------------------------------------------------------------
MoneyType == [total : Nat, upfront : Nat \cup {Null},
              plan : {"NONE", "NORMAL", "PREPAID"}]

\* The rows are well typed, each refers to rows that exist, and an address is
\* one account's.
AccountsTypeOK ==
    /\ users \subseteq [id : 1..minted, email : Addresses, staff : BOOLEAN,
                        active : BOOLEAN]
    /\ files \subseteq [id : 1..minted, customer : Ids(users), row : 0..Rows,
                        money : MoneyType]
    /\ docs \subseteq [file : Ids(files), by : Ids(users),
                       object : [of : 0..minted, nr : 0..Party]]
    /\ minted \in 0..MaxIds
    /\ \A u, v \in users : u.id = v.id \/ u.email = v.email => u = v

\* However many runs of the import meet on a row, are broken off, repeated or
\* reverted, a row of the workbook is one file.
OneFilePerRow == \A f, g \in files : f.row # 0 /\ f.row = g.row => f = g

\* The passports an onboarded file names are in the object store, though they
\* were sent before anything was committed and nothing ties the two together.
PassportsStored ==
    \A d \in docs : d.object # NoObject => d.object \in objects

\* An import that exits with 0 leaves every row it did not skip with its file,
\* whatever other runs did meanwhile, unless the file was deleted meanwhile.
CleanImportIsWhole ==
    [][\A j \in Jobs :
          jobs[j].op = "import" /\ jobs[j].next > Rows /\ jobs'[j] = Idle
             /\ ~jobs[j].failed =>
                WorkbookRows \ jobs[j].excused \subseteq RowsOf(files')]_vars

\* "Remaining UI math is always totalAmount - upfrontPaid", for PREPAID files,
\* and a file that is not PREPAID counts as paid in full.  Whatever the cells
\* said and whoever wrote last, import or staff: a PREPAID file has a total, as
\* the list of pending payments expects, and a remainder that is not negative;
\* of any other no part is left.
RemainderInRange ==
    \A f \in files :
        /\ f.money.plan = "PREPAID" =>
              f.money.total > 0 /\ f.money.upfront \in 0..f.money.total
        /\ f.money.plan = "NORMAL" => f.money.upfront \in {Null, f.money.total}
=============================================================================
