--------------------------- MODULE AccountsProofs ---------------------------
(***************************************************************************)
(* What the run of Accounts shows, for any workbook, any amounts, any      *)
(* addresses and any number of requests and scripts at a time.             *)
(***************************************************************************)
EXTENDS Accounts, TLAPS

(***************************************************************************)
(* The inductive invariant.                                                *)
(***************************************************************************)
AccountType ==
    [id : 1..minted, email : Addresses, staff : BOOLEAN, active : BOOLEAN]
FileRecord == [id : 1..minted, customer : Ids(users), row : 0..Rows, money : MoneyType]
DocRecord ==
    [file : Ids(files), by : Ids(users), object : [of : 0..minted, nr : 0..Party]]
UniqueUsers == \A u, v \in users : u.id = v.id \/ u.email = v.email => u = v

JobType ==
    {Idle}
    \cup [op : {"register"}, email : Emails]
    \cup [op : {"onboard"}, email : Emails, id : Int]
    \cup [op : {"delete", "revert"}, users : SUBSET Int, listed : BOOLEAN,
          files : SUBSET Int]
    \cup [op : {"import"}, next : Int, failed : BOOLEAN, open : BOOLEAN,
          seen : SUBSET Int, excused : SUBSET WorkbookRows]
JobsTyped == jobs \in [Jobs -> JobType]

\* The id an onboarding has drawn is nobody's, and nobody else's to use.
IdsReserved ==
    \A j \in Jobs : jobs[j].op = "onboard" =>
        /\ jobs[j].id \in 1..minted
        /\ jobs[j].id \notin Ids(users)
        /\ \A k \in Jobs : k # j /\ jobs[k].op = "onboard" => jobs[k].id # jobs[j].id

\* A file from the workbook is the file of the account of its row.
RowsOwned ==
    \A f \in files : f.row # 0 => \E u \in users : u.id = f.customer /\ u.email = f.row

\* A run without failures has left each row behind it with a file, except
\* the rows it is excused for.
ProgressOf(t) ==
    /\ t.next \in 1..(Rows + 1)
    /\ ~t.failed => (1..(t.next - 1)) \ t.excused \subseteq RowsOf(files)
ImportsProgress == \A j \in Jobs : jobs[j].op = "import" => ProgressOf(jobs[j])

Inv == /\ AccountsTypeOK /\ JobsTyped /\ IdsReserved
       /\ RowsOwned /\ OneFilePerRow /\ PassportsStored /\ RemainderInRange
       /\ ImportsProgress

-----------------------------------------------------------------------------
\* A record whose remainder is in range.
InRange(m) ==
    /\ m.plan = "PREPAID" => m.total > 0 /\ m.upfront \in 0..m.total
    /\ m.plan = "NORMAL" => m.upfront \in {Null, m.total}

\* What rounding keeps of a sum and a difference.
LEMMA RoundedAmounts ==
    ASSUME NEW a \in Amounts, NEW b \in Amounts
    PROVE  /\ Plus(a, b) \in Int /\ Minus(a, b) \in Int
           /\ a > 0 /\ b > 0 => Plus(a, b) >= a /\ Plus(a, b) >= b
           /\ b > 0 => Minus(a, b) <= a
BY RoundingAssumption

\* Whatever the cells of a row hold, what the import makes of them is.
LEMMA PreparedInRange ==
    ASSUME NEW cell \in CellType
    PROVE  Prepared(cell) \in MoneyType /\ InRange(Prepared(cell))
<1> DEFINE total == cell.total
           down == IF cell.cash THEN total ELSE cell.down
           remain == IF cell.cash \/ cell.settled THEN 0 ELSE cell.remain
           t == TotalOf(total, down, remain)
           u == UpfrontOf(total, down, remain)
           plan == IF remain > 0 THEN "PREPAID" ELSE "NORMAL"
<1>1. /\ total \in Amounts /\ down \in Amounts
      /\ remain = 0 \/ remain \in Amounts
  BY DEF CellType
<1>3. Prepared(cell) = [total |-> AtLeastZero(t), upfront |-> AtLeastZero(u), plan |-> plan]
  BY DEF Prepared
<1> HIDE DEF total, down, remain
<1>i. \A a \in Amounts : a \in Int
  BY AccountsAssumption
<1>2. total \in Int /\ down \in Int /\ remain \in Int
  <2>1. total \in Int
    BY <1>1, <1>i
  <2>2. down \in Int
    BY <1>1, <1>i
  <2>3. remain \in Int
    BY <1>1, <1>i
  <2>4. QED
    BY <2>1, <2>2, <2>3
<1>4. /\ AtLeastZero(t) \in Nat /\ AtLeastZero(u) \in 0..AtLeastZero(t)
      /\ remain > 0 => AtLeastZero(t) > 0
      /\ ~(remain > 0) => AtLeastZero(u) = AtLeastZero(t)
  <2>1. CASE remain > 0 /\ down > 0
    <3>1. t = Plus(down, remain) /\ u = down
      BY <1>2, <2>1 DEF TotalOf, UpfrontOf
    <3>2. remain \in Amounts
      BY <1>1, <2>1
    <3>3. Plus(down, remain) \in Int
      BY <1>1, <3>2, RoundedAmounts
    <3>4. Plus(down, remain) >= down /\ Plus(down, remain) >= remain
      BY <1>1, <2>1, <3>2, RoundedAmounts
    <3> HIDE DEF t, u
    <3>5. QED
      BY <1>2, <2>1, <3>1, <3>3, <3>4 DEF AtLeastZero, Larger
  <2>2. CASE remain > 0 /\ ~(down > 0)
    <3> DEFINE most == Larger(total, remain)
    <3>1. t = most /\ u = Larger(Minus(most, remain), 0)
      BY <1>2, <2>2 DEF TotalOf, UpfrontOf
    <3>2. remain \in Amounts
      BY <1>1, <2>2
    <3>3. most \in Amounts /\ most \in Int /\ most >= remain
      BY <1>1, <1>2, <3>2 DEF Larger
    <3> HIDE DEF most
    <3>4. Minus(most, remain) \in Int
      BY <3>2, <3>3, RoundedAmounts
    <3>5. Minus(most, remain) <= most
      BY <2>2, <3>2, <3>3, RoundedAmounts
    <3> HIDE DEF t, u
    <3>6. QED
      BY <1>2, <2>2, <3>1, <3>3, <3>4, <3>5 DEF AtLeastZero, Larger
  <2>3. CASE ~(remain > 0)
    <3>1. t = Larger(total, down) /\ u = t
      BY <1>2, <2>3 DEF TotalOf, UpfrontOf
    <3> HIDE DEF t, u
    <3>2. QED
      BY <1>2, <2>3, <3>1 DEF AtLeastZero, Larger
  <2>4. QED
    BY <2>1, <2>2, <2>3
<1>5. plan \in {"NORMAL", "PREPAID"} /\ (plan = "PREPAID" <=> remain > 0)
  OBVIOUS
<1> DEFINE total1 == AtLeastZero(t)
           upfront1 == AtLeastZero(u)
<1>6. /\ total1 \in Nat /\ upfront1 \in 0..total1
      /\ plan = "PREPAID" => total1 > 0
      /\ plan = "NORMAL" => upfront1 = total1
  BY <1>4, <1>5
<1>7. Prepared(cell) = [total |-> total1, upfront |-> upfront1, plan |-> plan]
  BY <1>3
<1> HIDE DEF t, u, total1, upfront1, plan
<1>8. QED
  BY <1>5, <1>6, <1>7 DEF MoneyType, InRange

\* So is what the server lets staff enter.
LEMMA EntryInRange ==
    ASSUME NEW m \in Entries, MayRecord(m)
    PROVE  m \in MoneyType /\ InRange(m)
<1>1. m \in EntryType
  BY CellsAssumption
<1>2. QED
  BY <1>1 DEF EntryType, MayRecord, MoneyType, InRange, Null

\* A kind of job has the fields of its kind.
LEMMA JobFields ==
    ASSUME JobsTyped, NEW j \in Jobs
    PROVE  /\ jobs[j].op = "register" => jobs[j].email \in Emails
           /\ jobs[j].op = "onboard" => jobs[j].email \in Emails /\ jobs[j].id \in Int
           /\ Deletes(j) => jobs[j] \in [op : {"delete", "revert"}, users : SUBSET Int,
                                         listed : BOOLEAN, files : SUBSET Int]
           /\ jobs[j].op = "import" =>
                jobs[j] \in [op : {"import"}, next : Int, failed : BOOLEAN,
                             open : BOOLEAN, seen : SUBSET Int,
                             excused : SUBSET WorkbookRows]
BY DEF JobsTyped, JobType, Idle, Deletes

\* Jobs that are begun or ended, with the database as it is.
LEMMA OneJobChanges ==
    ASSUME Inv, UNCHANGED db, NEW j \in Jobs, NEW t \in JobType,
           jobs' = [jobs EXCEPT ![j] = t],
           t.op = "onboard" => FALSE,
           t.op = "import" => ProgressOf(t)
    PROVE  Inv'
<1>1. JobsTyped'
  BY DEF Inv, JobsTyped, JobType
<1>2. \A k \in Jobs : jobs'[k] = IF k = j THEN t ELSE jobs[k]
  BY DEF Inv, JobsTyped
<1>3. IdsReserved'
  BY <1>2 DEF Inv, IdsReserved, db, Ids
<1>4. ImportsProgress'
  BY <1>2 DEF Inv, ImportsProgress, ProgressOf, RowsOf, db
<1>5. QED
  BY <1>1, <1>3, <1>4 DEF Inv, db, AccountsTypeOK, RowsOwned, OneFilePerRow,
     PassportsStored, RemainderInRange, Ids

\* Requests and scripts that only look, start or stop.
LEMMA LookingKeepsInv ==
    ASSUME Inv, NEW j \in Jobs,
           \/ \E e \in Emails : BeginRegister(j, e)
           \/ \E u \in users : BeginDelete(j, u)
           \/ BeginRevert(j) \/ ListFiles(j)
           \/ BeginImport(j) \/ FinishImport(j)
           \/ Abort(j)
    PROVE  Inv'
<1>i. JobsTyped /\ AccountsTypeOK
  BY DEF Inv
<1>u. \A u \in users : u.id \in Int
  BY <1>i DEF AccountsTypeOK
<1>f. \A f \in files : f.id \in Int
  BY <1>i DEF AccountsTypeOK
<1>1. ASSUME NEW e \in Emails, BeginRegister(j, e)  PROVE Inv'
  <2> DEFINE t == [op |-> "register", email |-> e]
  <2>1. t \in JobType
    BY DEF JobType
  <2>2. QED
    BY <1>1, <2>1, OneJobChanges DEF BeginRegister, Begin
<1>2. ASSUME NEW u \in users, BeginDelete(j, u)  PROVE Inv'
  <2> DEFINE t == [op |-> "delete", users |-> {u.id}, listed |-> FALSE, files |-> {}]
  <2>1. t \in JobType
    BY <1>u DEF JobType
  <2>2. QED
    BY <1>2, <2>1, OneJobChanges DEF BeginDelete, Begin
<1>3. ASSUME BeginRevert(j)  PROVE Inv'
  <2> DEFINE t == [op |-> "revert", users |-> Ids(Imported), listed |-> FALSE, files |-> {}]
  <2>1. t \in JobType
    BY <1>u DEF JobType, Ids, Imported
  <2>2. QED
    BY <1>3, <2>1, OneJobChanges DEF BeginRevert, Begin
<1>4. ASSUME ListFiles(j)  PROVE Inv'
  <2> DEFINE t == [jobs[j] EXCEPT !.listed = TRUE,
                     !.files = Ids({f \in files : f.customer \in jobs[j].users})]
  <2>1. jobs[j] \in [op : {"delete", "revert"}, users : SUBSET Int,
                     listed : BOOLEAN, files : SUBSET Int]
    BY <1>4, <1>i, JobFields DEF ListFiles
  <2>2. t \in [op : {"delete", "revert"}, users : SUBSET Int,
               listed : BOOLEAN, files : SUBSET Int]
    BY <2>1, <1>f DEF Ids
  <2>3. t \in JobType /\ t.op # "onboard" /\ t.op # "import"
    BY <2>2 DEF JobType
  <2>4. jobs' = [jobs EXCEPT ![j] = t] /\ UNCHANGED db
    BY <1>4, <1>i DEF ListFiles, JobsTyped
  <2>5. QED
    BY <2>3, <2>4, OneJobChanges
<1>5. ASSUME BeginImport(j)  PROVE Inv'
  <2> DEFINE t == [op |-> "import", next |-> 1, failed |-> FALSE, open |-> FALSE,
                   seen |-> {}, excused |-> {}]
  <2>1. t \in JobType
    BY DEF JobType
  <2>2. ProgressOf(t)
    BY AccountsAssumption DEF ProgressOf
  <2>3. QED
    BY <1>5, <2>1, <2>2, OneJobChanges DEF BeginImport, Begin
<1>6. ASSUME FinishImport(j) \/ Abort(j)  PROVE Inv'
  <2>1. Idle \in JobType /\ Idle.op = "none"
    BY DEF JobType, Idle
  <2>2. jobs' = [jobs EXCEPT ![j] = Idle] /\ UNCHANGED db
    BY <1>6 DEF FinishImport, Abort, End
  <2>3. QED
    BY <2>1, <2>2, OneJobChanges
<1>7. QED
  BY <1>1, <1>2, <1>3, <1>4, <1>5, <1>6

\* An import that skips a row, looks at one, or gives one up.
LEMMA RowStepsKeepInv ==
    ASSUME Inv, NEW j \in Jobs, SkipRow(j) \/ BeginRow(j) \/ FailRow(j)
    PROVE  Inv'
<1> DEFINE t0 == jobs[j]
           T == [op : {"import"}, next : Int, failed : BOOLEAN, open : BOOLEAN,
                 seen : SUBSET Int, excused : SUBSET WorkbookRows]
<1>1. t0 \in T /\ t0.next \in WorkbookRows /\ JobsTyped
  BY JobFields DEF Inv, SkipRow, BeginRow, FailRow, AtRow
<1>2. ProgressOf(t0)
  BY <1>1 DEF Inv, ImportsProgress
<1>3. \A t \in T : t \in JobType /\ t.op # "onboard"
  BY DEF JobType
<1>4. CASE SkipRow(j)
  <2> DEFINE t == [t0 EXCEPT !.next = @ + 1, !.excused = @ \cup {t0.next}]
  <2>0. t0.next + 1 \in Int /\ t0.excused \cup {t0.next} \in SUBSET WorkbookRows
    BY <1>1
  <2>1. t \in T
    BY <1>1, <2>0
  <2>2. t.next = t0.next + 1 /\ t.excused = t0.excused \cup {t0.next} /\ t.failed = t0.failed
    BY <1>1
  <2>3. ProgressOf(t)
    BY <1>1, <1>2, <2>2, AccountsAssumption DEF ProgressOf, WorkbookRows
  <2>4. jobs' = [jobs EXCEPT ![j] = t] /\ UNCHANGED db
    BY <1>1, <1>4 DEF SkipRow, JobsTyped
  <2>5. QED
    BY <1>3, <2>1, <2>3, <2>4, OneJobChanges
<1>5. CASE BeginRow(j)
  <2> DEFINE t == [t0 EXCEPT !.open = TRUE, !.seen = Ids(Named(t0.next))]
  <2>0. Ids(Named(t0.next)) \in SUBSET Int
    BY DEF Ids, Named, Inv, AccountsTypeOK
  <2>1. t \in T
    BY <1>1, <2>0
  <2>2. t.next = t0.next /\ t.excused = t0.excused /\ t.failed = t0.failed
    BY <1>1
  <2>3. ProgressOf(t)
    BY <1>2, <2>2 DEF ProgressOf
  <2>4. jobs' = [jobs EXCEPT ![j] = t] /\ UNCHANGED db
    BY <1>1, <1>5 DEF BeginRow, JobsTyped
  <2>5. QED
    BY <1>3, <2>1, <2>3, <2>4, OneJobChanges
<1>6. CASE FailRow(j)
  <2> DEFINE t == FailCounted(t0)
  <2>0. t0.next + 1 \in Int
    BY <1>1
  <2>1. t \in T
    BY <1>1, <2>0 DEF FailCounted
  <2>2. t.next = t0.next + 1 /\ t.failed
    BY <1>1 DEF FailCounted
  <2>3. ProgressOf(t)
    BY <1>1, <1>2, <2>2, AccountsAssumption DEF ProgressOf, WorkbookRows
  <2>4. jobs' = [jobs EXCEPT ![j] = t] /\ UNCHANGED db
    BY <1>1, <1>6 DEF FailRow, JobsTyped
  <2>5. QED
    BY <1>3, <2>1, <2>3, <2>4, OneJobChanges
<1>7. QED
  BY <1>4, <1>5, <1>6

-----------------------------------------------------------------------------
\* A new account with an id and an address of its own keeps accounts in order.
LEMMA AccountAdded ==
    ASSUME AccountsTypeOK, NEW id, NEW e \in Addresses, NEW staff \in BOOLEAN,
           users' = users \cup {Account(id, e, staff)},
           minted' \in Int, minted <= minted',
           id \in 1..minted', id \notin Ids(users), ~Taken(e)
    PROVE  /\ (users \subseteq AccountType)'
           /\ UniqueUsers'
           /\ Ids(users') = Ids(users) \cup {id}
<1> DEFINE new == Account(id, e, staff)
<1>1. new.id = id /\ new.email = e /\ new \in AccountType'
  BY DEF Account, AccountType
<1>2. \A u \in users : u \in AccountType' /\ u.id # id /\ u.email # e
  BY DEF AccountsTypeOK, AccountType, Ids, Taken
<1>3. (users \subseteq AccountType)'
  BY <1>1, <1>2
<1>4. UniqueUsers'
  <2>1. \A u \in users' : u \in users \/ u = new
    OBVIOUS
  <2> HIDE DEF new
  <2>2. QED
    BY <1>1, <1>2, <2>1 DEF UniqueUsers, AccountsTypeOK
<1>5. Ids(users') = Ids(users) \cup {id}
  BY <1>1 DEF Ids
<1>6. QED
  BY <1>3, <1>4, <1>5

\* What refers to accounts and to ids stays in order when there are more.
LEMMA MoreIds ==
    ASSUME AccountsTypeOK, minted' \in Int, minted <= minted',
           Ids(users) \subseteq Ids(users')
    PROVE  /\ files \subseteq [id : 1..minted', customer : Ids(users'), row : 0..Rows,
                               money : MoneyType]
           /\ docs \subseteq [file : Ids(files), by : Ids(users'),
                              object : [of : 0..minted', nr : 0..Party]]
BY DEF AccountsTypeOK

\* createUser and its like, and the second half of register.
LEMMA NewAccountKeepsInv ==
    ASSUME Inv, NEW e \in Emails, NEW staff \in BOOLEAN,
           ~Taken(e), minted < MaxIds, minted' = minted + 1,
           users' = users \cup {Account(minted', e, staff)},
           UNCHANGED <<files, docs, objects>>,
           jobs' = jobs \/ \E j \in Jobs : End(j)
    PROVE  Inv'
<1>i. AccountsTypeOK /\ JobsTyped /\ IdsReserved /\ minted \in 0..MaxIds
  BY DEF Inv, AccountsTypeOK
<1>1. /\ minted' \in 1..MaxIds /\ minted' \notin Ids(users) /\ e \in Addresses
      /\ minted' \in Int /\ minted <= minted' /\ minted' \in 1..minted'
  BY <1>i, AccountsAssumption DEF AccountsTypeOK, Ids, Addresses
<1>2. /\ (users \subseteq AccountType)' /\ UniqueUsers'
      /\ Ids(users') = Ids(users) \cup {minted'}
  BY <1>i, <1>1, AccountAdded
<1>3. AccountsTypeOK'
  <2>1. files' = files /\ docs' = docs /\ Ids(users) \subseteq Ids(users')
    BY <1>2
  <2>2. /\ files \subseteq [id : 1..minted', customer : Ids(users'), row : 0..Rows,
                              money : MoneyType]
        /\ docs \subseteq [file : Ids(files), by : Ids(users'),
                             object : [of : 0..minted', nr : 0..Party]]
    BY <1>i, <1>1, <2>1, MoreIds
  <2>3. minted' \in 0..MaxIds
    BY <1>1
  <2>4. QED
    BY <1>2, <2>1, <2>2, <2>3 DEF AccountsTypeOK, AccountType, UniqueUsers
<1>4. Idle \in JobType /\ Idle.op = "none"
  BY DEF JobType, Idle
<1>5. \A k \in Jobs : jobs'[k] = jobs[k] \/ jobs'[k] = Idle
  BY <1>i DEF End, JobsTyped
<1>6. JobsTyped'
  BY <1>i, <1>4, <1>5 DEF JobsTyped, JobType, End
<1>7. IdsReserved'
  <2>1. ASSUME NEW k \in Jobs, jobs'[k].op = "onboard"
        PROVE  jobs'[k] = jobs[k] /\ jobs[k].id \in 1..minted
               /\ jobs[k].id \notin Ids(users)
    BY <2>1, <1>i, <1>4, <1>5 DEF IdsReserved
  <2>2. ASSUME NEW k \in Jobs, jobs'[k].op = "onboard"
        PROVE  jobs'[k].id \in 1..minted' /\ jobs'[k].id \notin Ids(users')
    <3>1. jobs'[k] = jobs[k] /\ jobs[k].id \in 1..minted /\ jobs[k].id \notin Ids(users)
      BY <2>1, <2>2
    <3>2. minted \in Int /\ minted' = minted + 1
      BY <1>i
    <3>3. jobs[k].id \in 1..minted' /\ jobs[k].id # minted'
      BY <3>1, <3>2
    <3>4. QED
      BY <3>1, <3>3, <1>2
  <2>3. QED
    BY <2>1, <2>2, <1>i DEF IdsReserved
<1>8. RowsOwned'
  BY DEF Inv, RowsOwned
<1>9. ImportsProgress'
  BY <1>4, <1>5 DEF Inv, ImportsProgress, ProgressOf, RowsOf
<1>10. QED
  BY <1>3, <1>6, <1>7, <1>8, <1>9
     DEF Inv, OneFilePerRow, PassportsStored, RemainderInRange

\* A passport is stored.
LEMMA StorePassportKeepsInv ==
    ASSUME Inv, NEW j \in Jobs, NEW o, StorePassport(j, o)
    PROVE  Inv'
BY DEF Inv, StorePassport, AccountsTypeOK, JobsTyped, JobType, IdsReserved, RowsOwned,
   OneFilePerRow, PassportsStored, RemainderInRange, ImportsProgress, ProgressOf, RowsOf, Ids

\* An onboarding begins, with an id that nobody else will get.
LEMMA BeginOnboardKeepsInv ==
    ASSUME Inv, NEW j \in Jobs, NEW e \in Emails, BeginOnboard(j, e)
    PROVE  Inv'
<1> DEFINE t == [op |-> "onboard", email |-> e, id |-> minted']
<1>i. AccountsTypeOK /\ JobsTyped /\ IdsReserved /\ minted \in 0..MaxIds
  BY DEF Inv, AccountsTypeOK
<1>1. minted' = minted + 1 /\ minted' \in 1..MaxIds /\ minted' \notin Ids(users)
  BY <1>i, AccountsAssumption DEF BeginOnboard, AccountsTypeOK, Ids
<1>2. AccountsTypeOK'
  BY <1>i, <1>1, MoreIds DEF BeginOnboard, AccountsTypeOK
<1>3. t \in JobType
  BY <1>1 DEF JobType
<1>4. JobsTyped' /\ \A k \in Jobs : jobs'[k] = IF k = j THEN t ELSE jobs[k]
  BY <1>i, <1>3 DEF BeginOnboard, Begin, JobsTyped, JobType
<1>5. IdsReserved'
  <2>1. \A k \in Jobs : jobs[k].op = "onboard" => jobs[k].id \in 1..minted
    BY <1>i DEF IdsReserved
  <2>2. QED
    BY <1>1, <1>4, <1>i, <2>1 DEF BeginOnboard, IdsReserved
<1>6. ImportsProgress'
  BY <1>4 DEF Inv, ImportsProgress, ProgressOf, RowsOf, BeginOnboard
<1>7. QED
  BY <1>2, <1>4, <1>5, <1>6
     DEF Inv, BeginOnboard, RowsOwned, OneFilePerRow, PassportsStored, RemainderInRange

\* An account whose flags change is the same account.
LEMMA AccountChanged ==
    ASSUME AccountsTypeOK, NEW u \in users, NEW v \in AccountType,
           v.id = u.id, v.email = u.email,
           users' = (users \ {u}) \cup {v}
    PROVE  /\ users' \subseteq AccountType
           /\ UniqueUsers'
           /\ Ids(users') = Ids(users)
           /\ \A x \in users : \E y \in users' : y.id = x.id /\ y.email = x.email
<1>1. users' \subseteq AccountType
  BY DEF AccountsTypeOK, AccountType
<1>2. \A y \in users' : y = v \/ (y \in users /\ y # u)
  OBVIOUS
<1>3. UniqueUsers'
  BY <1>2 DEF UniqueUsers, AccountsTypeOK
<1>4. \A x \in users : \E y \in users' : y.id = x.id /\ y.email = x.email
  OBVIOUS
<1>5. \A y \in users' : \E x \in users : y.id = x.id
  BY <1>2
<1>6. Ids(users') = Ids(users)
  BY <1>4, <1>5 DEF Ids
<1>7. QED
  BY <1>1, <1>3, <1>4, <1>6

LEMMA DeactivateKeepsInv ==
    ASSUME Inv, NEW u \in users, Deactivate(u)
    PROVE  Inv'
<1> DEFINE v == [u EXCEPT !.active = FALSE]
<1>i. AccountsTypeOK
  BY DEF Inv
<1>1. v \in AccountType /\ v.id = u.id /\ v.email = u.email
  BY <1>i DEF AccountsTypeOK, AccountType
<1>2. /\ users' = (users \ {u}) \cup {v}
      /\ UNCHANGED <<files, docs, objects, minted, jobs>>
  BY DEF Deactivate
<1> HIDE DEF v
<1>3. /\ users' \subseteq AccountType
      /\ UniqueUsers'
      /\ Ids(users') = Ids(users)
      /\ \A x \in users : \E y \in users' : y.id = x.id /\ y.email = x.email
  BY <1>i, <1>1, <1>2, AccountChanged
<1>4. AccountsTypeOK'
  BY <1>i, <1>2, <1>3 DEF AccountsTypeOK, AccountType, UniqueUsers
<1>5. RowsOwned'
  <2>1. ASSUME NEW f \in files', f.row # 0
        PROVE  \E y \in users' : y.id = f.customer /\ y.email = f.row
    <3>1. PICK x \in users : x.id = f.customer /\ x.email = f.row
      BY <1>2, <2>1 DEF Inv, RowsOwned
    <3>2. QED
      BY <1>3, <3>1
  <2>2. QED
    BY <2>1 DEF RowsOwned
<1>6. IdsReserved' /\ JobsTyped'
  BY <1>2, <1>3 DEF Inv, IdsReserved, JobsTyped, JobType
<1>7. QED
  BY <1>2, <1>4, <1>5, <1>6
     DEF Inv, OneFilePerRow, PassportsStored, RemainderInRange, ImportsProgress, ProgressOf

\* A file is opened for a customer.
LEMMA OpenFileKeepsInv ==
    ASSUME Inv, NEW u \in users, OpenFile(u)
    PROVE  Inv'
<1> DEFINE f == File(minted', u.id, 0, NoMoney)
<1>i. AccountsTypeOK /\ minted \in 0..MaxIds
  BY DEF Inv, AccountsTypeOK
<1>1. /\ minted' = minted + 1 /\ minted' \in 1..MaxIds
      /\ files' = files \cup {f}
      /\ UNCHANGED <<users, docs, objects, jobs>>
  BY <1>i, AccountsAssumption DEF OpenFile
<1>2. /\ f \in [id : 1..minted', customer : Ids(users'), row : 0..Rows, money : MoneyType]
      /\ f.row = 0
  BY <1>1, AccountsAssumption DEF File, Ids, NoMoney, MoneyType, Null
<1>m. f.money.plan = "NONE"
  BY DEF File, NoMoney
<1>3. /\ files \subseteq [id : 1..minted', customer : Ids(users'), row : 0..Rows,
                            money : MoneyType]
      /\ docs \subseteq [file : Ids(files), by : Ids(users'),
                           object : [of : 0..minted', nr : 0..Party]]
      /\ users' \subseteq [id : 1..minted', email : Addresses, staff : BOOLEAN,
                            active : BOOLEAN]
  BY <1>i, <1>1 DEF AccountsTypeOK
<1> HIDE DEF f
<1>4. Ids(files) \subseteq Ids(files')
  BY <1>1 DEF Ids
<1>5. AccountsTypeOK'
  <2>1. docs' \subseteq [file : Ids(files'), by : Ids(users'),
                         object : [of : 0..minted', nr : 0..Party]]
    BY <1>1, <1>3, <1>4
  <2>2. files' \subseteq [id : 1..minted', customer : Ids(users'), row : 0..Rows,
                          money : MoneyType]
    BY <1>1, <1>2, <1>3
  <2>3. \A x, y \in users' : x.id = y.id \/ x.email = y.email => x = y
    BY <1>i, <1>1 DEF AccountsTypeOK
  <2>4. minted' \in 0..MaxIds
    BY <1>1
  <2>5. QED
    BY <1>3, <2>1, <2>2, <2>3, <2>4 DEF AccountsTypeOK
<1>6. RowsOwned' /\ OneFilePerRow' /\ RemainderInRange'
  BY <1>1, <1>2, <1>m DEF Inv, RowsOwned, OneFilePerRow, RemainderInRange
<1>7. IdsReserved' /\ JobsTyped'
  BY <1>i, <1>1 DEF Inv, IdsReserved, JobsTyped, JobType, Ids
<1>8. ImportsProgress'
  BY <1>1 DEF Inv, ImportsProgress, ProgressOf, RowsOf
<1>9. QED
  BY <1>1, <1>5, <1>6, <1>7, <1>8 DEF Inv, PassportsStored

\* The CRM record of an imported file is written anew.
LEMMA EditMoneyKeepsInv ==
    ASSUME Inv, NEW f \in files, NEW m \in Entries, EditMoney(f, m)
    PROVE  Inv'
<1> DEFINE g == [f EXCEPT !.money = m]
<1>1. m \in MoneyType /\ InRange(m)
  BY EntryInRange DEF EditMoney
<1>2. /\ files' = (files \ {f}) \cup {g} /\ f.row # 0
      /\ UNCHANGED <<users, docs, objects, minted, jobs>>
  BY DEF EditMoney
<1>3. f \in FileRecord
  BY DEF Inv, AccountsTypeOK, FileRecord
<1>4. /\ g \in FileRecord /\ g.money = m
      /\ g.id = f.id /\ g.row = f.row /\ g.customer = f.customer
  BY <1>1, <1>3 DEF FileRecord
<1> HIDE DEF g
<1>5. files' \subseteq FileRecord /\ Ids(users') = Ids(users) /\ FileRecord' = FileRecord
  BY <1>2, <1>4 DEF Inv, AccountsTypeOK, FileRecord, Ids
<1>6. Ids(files') = Ids(files)
  BY <1>2, <1>4 DEF Ids
<1>7. RowsOf(files') = RowsOf(files)
  BY <1>2, <1>4 DEF RowsOf
<1>8. AccountsTypeOK'
  BY <1>2, <1>5, <1>6 DEF Inv, AccountsTypeOK, FileRecord
<1>9. OneFilePerRow'
  BY <1>2, <1>4 DEF Inv, OneFilePerRow
<1>10. RowsOwned'
  BY <1>2, <1>4 DEF Inv, RowsOwned
<1>11. RemainderInRange'
  <2>1. \A x \in files' : InRange(x.money)
    BY <1>1, <1>2, <1>4 DEF Inv, RemainderInRange, InRange
  <2>2. QED
    BY <2>1 DEF RemainderInRange, InRange
<1>12. ImportsProgress'
  BY <1>2, <1>7 DEF Inv, ImportsProgress, ProgressOf
<1>13. JobsTyped' /\ IdsReserved' /\ PassportsStored'
  BY <1>2 DEF Inv, JobsTyped, JobType, IdsReserved, PassportsStored, Ids
<1>14. QED
  BY <1>8, <1>9, <1>10, <1>11, <1>12, <1>13 DEF Inv

\* A document is added to a file.
LEMMA AddDocumentKeepsInv ==
    ASSUME Inv, NEW u \in users, NEW f \in files, AddDocument(u, f)
    PROVE  Inv'
<1> DEFINE d == [file |-> f.id, by |-> u.id, object |-> NoObject]
<1>1. docs' = docs \cup {d} /\ UNCHANGED <<users, files, objects, minted, jobs>>
  BY DEF AddDocument
<1>2. d \in DocRecord /\ d.object = NoObject
  BY AccountsAssumption DEF Inv, AccountsTypeOK, DocRecord, Ids, NoObject
<1> HIDE DEF d
<1>3. AccountsTypeOK'
  BY <1>1, <1>2 DEF Inv, AccountsTypeOK, DocRecord
<1>4. PassportsStored'
  BY <1>1, <1>2 DEF Inv, PassportsStored
<1>5. IdsReserved' /\ JobsTyped'
  BY <1>1 DEF Inv, IdsReserved, JobsTyped, JobType
<1>6. QED
  BY <1>1, <1>3, <1>4, <1>5
     DEF Inv, RowsOwned, OneFilePerRow, RemainderInRange, ImportsProgress, ProgressOf

\* An onboarding is committed: account, file and passports at once.
LEMMA CommitOnboardKeepsInv ==
    ASSUME Inv, NEW j \in Jobs, CommitOnboard(j)
    PROVE  Inv'
<1> DEFINE id == jobs[j].id
           e == jobs[j].email
           f == File(minted', id, 0, NoMoney)
           D == {[file |-> minted', by |-> id, object |-> o] : o \in Passports(id)}
<1>i. AccountsTypeOK /\ JobsTyped /\ IdsReserved /\ minted \in 0..MaxIds
  BY DEF Inv, AccountsTypeOK
<1>1. /\ jobs[j].op = "onboard" /\ e \in Emails /\ ~Taken(e)
      /\ id \in 1..minted /\ id \notin Ids(users)
  BY <1>i, JobFields DEF CommitOnboard, IdsReserved
<1>2. /\ minted' = minted + 1 /\ minted' \in 1..MaxIds /\ id \in 1..minted'
      /\ minted \in Int /\ e \in Addresses /\ minted' \in Int /\ minted <= minted'
  BY <1>i, <1>1, AccountsAssumption DEF CommitOnboard, Addresses
<1>3. /\ users' = users \cup {Account(id, e, FALSE)}
      /\ files' = files \cup {f} /\ docs' = docs \cup D
      /\ objects' = objects /\ jobs' = [jobs EXCEPT ![j] = Idle]
      /\ AllStored(id)
  BY DEF CommitOnboard, End
<1>4. /\ (users \subseteq AccountType)' /\ UniqueUsers'
      /\ Ids(users') = Ids(users) \cup {id}
  BY <1>i, <1>1, <1>2, <1>3, AccountAdded
<1>5. /\ f \in [id : 1..minted', customer : Ids(users'), row : 0..Rows, money : MoneyType]
      /\ f.row = 0 /\ f.id = minted'
  BY <1>2, <1>4, AccountsAssumption DEF File, NoMoney, MoneyType
<1>m. f.money.plan = "NONE"
  BY DEF File, NoMoney
<1>6. /\ files \subseteq [id : 1..minted', customer : Ids(users'), row : 0..Rows,
                            money : MoneyType]
      /\ docs \subseteq [file : Ids(files), by : Ids(users'),
                           object : [of : 0..minted', nr : 0..Party]]
  BY <1>i, <1>2, <1>4, MoreIds
<1> HIDE DEF f
<1>7. Ids(files) \subseteq Ids(files') /\ minted' \in Ids(files')
  BY <1>3, <1>5 DEF Ids
<1>8. \A d \in D : /\ d \in [file : Ids(files'), by : Ids(users'),
                              object : [of : 0..minted', nr : 0..Party]]
                  /\ d.object \in objects
  <2>1. \A o \in Passports(id) : o \in [of : 0..minted', nr : 0..Party] /\ o \in objects
    BY <1>2, <1>3, AccountsAssumption DEF Passports, AllStored
  <2>2. QED
    BY <2>1, <1>4, <1>7
<1> HIDE DEF D
<1>9. AccountsTypeOK'
  <2>1. docs' \subseteq [file : Ids(files'), by : Ids(users'),
                         object : [of : 0..minted', nr : 0..Party]]
    BY <1>3, <1>6, <1>7, <1>8
  <2>2. files' \subseteq [id : 1..minted', customer : Ids(users'), row : 0..Rows,
                          money : MoneyType]
    BY <1>3, <1>5, <1>6
  <2>3. minted' \in 0..MaxIds
    BY <1>2
  <2>4. QED
    BY <1>4, <2>1, <2>2, <2>3 DEF AccountsTypeOK, AccountType, UniqueUsers
<1>10. PassportsStored'
  BY <1>3, <1>8 DEF Inv, PassportsStored
<1>11. RowsOwned' /\ OneFilePerRow' /\ RemainderInRange'
  BY <1>3, <1>5, <1>m DEF Inv, RowsOwned, OneFilePerRow, RemainderInRange
<1>12. Idle \in JobType /\ Idle.op = "none"
  BY DEF JobType, Idle
<1>13. JobsTyped' /\ \A k \in Jobs : jobs'[k] = IF k = j THEN Idle ELSE jobs[k]
  BY <1>i, <1>3, <1>12 DEF JobsTyped, JobType
<1>14. IdsReserved'
  <2>1. ASSUME NEW k \in Jobs, jobs'[k].op = "onboard"
        PROVE  /\ k # j /\ jobs'[k] = jobs[k]
               /\ jobs[k].id \in 1..minted' /\ jobs[k].id \notin Ids(users')
    <3>1. k # j /\ jobs'[k] = jobs[k]
      BY <2>1, <1>12, <1>13
    <3>2. jobs[k].id \in 1..minted /\ jobs[k].id \notin Ids(users) /\ jobs[k].id # id
      BY <2>1, <3>1, <1>1, <1>i DEF IdsReserved
    <3>3. QED
      BY <3>1, <3>2, <1>2, <1>4
  <2>2. QED
    BY <2>1, <1>i DEF IdsReserved
<1>15. ImportsProgress'
  BY <1>3, <1>12, <1>13 DEF Inv, ImportsProgress, ProgressOf, RowsOf
<1>16. QED
  BY <1>9, <1>10, <1>11, <1>13, <1>14, <1>15 DEF Inv

\* A deletion is committed: nothing that stays refers to what goes, and a
\* running import is excused for the files that went.
LEMMA CommitDeletionKeepsInv ==
    ASSUME Inv, NEW j \in Jobs, CommitDeletion(j)
    PROVE  Inv'
<1> DEFINE t == jobs[j]
           gone == {f \in files : f.id \in t.files}
<1>i. AccountsTypeOK /\ JobsTyped /\ IdsReserved /\ RowsOwned
  BY DEF Inv
<1>1. /\ users' = {u \in users : u.id \notin t.users}
      /\ files' = files \ gone
      /\ docs' = {d \in docs : d.file \notin t.files /\ d.by \notin t.users}
      /\ jobs' = [k \in Jobs |->
                     IF k = j THEN Idle
                     ELSE IF jobs[k].op = "import"
                     THEN [jobs[k] EXCEPT !.excused = @ \cup RowsOf(gone)]
                     ELSE jobs[k]]
      /\ UNCHANGED <<objects, minted>>
  BY DEF CommitDeletion
<1>2. \A f \in files' : f \in files /\ f.id \notin t.files /\ f.customer \notin t.users
  BY <1>1 DEF CommitDeletion, NothingRefersTo
<1>3. AccountsTypeOK'
  <2>1. \A f \in files' : f.customer \in Ids(users')
    BY <1>1, <1>2, <1>i DEF AccountsTypeOK, Ids
  <2>2. \A d \in docs' : d.file \in Ids(files') /\ d.by \in Ids(users')
    BY <1>1, <1>i DEF AccountsTypeOK, Ids
  <2>3. users' \subseteq users /\ docs' \subseteq docs /\ files' \subseteq files
    BY <1>1
  <2>4. files' \subseteq [id : 1..minted, customer : Ids(users'), row : 0..Rows,
                          money : MoneyType]
    BY <2>1, <2>3, <1>i DEF AccountsTypeOK
  <2>5. docs' \subseteq [file : Ids(files'), by : Ids(users'),
                         object : [of : 0..minted, nr : 0..Party]]
    BY <2>2, <2>3, <1>i DEF AccountsTypeOK
  <2>6. QED
    BY <2>3, <2>4, <2>5, <1>1, <1>i DEF AccountsTypeOK
<1>4. RowsOwned'
  BY <1>1, <1>2, <1>i DEF RowsOwned
<1>5. OneFilePerRow' /\ RemainderInRange' /\ PassportsStored'
  BY <1>1 DEF Inv, OneFilePerRow, RemainderInRange, PassportsStored
<1>6. RowsOf(gone) \subseteq WorkbookRows
  BY <1>i, AccountsAssumption DEF RowsOf, AccountsTypeOK, WorkbookRows
<1> DEFINE T == [op : {"import"}, next : Int, failed : BOOLEAN, open : BOOLEAN,
                 seen : SUBSET Int, excused : SUBSET WorkbookRows]
<1>7. Idle \in JobType /\ Idle.op = "none"
  BY DEF JobType, Idle
<1> HIDE DEF gone
<1>8. ASSUME NEW k \in Jobs, k # j, jobs[k].op = "import"
      PROVE  /\ jobs'[k] \in T
             /\ jobs'[k].next = jobs[k].next /\ jobs'[k].failed = jobs[k].failed
             /\ jobs'[k].excused = jobs[k].excused \cup RowsOf(gone)
  <2>1. jobs[k] \in T
    BY <1>8, <1>i, JobFields
  <2>2. jobs[k].excused \cup RowsOf(gone) \in SUBSET WorkbookRows
    BY <2>1, <1>6
  <2>3. jobs'[k] = [jobs[k] EXCEPT !.excused = jobs[k].excused \cup RowsOf(gone)]
    BY <1>1, <1>8
  <2>4. QED
    BY <2>1, <2>2, <2>3
<1>9. \A k \in Jobs : jobs[k].op # "import" \/ k = j =>
          jobs'[k] = IF k = j THEN Idle ELSE jobs[k]
  BY <1>1
<1>10. JobsTyped'
  <2>1. T \subseteq JobType
    BY DEF JobType
  <2>2. \A k \in Jobs : jobs'[k] \in JobType
    BY <2>1, <1>7, <1>8, <1>9, <1>i DEF JobsTyped
  <2>3. jobs' \in [Jobs -> JobType]
    BY <1>1, <2>2
  <2>4. QED
    BY <2>3 DEF JobsTyped, JobType
<1>11. IdsReserved'
  <2>1. ASSUME NEW k \in Jobs, jobs'[k].op = "onboard"
        PROVE  k # j /\ jobs'[k] = jobs[k]
    BY <2>1, <1>7, <1>8, <1>9
  <2>2. Ids(users') \subseteq Ids(users) /\ minted' = minted
    BY <1>1 DEF Ids
  <2>3. QED
    BY <2>1, <2>2, <1>i DEF IdsReserved
<1>12. ImportsProgress'
  <2>1. RowsOf(files) \subseteq RowsOf(files') \cup RowsOf(gone)
    BY <1>1 DEF RowsOf
  <2>2. ASSUME NEW k \in Jobs, jobs'[k].op = "import"
        PROVE  ProgressOf(jobs[k]) /\ k # j /\ jobs[k].op = "import"
    BY <2>2, <1>7, <1>9 DEF Inv, ImportsProgress
  <2>3. QED
    BY <2>1, <2>2, <1>8 DEF ImportsProgress, ProgressOf
<1>13. QED
  BY <1>3, <1>4, <1>5, <1>10, <1>11, <1>12 DEF Inv

-----------------------------------------------------------------------------
\* The upsert leaves one account with the row's address, and every other
\* account as it was.
LEMMA UpsertNames ==
    ASSUME AccountsTypeOK, NEW r \in WorkbookRows, NEW owner,
           Named(r) = {} => owner = minted + 1,
           Named(r) # {} => owner \in Ids(Named(r)),
           users' = UpsertUser(r),
           minted' \in Int, minted <= minted',
           Named(r) = {} => minted + 1 <= minted'
    PROVE  /\ (users \subseteq AccountType)'
           /\ UniqueUsers'
           /\ Ids(users) \subseteq Ids(users')
           /\ Ids(users') \subseteq Ids(users) \cup {minted + 1}
           /\ \A x \in users : \E y \in users' : y.id = x.id /\ y.email = x.email
           /\ \E y \in users' : y.id = owner /\ y.email = r
<1>m. minted \in Nat /\ r \in Addresses
  BY AccountsAssumption DEF AccountsTypeOK, Addresses
<1>1. CASE Named(r) = {}
  <2>1. /\ users' = users \cup {Account(minted + 1, r, FALSE)}
        /\ owner = minted + 1
    BY <1>1 DEF UpsertUser
  <2>2. minted + 1 \in 1..minted' /\ minted + 1 \notin Ids(users) /\ ~Taken(r)
    BY <1>1, <1>m DEF AccountsTypeOK, Ids, Named, Taken
  <2>3. /\ (users \subseteq AccountType)' /\ UniqueUsers'
        /\ Ids(users') = Ids(users) \cup {minted + 1}
    BY <1>m, <2>1, <2>2, AccountAdded
  <2>4. Account(minted + 1, r, FALSE).id = minted + 1 /\ Account(minted + 1, r, FALSE).email = r
    BY DEF Account
  <2>5. QED
    BY <2>1, <2>3, <2>4
<1>2. CASE Named(r) # {}
  <2>1. PICK u \in users : u.email = r
    BY <1>2 DEF Named
  <2>2. Named(r) = {u}
    BY <2>1 DEF Named, AccountsTypeOK
  <2> DEFINE v == [u EXCEPT !.active = TRUE, !.staff = FALSE]
  <2>3. v \in AccountType /\ v.id = u.id /\ v.email = u.email
    BY DEF AccountsTypeOK, AccountType
  <2>4. users' = (users \ {u}) \cup {v}
    BY <2>2, <1>2 DEF UpsertUser
  <2> HIDE DEF v
  <2>5. /\ users' \subseteq AccountType /\ UniqueUsers' /\ Ids(users') = Ids(users)
        /\ \A x \in users : \E y \in users' : y.id = x.id /\ y.email = x.email
    BY <2>3, <2>4, AccountChanged
  <2>6. AccountType \subseteq AccountType'
    BY <1>m DEF AccountType
  <2>7. Ids(Named(r)) = {u.id}
    BY <2>2 DEF Ids
  <2>8. owner = u.id
    BY <1>2, <2>7
  <2>9. QED
    BY <2>1, <2>3, <2>4, <2>5, <2>6, <2>8
<1>3. QED
  BY <1>1, <1>2

\* A row is committed.  There was no other file of the row to be found, because
\* a file from the workbook is its own account's.
LEMMA CommitRowKeepsInv ==
    ASSUME Inv, NEW j \in Jobs,
           NEW cell \in Cells[jobs[j].next], CommitRow(j, cell)
    PROVE  Inv'
<1> DEFINE money == Prepared(cell)
           t == jobs[j]
           r == t.next
           there == FileOfRow(r, t)
           owner == IF Named(r) = {} THEN minted + 1
                    ELSE CHOOSE id \in Ids(Named(r)) : TRUE
           T == [op : {"import"}, next : Int, failed : BOOLEAN, open : BOOLEAN,
                 seen : SUBSET Int, excused : SUBSET WorkbookRows]
<1>i. /\ AccountsTypeOK /\ JobsTyped /\ IdsReserved /\ RowsOwned
      /\ OneFilePerRow /\ RemainderInRange /\ minted \in Nat
  BY AccountsAssumption DEF Inv, AccountsTypeOK
<1>1. t \in T /\ r \in WorkbookRows /\ r # 0 /\ r \in 0..Rows
  BY <1>i, JobFields, AccountsAssumption DEF CommitRow, AtRow, WorkbookRows
<1>2. money \in MoneyType /\ InRange(money)
  <2>1. cell \in CellType
    BY <1>1, CellsAssumption
  <2>2. QED
    BY <2>1, PreparedInRange
<1>3. /\ minted + 2 <= MaxIds
      /\ minted' = minted + (IF Named(r) = {} THEN 1 ELSE 0)
                          + (IF there = {} THEN 1 ELSE 0)
      /\ users' = UpsertUser(r)
      /\ files' = IF there = {}
                  THEN files \cup {File(minted', owner, r, money)}
                  ELSE LET f == CHOOSE x \in there : TRUE IN
                       (files \ {f}) \cup {[f EXCEPT !.money = money]}
      /\ jobs' = [jobs EXCEPT ![j].open = FALSE, ![j].next = @ + 1]
      /\ UNCHANGED <<docs, objects>>
  BY DEF CommitRow
<1> HIDE DEF money
<1>4. /\ minted' \in 0..MaxIds /\ minted' \in Int /\ minted <= minted'
      /\ Named(r) = {} => minted + 1 <= minted'
      /\ there = {} => minted' \in 1..minted'
  BY <1>i, <1>3, AccountsAssumption
<1>5. /\ (users \subseteq AccountType)' /\ UniqueUsers'
      /\ Ids(users) \subseteq Ids(users')
      /\ Ids(users') \subseteq Ids(users) \cup {minted + 1}
      /\ \A x \in users : \E y \in users' : y.id = x.id /\ y.email = x.email
      /\ \E y \in users' : y.id = owner /\ y.email = r
  <2>1. /\ r \in WorkbookRows
        /\ users' = UpsertUser(r)
        /\ Named(r) = {} => minted + 1 <= minted'
        /\ Named(r) = {} => owner = minted + 1
    BY <1>1, <1>3, <1>4
  <2>2. Named(r) # {} => owner \in Ids(Named(r))
    <3>1. Named(r) # {} => Ids(Named(r)) # {}
      BY DEF Ids
    <3>2. QED
      BY <3>1
  <2> HIDE DEF r, owner
  <2>3. QED
    BY <1>i, <1>4, <2>1, <2>2, UpsertNames
<1>6. /\ files \subseteq [id : 1..minted', customer : Ids(users'), row : 0..Rows,
                            money : MoneyType]
      /\ docs \subseteq [file : Ids(files), by : Ids(users'),
                           object : [of : 0..minted', nr : 0..Party]]
  BY <1>i, <1>4, <1>5, MoreIds
<1>7. there = {f \in files : f.row = r}
  <2>1. \A f \in files : f.row = r => f.customer \in Ids(Named(r))
    BY <1>1, <1>i DEF RowsOwned, Ids, Named
  <2>2. QED
    BY <2>1 DEF FileOfRow
\* The file of the row, new or old: all others have other rows.
<1>8. PICK g : /\ files' = {f \in files : f.row # r} \cup {g}
               /\ g \in [id : 1..minted', customer : Ids(users'), row : 0..Rows,
                          money : MoneyType]
               /\ g.row = r /\ g.money = money
               /\ \E y \in users' : y.id = g.customer /\ y.email = r
               /\ Ids(files) \subseteq Ids(files')
  <2>1. CASE there = {}
    <3> DEFINE g == File(minted', owner, r, money)
    <3>1. files' = {f \in files : f.row # r} \cup {g}
      BY <1>3, <1>7, <2>1
    <3>2. owner \in Ids(users')
      BY <1>5 DEF Ids
    <3>3. g.id = minted' /\ g.customer = owner /\ g.row = r /\ g.money = money
      BY DEF File
    <3>4. g \in [id : 1..minted', customer : Ids(users'), row : 0..Rows, money : MoneyType]
      <4> HIDE DEF owner, r
      <4>1. QED
        BY <1>1, <1>2, <1>4, <2>1, <3>2 DEF File
    <3>5. Ids(files) \subseteq Ids(files')
      BY <1>3, <2>1 DEF Ids
    <3> HIDE DEF g
    <3>6. QED
      BY <3>1, <3>3, <3>4, <3>5, <1>5
  <2>2. CASE there # {}
    <3> DEFINE f == CHOOSE x \in there : TRUE
               g == [f EXCEPT !.money = money]
    <3>1. f \in files /\ f.row = r
      BY <2>2, <1>7
    <3>2. files' = (files \ {f}) \cup {g}
      BY <1>3, <2>2
    <3> HIDE DEF f
    <3>3. files \ {f} = {x \in files : x.row # r}
      BY <3>1, <1>1, <1>i DEF OneFilePerRow
    <3>4. f \in [id : 1..minted', customer : Ids(users'), row : 0..Rows, money : MoneyType]
      BY <3>1, <1>6
    <3>5. /\ g \in [id : 1..minted', customer : Ids(users'), row : 0..Rows, money : MoneyType]
          /\ g.id = f.id /\ g.row = r /\ g.money = money /\ g.customer = f.customer
      BY <3>1, <3>4, <1>2
    <3>6. PICK x \in users : x.id = f.customer /\ x.email = r
      BY <3>1, <1>1, <1>i DEF RowsOwned
    <3>7. \E y \in users' : y.id = f.customer /\ y.email = r
      BY <3>6, <1>5
    <3> HIDE DEF g
    <3>8. Ids(files) \subseteq Ids(files')
      BY <3>2, <3>5 DEF Ids
    <3>9. QED
      BY <3>2, <3>3, <3>5, <3>7, <3>8
  <2>3. QED
    BY <2>1, <2>2
<1> HIDE DEF owner, there
<1>9. AccountsTypeOK'
  <2>1. docs' \subseteq [file : Ids(files'), by : Ids(users'),
                         object : [of : 0..minted', nr : 0..Party]]
    BY <1>3, <1>6, <1>8
  <2>2. files' \subseteq [id : 1..minted', customer : Ids(users'), row : 0..Rows,
                          money : MoneyType]
    BY <1>6, <1>8
  <2>3. QED
    BY <1>4, <1>5, <2>1, <2>2 DEF AccountsTypeOK, AccountType, UniqueUsers
<1>10. RowsOwned'
  <2>1. ASSUME NEW f \in files', f.row # 0
        PROVE  \E y \in users' : y.id = f.customer /\ y.email = f.row
    <3>1. CASE f = g
      BY <3>1, <1>8
    <3>2. CASE f \in files
      <4>1. PICK x \in users : x.id = f.customer /\ x.email = f.row
        BY <2>1, <3>2, <1>i DEF RowsOwned
      <4>2. QED
        BY <4>1, <1>5
    <3>3. QED
      BY <3>1, <3>2, <1>8
  <2>2. QED
    BY <2>1 DEF RowsOwned
<1>11. OneFilePerRow'
  BY <1>8, <1>i DEF OneFilePerRow
<1>12. RemainderInRange'
  <2>1. \A f \in files : InRange(f.money)
    BY <1>i DEF RemainderInRange, InRange
  <2>2. \A f \in files' : InRange(f.money)
    BY <1>2, <1>8, <2>1
  <2>3. QED
    BY <2>2 DEF RemainderInRange, InRange
<1>13. PassportsStored'
  BY <1>3 DEF Inv, PassportsStored
<1> DEFINE t1 == [t EXCEPT !.open = FALSE, !.next = t.next + 1]
<1>14. /\ t1 \in T /\ t1.op = "import" /\ t1.next = r + 1
       /\ t1.failed = t.failed /\ t1.excused = t.excused
  <2>1. t.next + 1 \in Int
    BY <1>1
  <2>2. QED
    BY <1>1, <2>1
<1>15. jobs' = [jobs EXCEPT ![j] = t1]
  BY <1>3, <1>i DEF JobsTyped
<1> HIDE DEF t1
<1>16. JobsTyped' /\ \A k \in Jobs : jobs'[k] = IF k = j THEN t1 ELSE jobs[k]
  <2>1. t1 \in JobType
    BY <1>14 DEF JobType
  <2>2. QED
    BY <1>i, <1>15, <2>1 DEF JobsTyped, JobType
<1>17. IdsReserved'
  <2>1. ASSUME NEW k \in Jobs, jobs'[k].op = "onboard"
        PROVE  /\ jobs'[k] = jobs[k] /\ jobs[k].op = "onboard"
               /\ jobs[k].id \in 1..minted' /\ jobs[k].id \notin Ids(users')
    <3>1. jobs'[k] = jobs[k] /\ jobs[k].op = "onboard"
      BY <2>1, <1>14, <1>16
    <3>2. jobs[k].id \in 1..minted /\ jobs[k].id \notin Ids(users)
      BY <3>1, <1>i DEF IdsReserved
    <3>3. jobs[k].id # minted + 1 /\ jobs[k].id \in 1..minted'
      BY <3>2, <1>4, <1>i
    <3>4. QED
      BY <3>1, <3>2, <3>3, <1>5
  <2>2. QED
    BY <2>1, <1>i DEF IdsReserved
<1>18. RowsOf(files) \cup {r} \subseteq RowsOf(files')
  BY <1>1, <1>8 DEF RowsOf
<1>19. ProgressOf(t)
  BY <1>1 DEF Inv, ImportsProgress
<1>20. (1..(t1.next - 1)) \ t1.excused \subseteq ((1..(t.next - 1)) \ t.excused) \cup {r}
  BY <1>1, <1>14
<1>21. ImportsProgress'
  <2>1. /\ t1.next \in 1..(Rows + 1)
        /\ ~t1.failed => (1..(t1.next - 1)) \ t1.excused \subseteq RowsOf(files')
    <3>1. t1.next \in 1..(Rows + 1)
      BY <1>1, <1>14, AccountsAssumption DEF WorkbookRows
    <3>2. QED
      BY <3>1, <1>14, <1>18, <1>19, <1>20 DEF ProgressOf
  <2>2. QED
    BY <2>1, <1>14, <1>16, <1>18 DEF Inv, ImportsProgress, ProgressOf
<1>22. QED
  BY <1>9, <1>10, <1>11, <1>12, <1>13, <1>16, <1>17, <1>21 DEF Inv

-----------------------------------------------------------------------------
LEMMA InitHasInv == Init => Inv
<1>1. Idle \in JobType /\ Idle.op = "none"
  BY DEF JobType, Idle
<1>2. QED
  BY <1>1, AccountsAssumption
     DEF Init, Inv, AccountsTypeOK, JobsTyped, JobType, IdsReserved, RowsOwned, OneFilePerRow,
         PassportsStored, RemainderInRange, ImportsProgress, Ids

LEMMA StepKeepsInv == Inv /\ [Next]_vars => Inv'
<1> SUFFICES ASSUME Inv, [Next]_vars
             PROVE  Inv'
  OBVIOUS
<1>1. ASSUME NEW j \in Jobs, NEW e \in Emails, BeginRegister(j, e) \/ BeginOnboard(j, e)
      PROVE  Inv'
  BY <1>1, LookingKeepsInv, BeginOnboardKeepsInv
<1>2. ASSUME NEW j \in Jobs, CommitRegister(j)  PROVE Inv'
  <2>1. jobs[j].email \in Emails
    BY <1>2, JobFields DEF Inv, CommitRegister
  <2>2. QED
    BY <1>2, <2>1, NewAccountKeepsInv DEF CommitRegister
<1>3. ASSUME NEW j \in Jobs, CommitOnboard(j)  PROVE Inv'
  BY <1>3, CommitOnboardKeepsInv
<1>4. ASSUME NEW j \in Jobs, NEW o, StorePassport(j, o)  PROVE Inv'
  BY <1>4, StorePassportKeepsInv
<1>5. ASSUME NEW j \in Jobs, NEW u \in users, BeginDelete(j, u)  PROVE Inv'
  BY <1>5, LookingKeepsInv
<1>6. ASSUME NEW j \in Jobs, BeginRevert(j) \/ ListFiles(j) \/ Abort(j)  PROVE Inv'
  BY <1>6, LookingKeepsInv
<1>7. ASSUME NEW j \in Jobs, CommitDeletion(j)  PROVE Inv'
  BY <1>7, CommitDeletionKeepsInv
<1>8. ASSUME NEW j \in Jobs, Import(j)  PROVE Inv'
  BY <1>8, LookingKeepsInv, RowStepsKeepInv, CommitRowKeepsInv DEF Import
<1>9. ASSUME NEW e \in Emails, NEW staff \in BOOLEAN, CreateAccount(e, staff)  PROVE Inv'
  BY <1>9, NewAccountKeepsInv DEF CreateAccount
<1>10. ASSUME NEW u \in users, Deactivate(u) \/ OpenFile(u)  PROVE Inv'
  BY <1>10, DeactivateKeepsInv, OpenFileKeepsInv
<1>11. ASSUME NEW u \in users, NEW f \in files, AddDocument(u, f)  PROVE Inv'
  BY <1>11, AddDocumentKeepsInv
<1>12. ASSUME NEW f \in files, NEW m \in Entries, EditMoney(f, m)  PROVE Inv'
  BY <1>12, EditMoneyKeepsInv
<1>13. ASSUME UNCHANGED vars  PROVE Inv'
  BY <1>13 DEF vars, Inv, AccountsTypeOK, JobsTyped, JobType, IdsReserved, RowsOwned,
     OneFilePerRow, PassportsStored, RemainderInRange, ImportsProgress, ProgressOf, RowsOf, Ids
<1>14. QED
  BY <1>1, <1>2, <1>3, <1>4, <1>5, <1>6, <1>7, <1>8, <1>9, <1>10, <1>11, <1>12,
     <1>13 DEF Next

LEMMA AlwaysInv == Spec => []Inv
<1>1. QED
  BY InitHasInv, StepKeepsInv, PTL DEF Spec

-----------------------------------------------------------------------------
\* The rows are well typed, no row refers to one that a deletion took, and an
\* address is one account's, whatever requests and scripts overlap.
THEOREM AccountsTyped == Spec => []AccountsTypeOK
<1>1. Inv => AccountsTypeOK
  BY DEF Inv
<1>2. QED
  BY <1>1, AlwaysInv, PTL

\* A row of the workbook never becomes two files, however many imports run at
\* the same time or one after the other, with deletions and reverts between.
THEOREM RowsNeverDouble == Spec => []OneFilePerRow
<1>1. Inv => OneFilePerRow
  BY DEF Inv
<1>2. QED
  BY <1>1, AlwaysInv, PTL

\* A passport that a document names is in the object store.
THEOREM PassportsAlwaysStored == Spec => []PassportsStored
<1>1. Inv => PassportsStored
  BY DEF Inv
<1>2. QED
  BY <1>1, AlwaysInv, PTL

\* For every combination of a row's cells, however sums are rounded, and every
\* later entry of the staff, a PREPAID file's remainder is between nothing and a
\* total that is not nothing.
THEOREM RemainderStaysInRange == Spec => []RemainderInRange
<1>1. Inv => RemainderInRange
  BY DEF Inv
<1>2. QED
  BY <1>1, AlwaysInv, PTL

\* An import that exits with 0 leaves a file for every row it is answerable for.
THEOREM CleanImports == Spec => CleanImportIsWhole
<1>1. Inv /\ [Next]_vars =>
        [\A j \in Jobs :
          jobs[j].op = "import" /\ jobs[j].next > Rows /\ jobs'[j] = Idle
             /\ ~jobs[j].failed =>
                WorkbookRows \ jobs[j].excused \subseteq RowsOf(files')]_vars
  <2> SUFFICES ASSUME Inv, Next, NEW j \in Jobs,
                      jobs[j].op = "import", jobs[j].next > Rows, jobs'[j] = Idle,
                      ~jobs[j].failed
               PROVE  WorkbookRows \ jobs[j].excused \subseteq RowsOf(files')
    BY DEF vars
  <2>1. jobs[j].next = Rows + 1 /\ 1..(jobs[j].next - 1) = WorkbookRows
    BY AccountsAssumption DEF Inv, ImportsProgress, ProgressOf, WorkbookRows
  <2>2. WorkbookRows \ jobs[j].excused \subseteq RowsOf(files)
    BY <2>1 DEF Inv, ImportsProgress, ProgressOf
  <2>3. RowsOf(files) \subseteq RowsOf(files')
    <3>1. CASE files' = files
      BY <3>1
    <3>2. ASSUME NEW f, files' = files \cup {f}  PROVE RowsOf(files) \subseteq RowsOf(files')
      BY <3>2 DEF RowsOf
    <3>3. ASSUME NEW k \in Jobs, CommitDeletion(k)  PROVE FALSE
      <4>1. k # j /\ jobs'[j] = [jobs[j] EXCEPT !.excused =
                @ \cup RowsOf({f \in files : f.id \in jobs[k].files})]
        BY <3>3 DEF CommitDeletion, Deletes
      <4>2. jobs[j] \in [op : {"import"}, next : Int, failed : BOOLEAN, open : BOOLEAN,
                         seen : SUBSET Int, excused : SUBSET WorkbookRows]
        BY JobFields DEF Inv
      <4>3. jobs'[j].op = "import"
        BY <4>1, <4>2
      <4>4. QED
        BY <4>3 DEF Idle
    <3>4. ASSUME NEW k \in Jobs, NEW cell, CommitRow(k, cell)
          PROVE  FALSE
      <4>1. k # j
        BY <3>4, AccountsAssumption DEF CommitRow, AtRow, WorkbookRows
      <4>2. jobs'[j] = jobs[j]
        BY <3>4, <4>1 DEF CommitRow, Inv, JobsTyped
      <4>3. QED
        BY <4>2 DEF Idle
    <3>5. ASSUME NEW k \in Jobs, CommitOnboard(k)
          PROVE  \E f : files' = files \cup {f}
      BY <3>5 DEF CommitOnboard
    <3>6. ASSUME NEW u \in users, OpenFile(u)
          PROVE  \E f : files' = files \cup {f}
      BY <3>6 DEF OpenFile
    <3>7. ASSUME NEW k \in Jobs, Import(k)
          PROVE  files' = files \/ \E cell : CommitRow(k, cell)
      BY <3>7 DEF Import, BeginImport, SkipRow, BeginRow, FailRow, FinishImport, db
    <3>8. ASSUME NEW k \in Jobs,
                 \/ \E e \in Emails : BeginRegister(k, e) \/ BeginOnboard(k, e)
                 \/ CommitRegister(k) \/ Abort(k) \/ BeginRevert(k) \/ ListFiles(k)
                 \/ \E o : StorePassport(k, o)
                 \/ \E u \in users : BeginDelete(k, u)
          PROVE  files' = files
      BY <3>8 DEF BeginRegister, BeginOnboard, CommitRegister, Abort, BeginRevert, ListFiles,
         StorePassport, BeginDelete, db
    <3>9. ASSUME \/ \E e \in Emails, staff \in BOOLEAN : CreateAccount(e, staff)
                 \/ \E u \in users : Deactivate(u)
                 \/ \E u \in users, f \in files : AddDocument(u, f)
          PROVE  files' = files
      BY <3>9 DEF CreateAccount, Deactivate, AddDocument
    <3>10. ASSUME NEW f \in files, NEW m \in Entries, EditMoney(f, m)
           PROVE  RowsOf(files) \subseteq RowsOf(files')
      <4>1. files' = (files \ {f}) \cup {[f EXCEPT !.money = m]}
        BY <3>10 DEF EditMoney
      <4>2. [f EXCEPT !.money = m].row = f.row
        BY DEF Inv, AccountsTypeOK
      <4>3. QED
        BY <4>1, <4>2 DEF RowsOf
    <3>11. QED
      BY <3>1, <3>2, <3>3, <3>4, <3>5, <3>6, <3>7, <3>8, <3>9, <3>10 DEF Next
  <2>4. QED
    BY <2>2, <2>3
<1>2. QED
  BY <1>1, AlwaysInv, PTL DEF Spec, CleanImportIsWhole
=============================================================================
