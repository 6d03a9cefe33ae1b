--------------------------- MODULE DocDeskProofs ---------------------------
(***************************************************************************)
(* The dashboard adds nothing to what the server of CaseDocuments may do,  *)
(* so what holds of the documents holds with any number of dashboards'     *)
(* jobs at work; what a dashboard calls uploaded is stored, and what it    *)
(* marks as being worked on is, unless a job was thrown out of.            *)
(***************************************************************************)
EXTENDS DocDesk, DocumentsProofs

\* The types of the dashboard's own state.
DeskOK ==
    /\ screen \in [Cards -> Statuses]
    /\ busy \in Cards \cup {"NONE"}
    /\ delivering \in BOOLEAN /\ lost \in BOOLEAN
    /\ job \in [Jobs -> Job \cup {NoJob}]

\* A job's request is under way only where the job waits for it.
JobFits(j) ==
    /\ job[j] # NoJob /\ tx[j] # Idle =>
         \/ job[j].phase = "ticket" /\ tx[j].op = "upload"
         \/ job[j].phase = "status" /\ tx[j].op \in {"status", "deliver"}
    /\ job[j] # NoJob /\ job[j].kind \in {"persist", "upload"} => job[j].card \in Cards
    /\ job[j] # NoJob /\ job[j].kind = "upload" =>
         /\ job[j].type = Catalog[job[j].card].type
         /\ job[j].phase \in {"put", "status", "answered"} =>
              job[j].doc \in Ids /\ job[j].doc <= minted
    /\ job[j] # NoJob /\ job[j].kind # "upload" => job[j].phase \notin {"ticket", "put"}
JobsFit == \A j \in Jobs : JobFits(j)

\* What the server has of an upload once its bytes were put.
Stored(d) == d \in objects \/ docs[d] = Absent \/ docs[d].type \in SharedTypes

JobInv == DeskOK /\ JobsFit

-----------------------------------------------------------------------------
\* What the dashboard shows after a reload is a status for each card.
LEMMA DefaultsType == TypeOK => Defaults \in [Cards -> Statuses]
BY ScopeAssumption DEF TypeOK, Defaults

\* One job moves on, the others stay.
LEMMA OneJob ==
    ASSUME TypeOK, JobInv, NEW j \in Jobs, NEW w \in Job \cup {NoJob},
           job' = [job EXCEPT ![j] = w], minted <= minted', minted' \in Nat,
           screen' \in [Cards -> Statuses], busy' \in Cards \cup {"NONE"},
           delivering' \in BOOLEAN, lost' \in BOOLEAN,
           \A i \in Jobs : i # j => tx'[i] = tx[i],
           /\ w # NoJob /\ tx'[j] # Idle =>
                \/ w.phase = "ticket" /\ tx'[j].op = "upload"
                \/ w.phase = "status" /\ tx'[j].op \in {"status", "deliver"}
           /\ w # NoJob /\ w.kind \in {"persist", "upload"} => w.card \in Cards
           /\ w # NoJob /\ w.kind = "upload" =>
                /\ w.type = Catalog[w.card].type
                /\ w.phase \in {"put", "status", "answered"} => w.doc \in Ids /\ w.doc <= minted'
           /\ w # NoJob /\ w.kind # "upload" => w.phase \notin {"ticket", "put"}
    PROVE  JobInv'
<1>1. DeskOK'
  BY DEF JobInv, DeskOK
<1>2. ASSUME NEW i \in Jobs  PROVE JobFits(i)'
  <2>1. CASE i = j
    BY <2>1 DEF JobInv, DeskOK, JobFits
  <2>2. CASE i # j
    <3>1. job'[i] = job[i] /\ tx'[i] = tx[i] /\ JobFits(i) /\ minted \in Nat
      BY <2>2 DEF JobInv, DeskOK, JobsFit, TypeOK
    <3>2. \A d \in Ids : d <= minted => d <= minted'
      BY <3>1 DEF Ids
    <3>3. QED
      BY <3>1, <3>2 DEF JobFits
  <2>3. QED
    BY <2>1, <2>2
<1>3. QED
  BY <1>1, <1>2 DEF JobInv, JobsFit

\* A job in another phase is a job.
LEMMA PhaseType ==
    ASSUME NEW w \in Job, NEW phase \in Phases
    PROVE  [w EXCEPT !.phase = phase] \in Job
BY Zenon DEF Job

\* A step of the dashboard is one of the server's, or none.
LEMMA DeskStepIsStep ==
    ASSUME TypeOK, JobInv, [DeskNext]_vars
    PROVE  [Next]_dvars
<1> USE JobsAssumption
<1>j. \A j \in Jobs : j \in Sessions
  OBVIOUS
<1>1. ASSUME NEW j \in Jobs, Click(j)  PROVE UNCHANGED dvars
  BY <1>1 DEF Click, PickStatus, UploadForCard, DeliverFiles
<1>2. ASSUME NEW j \in Jobs, JobRequest(j)  PROVE Next
  <2>1. CASE At(j, {"upload"}, "ticket") /\ BeginUpload(j, "DOC", job[j].type, job[j].card)
    <3>1. job[j].card \in Cards /\ job[j].type \in Types
      BY <2>1 DEF At, JobInv, JobsFit, JobFits
    <3>2. Request(j)
      BY <2>1, <3>1 DEF Request, BeginUpload, Begin
    <3>3. QED
      BY <1>j, <3>2 DEF Next
  <2>2. CASE At(j, {"persist", "upload"}, "status") /\ BeginStatus(j, job[j].card, job[j].want)
    <3>1. job[j].card \in Cards /\ job[j].want \in Statuses
      BY <2>2 DEF At, JobInv, JobsFit, JobFits, DeskOK, Job
    <3>2. Request(j)
      BY <2>2, <3>1 DEF Request, BeginStatus, Begin
    <3>3. QED
      BY <1>j, <3>2 DEF Next
  <2>3. CASE BeginDeliver(j)
    BY <1>j, <2>3 DEF Next, Request, BeginDeliver, Begin
  <2>4. QED
    BY <1>2, <2>1, <2>2, <2>3 DEF JobRequest
<1>3. ASSUME NEW j \in Jobs, JobCommit(j)  PROVE Next
  BY <1>j, <1>3 DEF JobCommit, Next, Commit
<1>4. ASSUME NEW j \in Jobs, Failed(j) \/ Abandoned(j)  PROVE [Next]_dvars
  BY <1>j, <1>4 DEF Failed, Abandoned, Next
<1>5. ASSUME NEW j \in Jobs, PutDone(j)  PROVE Next
  <2>1. job[j].doc \in Ids /\ Put(job[j].doc)
    BY <1>5 DEF PutDone, At, JobInv, JobsFit, JobFits
  <2>2. QED
    BY <2>1 DEF Next, Storage
<1>6. ASSUME NEW j \in Jobs, PutFailed(j) \/ Succeeded(j) \/ Rejected(j)
      PROVE  UNCHANGED dvars
  BY <1>6 DEF PutFailed, Succeeded, Rejected
<1>7. ASSUME Others  PROVE Next
  BY <1>7 DEF Others, Next, Storage
<1>8. CASE Reload \/ UNCHANGED vars
  BY <1>8 DEF Reload, vars
<1>9. QED
  BY <1>1, <1>2, <1>3, <1>4, <1>5, <1>6, <1>7, <1>8 DEF DeskNext, JobStep

\* A request of one session leaves the other sessions alone.
LEMMA TxElsewhere ==
    ASSUME TypeOK, NEW s \in Sessions, Request(s) \/ Commit(s) \/ Rollback(s),
           NEW i \in Sessions, i # s
    PROVE  tx'[i] = tx[i]
<1>1. ASSUME NEW t, Begin(s, t)  PROVE tx'[i] = tx[i]
  BY <1>1 DEF Begin, TypeOK
<1>2. ASSUME NEW op, End(s, op)  PROVE tx'[i] = tx[i]
  BY <1>2 DEF End, TypeOK
<1>3. CASE Request(s)
  BY <1>1, <1>3 DEF Request, BeginUpload, BeginStatus, BeginDeliver, BeginAppointment
<1>4. CASE Commit(s)
  BY <1>2, <1>4 DEF Commit, CommitUpload, CommitStatus, CommitDeliver, CommitAppointment
<1>5. CASE Rollback(s)
  BY <1>5 DEF Rollback, TypeOK
<1>6. QED
  BY <1>3, <1>4, <1>5

\* Every step keeps the dashboard and its jobs in order.
LEMMA JobInvStep == TypeOK /\ JobInv /\ [DeskNext]_vars => JobInv'
<1> SUFFICES ASSUME TypeOK, JobInv, [DeskNext]_vars
             PROVE  JobInv'
  OBVIOUS
<1> USE JobsAssumption, ScopeAssumption
<1>n. minted <= minted' /\ minted \in Nat /\ minted' \in Nat
  BY DeskStepIsStep, RowsKept, TypeStep DEF TypeOK
<1>j. /\ \A j \in Jobs : j \in Sessions /\ JobFits(j) /\ job[j] \in Job \cup {NoJob}
      /\ screen \in [Cards -> Statuses] /\ busy \in Cards \cup {"NONE"} /\ delivering \in BOOLEAN
      /\ lost \in BOOLEAN
      /\ \A j \in Jobs : job[j] # NoJob => job[j] \in Job
  BY DEF JobInv, JobsFit, DeskOK
<1>k. NoJob.kind = "none"
  BY DEF NoJob
<1>1. ASSUME NEW j \in Jobs, NEW c \in Cards, NEW st \in Statuses, PickStatus(j, c, st)
      PROVE  JobInv'
  <2> DEFINE w == [kind |-> "persist", card |-> c, type |-> Catalog[c].type, want |-> st,
                   prev |-> screen[c], doc |-> 0, phase |-> "status"]
  <2>1. w \in Job
    <3>1. 0 \in 0 .. MaxDocs /\ screen[c] \in Statuses /\ Catalog[c].type \in FileTypes
      BY <1>j, CardTypeIsType
    <3>2. QED
      BY <3>1 DEF Job, Kinds, Phases
  <2>2. /\ job' = [job EXCEPT ![j] = w] /\ tx' = tx /\ tx[j] = Idle /\ minted' = minted
        /\ screen' = [screen EXCEPT ![c] = st] /\ busy' = c /\ delivering' = delivering /\ lost' = lost
    BY <1>1 DEF PickStatus, Start, Free, Show, dvars, store
  <2>3. w.kind = "persist" /\ w.card = c /\ w.phase = "status"
    OBVIOUS
  <2>4. screen' \in [Cards -> Statuses] /\ busy' \in Cards \cup {"NONE"} /\ delivering' \in BOOLEAN
    BY <1>j, <2>2
  <2> HIDE DEF w
  <2>5. QED
    BY <1>j, <1>n, <2>1, <2>2, <2>3, <2>4, OneJob
<1>2. ASSUME NEW j \in Jobs, NEW c \in Cards, UploadForCard(j, c)  PROVE JobInv'
  <2> DEFINE w == [kind |-> "upload", card |-> c, type |-> Catalog[c].type,
                   want |-> "YUKLENDI", prev |-> screen[c], doc |-> 0, phase |-> "ticket"]
  <2>1. w \in Job
    <3>1. 0 \in 0 .. MaxDocs /\ screen[c] \in Statuses /\ Catalog[c].type \in FileTypes
      BY <1>j, CardTypeIsType
    <3>2. QED
      BY <3>1 DEF Job, Kinds, Phases
  <2>2. /\ job' = [job EXCEPT ![j] = w] /\ tx' = tx /\ tx[j] = Idle /\ minted' = minted
        /\ screen' = screen /\ busy' = c /\ delivering' = delivering /\ lost' = lost
    BY <1>2 DEF UploadForCard, Start, Free, dvars, store
  <2>3. w.kind = "upload" /\ w.card = c /\ w.phase = "ticket" /\ w.type = Catalog[c].type
    OBVIOUS
  <2> HIDE DEF w
  <2>4. QED
    BY <1>j, <1>n, <2>1, <2>2, <2>3, OneJob
<1>3. ASSUME NEW j \in Jobs, DeliverFiles(j)  PROVE JobInv'
  <2> DEFINE w == [kind |-> "deliver", card |-> "NONE", type |-> "OTHER",
                   want |-> "HAZIRLANIYOR", prev |-> "HAZIRLANIYOR", doc |-> 0,
                   phase |-> "status"]
  <2>1. w \in Job
    <3>1. Catalog.SPONSORLUK_YAZISI.type = "OTHER"
      BY DEF Catalog, Card
    <3>2. "OTHER" \in FileTypes
      BY <3>1 DEF FileTypes, Catalog
    <3>3. 0 \in 0 .. MaxDocs
      OBVIOUS
    <3>4. QED
      BY <3>2, <3>3 DEF Job, Kinds, Phases
  <2>2. /\ job' = [job EXCEPT ![j] = w] /\ tx' = tx /\ tx[j] = Idle /\ minted' = minted
        /\ screen' = screen /\ busy' = busy /\ delivering' = TRUE /\ lost' = lost
    BY <1>3 DEF DeliverFiles, Start, Free, dvars, store
  <2>3. w.kind = "deliver" /\ w.phase = "status"
    OBVIOUS
  <2> HIDE DEF w
  <2>4. QED
    BY <1>j, <1>n, <2>1, <2>2, <2>3, OneJob
<1>4. ASSUME NEW j \in Jobs, JobRequest(j)  PROVE JobInv'
  <2>1. job' = [job EXCEPT ![j] = job[j]] /\ UNCHANGED <<screen, busy, delivering, lost, minted>>
    BY <1>4, <1>j DEF JobRequest, desk, BeginUpload, BeginStatus, BeginDeliver, Begin, store,
       JobInv, DeskOK
  <2>2. /\ job[j] # NoJob /\ tx'[j] # Idle =>
              \/ job[j].phase = "ticket" /\ tx'[j].op = "upload"
              \/ job[j].phase = "status" /\ tx'[j].op \in {"status", "deliver"}
        /\ \A i \in Jobs : i # j => tx'[i] = tx[i]
    <3>1. ASSUME NEW t, Begin(j, t)
          PROVE  tx'[j] = t /\ \A i \in Jobs : i # j => tx'[i] = tx[i]
      BY <1>j, <3>1 DEF Begin, TypeOK
    <3>2. CASE At(j, {"upload"}, "ticket") /\ BeginUpload(j, "DOC", job[j].type, job[j].card)
      BY <3>1, <3>2 DEF At, BeginUpload
    <3>3. CASE At(j, {"persist", "upload"}, "status")
                 /\ BeginStatus(j, job[j].card, job[j].want)
      BY <3>1, <3>3 DEF At, BeginStatus
    <3>4. CASE At(j, {"deliver"}, "status") /\ BeginDeliver(j)
      BY <3>1, <3>4 DEF At, BeginDeliver
    <3>5. QED
      BY <1>4, <3>2, <3>3, <3>4 DEF JobRequest
  <2>3. JobFits(j)
    BY <1>j
  <2>4. QED
    BY <1>j, <1>n, <2>1, <2>2, <2>3, OneJob DEF JobFits
<1>e. ASSUME NEW j \in Jobs, NEW op, End(j, op)
      PROVE  /\ tx'[j] = Idle /\ tx[j].op = op
             /\ \A i \in Jobs : i # j => tx'[i] = tx[i]
  BY <1>j, <1>e DEF End, TypeOK
<1>5. ASSUME NEW j \in Jobs, CommitUpload(j), At(j, {"upload"}, "ticket"),
             job' = [job EXCEPT ![j].phase = "put", ![j].doc = minted'],
             UNCHANGED <<screen, busy, delivering, lost>>
      PROVE  JobInv'
  <2> DEFINE w == [job[j] EXCEPT !.phase = "put", !.doc = minted']
  <2>1. minted' \in Ids /\ minted' \in 0 .. MaxDocs
    BY <1>5, <1>n DEF CommitUpload, Insert, Ids
  <2>2. job[j] \in Job /\ job[j].kind = "upload" /\ job[j].card \in Cards
        /\ job[j].type = Catalog[job[j].card].type
    BY <1>5, <1>j DEF At, JobFits
  <2>3. w \in Job
    BY <2>1, <2>2, Zenon DEF Job, Phases
  <2>4. w.kind = "upload" /\ w.card = job[j].card /\ w.type = job[j].type
        /\ w.phase = "put" /\ w.doc = minted'
    BY <2>2 DEF Job
  <2>5. job' = [job EXCEPT ![j] = w]
    BY <1>5
  <2>6. tx'[j] = Idle /\ \A i \in Jobs : i # j => tx'[i] = tx[i]
    BY <1>5, <1>e DEF CommitUpload
  <2> HIDE DEF w
  <2>7. QED
    <3>1. screen' = screen /\ busy' = busy /\ delivering' = delivering /\ lost' = lost
      BY <1>5
    <3>2. w.doc \in Ids /\ w.doc <= minted' /\ w.card \in Cards
          /\ w.type = Catalog[w.card].type
      BY <1>n, <2>1, <2>2, <2>4
    <3>3. QED
      BY <1>j, <1>n, <2>3, <2>4, <2>5, <2>6, <3>1, <3>2, OneJob
<1>6. ASSUME NEW j \in Jobs, UNCHANGED <<job, screen, busy, delivering, lost>>,
             tx'[j] = Idle, \A i \in Jobs : i # j => tx'[i] = tx[i]
      PROVE  JobInv'
  <2>1. DeskOK'
    BY <1>6 DEF JobInv, DeskOK
  <2>2. \A d \in Ids : d <= minted => d <= minted'
    BY <1>n DEF Ids
  <2>3. \A i \in Jobs : JobFits(i)'
    BY <1>6, <1>j, <2>2 DEF JobFits
  <2>4. QED
    BY <2>1, <2>3 DEF JobInv, JobsFit
<1>p. ASSUME NEW j \in Jobs, Phase(j, "answered"),
             job[j] # NoJob, UNCHANGED <<screen, busy, delivering, lost>>,
             tx'[j] = Idle, \A i \in Jobs : i # j => tx'[i] = tx[i],
             job[j].phase = "status"
      PROVE  JobInv'
  <2> DEFINE w == [job[j] EXCEPT !.phase = "answered"]
  <2>1. w \in Job /\ job[j] \in Job
    BY <1>j, <1>p, PhaseType DEF Phases
  <2>2. w.kind = job[j].kind /\ w.card = job[j].card /\ w.type = job[j].type
        /\ w.phase = "answered" /\ w.doc = job[j].doc
    BY <2>1 DEF Job
  <2>3. job' = [job EXCEPT ![j] = w]
    BY <1>p DEF Phase
  <2>4. JobFits(j) /\ \A d \in Ids : d <= minted => d <= minted'
    BY <1>j, <1>n DEF Ids
  <2> HIDE DEF w
  <2>5. QED
    BY <1>p, <1>j, <1>n, <2>1, <2>2, <2>3, <2>4, OneJob DEF JobFits
<1>7. ASSUME NEW j \in Jobs, JobCommit(j)  PROVE JobInv'
  <2>1. CASE CommitUpload(j)
    <3>1. CASE At(j, {"upload"}, "ticket")
      BY <1>5, <1>7, <2>1, <3>1 DEF JobCommit, CommitStatus, CommitDeliver, CommitUpload, End
    <3>2. CASE ~At(j, {"upload"}, "ticket")
      <4>1. UNCHANGED <<job, screen, busy, delivering, lost>>
        BY <1>7, <2>1, <3>2 DEF JobCommit, CommitStatus, CommitDeliver, CommitUpload, End
      <4>2. tx'[j] = Idle /\ \A i \in Jobs : i # j => tx'[i] = tx[i]
        BY <1>e, <2>1 DEF CommitUpload
      <4>3. QED
        BY <1>6, <4>1, <4>2
    <3>3. QED
      BY <3>1, <3>2
  <2>2. CASE CommitStatus(j) \/ CommitDeliver(j)
    <3>1. /\ tx'[j] = Idle /\ \A i \in Jobs : i # j => tx'[i] = tx[i]
          /\ tx[j].op \in {"status", "deliver"}
      BY <1>e, <2>2 DEF CommitStatus, CommitDeliver
    <3>2. /\ UNCHANGED <<screen, busy, delivering, lost>>
          /\ IF job[j] # NoJob THEN Phase(j, "answered") ELSE UNCHANGED job
      BY <1>7, <2>2, <3>1 DEF JobCommit, CommitUpload, End
    <3>3. job[j] # NoJob => job[j].phase = "status"
      BY <1>j, <3>1 DEF JobFits, Idle
    <3>4. QED
      BY <1>6, <1>p, <3>1, <3>2, <3>3
  <2>3. QED
    BY <1>7, <2>1, <2>2 DEF JobCommit
<1>r. ASSUME NEW j \in Jobs, Rollback(j)
      PROVE  tx'[j] = Idle /\ \A i \in Jobs : i # j => tx'[i] = tx[i]
  BY <1>j, <1>r DEF Rollback, TypeOK
<1>f. ASSUME NEW j \in Jobs, Finish(j), \A i \in Jobs : i # j => tx'[i] = tx[i],
             screen' \in [Cards -> Statuses], busy' \in Cards \cup {"NONE"},
             delivering' \in BOOLEAN, lost' \in BOOLEAN
      PROVE  JobInv'
  BY <1>f, <1>n, OneJob DEF Finish
<1>10. ASSUME NEW j \in Jobs, PutDone(j)  PROVE JobInv'
  <2>1. /\ job[j] \in Job /\ job[j].kind = "upload" /\ job[j].phase = "put"
        /\ job[j].card \in Cards /\ job[j].type = Catalog[job[j].card].type
        /\ job[j].doc \in Ids /\ job[j].doc <= minted
        /\ tx[j] = Idle /\ tx' = tx /\ delivering' = delivering /\ lost' = lost
    BY <1>10, <1>j DEF PutDone, At, JobFits, Put
  <2>2. CASE job[j].prev # "YUKLENDI"
    <3> DEFINE w == [job[j] EXCEPT !.phase = "status"]
    <3>1. /\ job' = [job EXCEPT ![j] = w] /\ busy' = busy
          /\ screen' = [screen EXCEPT ![job[j].card] = "YUKLENDI"]
      BY <1>10, <2>2 DEF PutDone, Phase, Show
    <3>2. w \in Job
      BY <2>1, PhaseType DEF Phases
    <3>3. w.kind = "upload" /\ w.card = job[j].card /\ w.type = job[j].type
          /\ w.phase = "status" /\ w.doc = job[j].doc
      BY <2>1 DEF Job
    <3>4. screen' \in [Cards -> Statuses] /\ \A d \in Ids : d <= minted => d <= minted'
      BY <1>j, <1>n, <2>1, <3>1 DEF Ids
    <3> HIDE DEF w
    <3>5. QED
      BY <1>j, <1>n, <2>1, <3>1, <3>2, <3>3, <3>4, OneJob
  <2>3. CASE job[j].prev = "YUKLENDI"
    <3>1. job' = [job EXCEPT ![j] = NoJob] /\ busy' = "NONE" /\ screen' = screen
      BY <1>10, <2>3 DEF PutDone, Finish
    <3>2. QED
      BY <1>j, <1>n, <2>1, <3>1, OneJob
  <2>4. QED
    BY <2>2, <2>3
<1>11. ASSUME NEW j \in Jobs, PutFailed(j)  PROVE JobInv'
  BY <1>f, <1>j, <1>11 DEF PutFailed, dvars
<1>12. ASSUME NEW j \in Jobs, Succeeded(j)  PROVE JobInv'
  <2>1. busy' \in Cards \cup {"NONE"} /\ screen' = screen
    BY <1>j, <1>12 DEF Succeeded
  <2>2. delivering' \in BOOLEAN
    BY <1>12, Zenon DEF Succeeded
  <2>3. Finish(j) /\ tx' = tx /\ lost' = lost
    BY <1>12 DEF Succeeded, dvars
  <2>4. QED
    BY <1>f, <1>j, <2>1, <2>2, <2>3
<1>13. ASSUME NEW j \in Jobs, Failed(j)  PROVE JobInv'
  <2>1. busy' \in Cards \cup {"NONE"}
    BY <1>j, <1>13 DEF Failed
  <2>2. delivering' \in BOOLEAN
    BY <1>13, Zenon DEF Failed
  <2>3. screen' \in [Cards -> Statuses]
    <3>1. job[j] \in Job /\ job[j].prev \in Statuses
      BY <1>j, <1>13 DEF Failed, Job
    <3>2. QED
      BY <1>j, <1>13, <3>1 DEF Failed, Show
  <2>4. Finish(j) /\ lost' = lost /\ \A i \in Jobs : i # j => tx'[i] = tx[i]
    BY <1>r, <1>13 DEF Failed, dvars
  <2>5. QED
    BY <1>f, <1>j, <2>1, <2>2, <2>3, <2>4
<1>8. ASSUME NEW j \in Jobs, Rejected(j)  PROVE JobInv'
  BY <1>f, <1>j, <1>8 DEF Rejected, dvars
<1>14. ASSUME NEW j \in Jobs, Abandoned(j)  PROVE JobInv'
  BY <1>6, <1>r, <1>14 DEF Abandoned, desk
<1>15. ASSUME UNCHANGED desk, \A i \in Jobs : tx'[i] = tx[i]  PROVE JobInv'
  <2>1. DeskOK'
    BY <1>15 DEF JobInv, DeskOK, desk
  <2>2. \A d \in Ids : d <= minted => d <= minted'
    BY <1>n DEF Ids
  <2>3. \A j \in Jobs : JobFits(j)'
    BY <1>15, <1>j, <2>2 DEF JobFits, desk
  <2>4. QED
    BY <2>1, <2>3 DEF JobInv, JobsFit
<1>16. ASSUME Others  PROVE JobInv'
  <2>1. CASE \E s \in Sessions \ Jobs : Request(s) \/ Commit(s) \/ Rollback(s)
    BY <1>15, <1>16, <1>j, <2>1, TxElsewhere DEF Others
  <2>2. CASE UNCHANGED tx
    BY <1>15, <1>16, <2>2 DEF Others
  <2>3. QED
    BY <1>16, <2>1, <2>2 DEF Others, DeleteObject, CleanupLost, Remove, Crm, Reimport, UpdateCrm
<1>17. ASSUME Reload  PROVE JobInv'
  BY <1>17, DefaultsType DEF Reload, JobInv, DeskOK, JobsFit, JobFits
<1>18. CASE UNCHANGED vars
  BY <1>15, <1>18 DEF vars, dvars
<1>19. QED
  BY <1>1, <1>2, <1>3, <1>4, <1>7, <1>8, <1>10, <1>11, <1>12, <1>13, <1>14, <1>16, <1>17,
     <1>18 DEF DeskNext, Click, JobStep

-----------------------------------------------------------------------------
\* The dashboard's jobs begin in order.
LEMMA DeskInitFits == DeskInit => TypeOK /\ JobInv /\ Init
<1> SUFFICES ASSUME DeskInit  PROVE TypeOK /\ JobInv /\ Init
  OBVIOUS
<1>1. Init
  BY DEF DeskInit
<1>2. TypeOK
  BY <1>1, InitTypes
<1>3. JobInv
  BY <1>2, DefaultsType DEF DeskInit, JobInv, DeskOK, JobsFit, JobFits
<1>4. QED
  BY <1>1, <1>2, <1>3

\* Types and order of the dashboard's state at every moment.
LEMMA DeskInvariant == DeskSpec => [](TypeOK /\ JobInv)
<1>1. TypeOK /\ JobInv /\ [DeskNext]_vars => (TypeOK /\ JobInv)'
  BY DeskStepIsStep, TypeStep, JobInvStep
<1>2. QED
  BY <1>1, DeskInitFits, PTL DEF DeskSpec

\* The dashboard with everybody around it implements the documents: whatever
\* it does is what the server may do, or nothing.
THEOREM DeskImplements == DeskSpec => Spec
<1>1. QED
  BY DeskInitFits, DeskInvariant, DeskStepIsStep, PTL DEF DeskSpec, Spec

\* Type correctness of the dashboard, its jobs and the documents.
THEOREM DeskTyped == DeskSpec => []DeskTypeOK
<1>1. TypeOK /\ JobInv => DeskTypeOK
  BY DEF JobInv, DeskOK, DeskTypeOK
<1>2. QED
  BY <1>1, DeskInvariant, PTL

-----------------------------------------------------------------------------
\* The store gives up bytes only where a clean-up is under way.
LEMMA ObjectsKept ==
    ASSUME TypeOK, [Next]_dvars, NEW d, d \in objects, d \notin objects'
    PROVE  d \in cleanup /\ UNCHANGED docs
<1>1. ASSUME NEW k \in Ids, Storage(k)  PROVE d \in cleanup /\ UNCHANGED docs
  BY <1>1 DEF Storage, Put, DeleteObject, CleanupLost
<1>2. ASSUME UNCHANGED objects  PROVE FALSE
  BY <1>2
<1>3. QED
  BY <1>1, <1>2 DEF Next, Request, Commit, BeginUpload, BeginStatus, BeginDeliver,
     BeginAppointment, Begin, CommitUpload, CommitStatus, CommitDeliver, CommitAppointment,
     Rollback, Remove, dvars, store, Crm, Reimport, UpdateCrm

\* What is stored stays stored until somebody removes it.
LEMMA StoredStays ==
    ASSUME TypeOK, RowInv, [Next]_dvars, NEW d \in Ids, d <= minted, Stored(d)
    PROVE  Stored(d)'
<1>1. d \in Live' => d \in Live /\ docs'[d] = docs[d]
  BY RowsKept
<1>2. CASE docs[d] = Absent \/ docs[d].type \in SharedTypes
  BY <1>1, <1>2 DEF Stored, Live
<1>3. CASE docs[d] # Absent /\ docs[d].type \notin SharedTypes /\ d \in objects
  <2>1. docs[d].key = d /\ docs[d].key \notin cleanup
    BY <1>3 DEF RowInv, RowsFit, RowFits, CleanupSparesRows, Live
  <2>2. d \in objects'
    BY <1>3, <2>1, ObjectsKept
  <2>3. QED
    BY <2>2 DEF Stored
<1>4. QED
  BY <1>2, <1>3 DEF Stored

\* When the dashboard has the server call a document uploaded, its bytes are
\* in the store, and stay there until somebody removes the document.
THEOREM UploadsAreStored == DeskSpec => []UploadedIsStored
<1> DEFINE Claims(j) == At(j, {"upload"}, "status") \/ At(j, {"upload"}, "answered")
           Inv == \A j \in Jobs : Claims(j) => Stored(job[j].doc)
<1>1. DeskInit => Inv
  BY DEF DeskInit, At
<1>2. TypeOK /\ JobInv /\ RowInv /\ Inv /\ [DeskNext]_vars => Inv'
  <2> SUFFICES ASSUME TypeOK, JobInv, RowInv, Inv, [DeskNext]_vars, NEW j \in Jobs, Claims(j)'
               PROVE  Stored(job[j].doc)'
    OBVIOUS
  <2>j. /\ job \in [Jobs -> Job \cup {NoJob}] /\ \A i \in Jobs : JobFits(i)
    BY DEF JobInv, DeskOK, JobsFit
  <2>k. ASSUME job[j].doc \in Ids, job[j].doc <= minted, Stored(job[j].doc),
               job'[j].doc = job[j].doc
        PROVE  Stored(job[j].doc)'
    <3>1. Stored(job[j].doc) /\ job[j].doc \in Ids
      BY <2>k
    <3>2. ASSUME NEW d \in Ids, d <= minted, Stored(d)  PROVE Stored(d)'
      BY <3>2, DeskStepIsStep, StoredStays
    <3>3. \/ job[j].doc \in objects' \/ docs'[job[j].doc] = Absent
          \/ docs'[job[j].doc].type \in SharedTypes
      BY <2>k, <3>2 DEF Stored
    <3>4. QED
      BY <2>k, <3>3 DEF Stored
  <2>l. ASSUME Claims(j), job'[j].doc = job[j].doc  PROVE Stored(job[j].doc)'
    BY <2>j, <2>k, <2>l DEF At, JobFits
  <2>1. CASE job'[j] = job[j]
    BY <2>l, <2>1 DEF At
  <2>2. CASE job'[j] # job[j]
    <3>1. ASSUME NEW i \in Jobs, PutDone(i), i = j
          PROVE  Stored(job[j].doc)'
      <4>1. job'[j].doc = job[j].doc /\ job[j].doc \in objects'
        BY <2>j, <3>1, <2>2 DEF PutDone, Put, Phase, Finish, At, Job, NoJob
      <4>2. QED
        BY <4>1 DEF Stored
    <3>2. ASSUME NEW i \in Jobs, JobCommit(i), i = j  PROVE Stored(job[j].doc)'
      <4>1. /\ tx[j].op \in {"status", "deliver"} /\ Phase(j, "answered") /\ job[j] # NoJob
        <5>1. CASE CommitUpload(j)
          <6>1. tx[j].op = "upload" /\ job' =
                  IF At(j, {"upload"}, "ticket")
                  THEN [job EXCEPT ![j].phase = "put", ![j].doc = minted'] ELSE job
            BY <3>2, <5>1 DEF JobCommit, CommitUpload, CommitStatus, CommitDeliver, End
          <6>2. At(j, {"upload"}, "ticket") /\ job[j] \in Job
            BY <2>j, <2>2, <6>1 DEF At
          <6>3. job'[j].phase = "put"
            BY <2>j, <6>1, <6>2 DEF Job
          <6>4. QED
            BY <6>3 DEF At
        <5>2. CASE CommitStatus(j) \/ CommitDeliver(j)
          BY <2>j, <2>2, <3>2, <5>2
             DEF JobCommit, CommitUpload, CommitStatus, CommitDeliver, End
        <5>3. QED
          BY <3>2, <5>1, <5>2 DEF JobCommit
      <4>2. job[j].phase = "status" /\ job[j] \in Job
        BY <2>j, <4>1 DEF JobFits, Idle
      <4>3. job'[j].kind = job[j].kind /\ job'[j].doc = job[j].doc
        BY <2>j, <4>1, <4>2 DEF Phase, Job
      <4>4. Claims(j)
        BY <4>1, <4>2, <4>3 DEF At
      <4>5. QED
        BY <2>l, <4>3, <4>4
    <3>3. ASSUME NEW i \in Jobs,
                 PutFailed(i) \/ Succeeded(i) \/ Failed(i) \/ Rejected(i)
          PROVE  FALSE
      BY <2>j, <2>2, <3>3
         DEF PutFailed, Succeeded, Failed, Rejected, Finish, At, Job, NoJob
    <3>4. ASSUME NEW i \in Jobs, Click(i)  PROVE FALSE
      BY <2>j, <2>2, <3>4 DEF Click, PickStatus, UploadForCard, DeliverFiles, Start, Free, At
    <3>5. ASSUME NEW i \in Jobs, i # j, PutDone(i) \/ JobCommit(i)  PROVE FALSE
      BY <2>j, <2>2, <3>5 DEF PutDone, JobCommit, Phase, Finish
    <3>6. QED
      BY <2>2, <3>1, <3>2, <3>3, <3>4, <3>5
         DEF DeskNext, JobStep, JobRequest, Abandoned, Others, Reload, desk, vars, At
  <2>3. QED
    BY <2>1, <2>2
<1>3. Inv => UploadedIsStored
  BY DEF UploadedIsStored, Stored
<1> HIDE DEF Inv
<1>4. QED
  BY <1>1, <1>2, <1>3, DeskInvariant, DeskImplements, RowInvariant, PTL DEF DeskSpec

-----------------------------------------------------------------------------
\* What is marked as being worked on is worked on, however many jobs there are
\* and in whatever order they end, unless a job was thrown out of.
THEOREM MarksAreWorkedOn == DeskSpec => []MarkedIsWorkedOn
<1>1. DeskInit => MarkedIsWorkedOn
  BY DEF DeskInit, MarkedIsWorkedOn
<1>2. TypeOK /\ JobInv /\ MarkedIsWorkedOn /\ [DeskNext]_vars => MarkedIsWorkedOn'
  <2> SUFFICES ASSUME TypeOK, JobInv, MarkedIsWorkedOn, [DeskNext]_vars
               PROVE  MarkedIsWorkedOn'
    OBVIOUS
  <2>j. job \in [Jobs -> Job \cup {NoJob}] /\ NoJob.kind = "none"
    BY DEF JobInv, DeskOK, NoJob
  <2>s. ASSUME UNCHANGED <<busy, delivering, lost>>,
               \A i \in Jobs : job[i].kind # "none" =>
                   job'[i].kind = job[i].kind /\ job'[i].card = job[i].card
        PROVE  MarkedIsWorkedOn'
    <3>1. \A i \in Jobs : job[i].kind \in {"persist", "upload", "deliver"} =>
              job'[i].kind = job[i].kind /\ job'[i].card = job[i].card
      BY <2>s
    <3>2. QED
      BY <2>s, <3>1 DEF MarkedIsWorkedOn
  <2>f. ASSUME NEW j \in Jobs, Finish(j), lost' = lost, job[j] # NoJob,
               busy' = IF job[j].kind = "deliver" THEN busy ELSE "NONE",
               delivering' = (delivering /\ job[j].kind # "deliver")
        PROVE  MarkedIsWorkedOn'
    <3>1. \A i \in Jobs : i # j => job'[i] = job[i]
      BY <2>f DEF Finish
    <3>2. QED
      BY <2>f, <3>1 DEF MarkedIsWorkedOn
  <2>1. ASSUME NEW j \in Jobs, Click(j)  PROVE MarkedIsWorkedOn'
    <3>1. ASSUME NEW w, Start(j, w)  PROVE job'[j] = w /\ \A i \in Jobs : i # j => job'[i] = job[i]
      BY <2>j, <3>1 DEF Start
    <3>2. ASSUME NEW w, Start(j, w), w.kind \in {"persist", "upload"}, w.card = busy',
                 UNCHANGED <<delivering, lost>>
          PROVE  MarkedIsWorkedOn'
      BY <2>j, <3>1, <3>2 DEF MarkedIsWorkedOn, Start, Free
    <3>3. ASSUME NEW w, Start(j, w), w.kind = "deliver", UNCHANGED <<busy, lost>>, busy = "NONE"
          PROVE  MarkedIsWorkedOn'
      BY <3>1, <3>3 DEF MarkedIsWorkedOn
    <3>4. ASSUME NEW c \in Cards, NEW st \in Statuses, PickStatus(j, c, st)
          PROVE  MarkedIsWorkedOn'
      <4> DEFINE w == [kind |-> "persist", card |-> c, type |-> Catalog[c].type, want |-> st,
                       prev |-> screen[c], doc |-> 0, phase |-> "status"]
      <4>1. Start(j, w) /\ w.kind = "persist" /\ w.card = busy' /\ UNCHANGED <<delivering, lost>>
        BY <3>4 DEF PickStatus
      <4> HIDE DEF w
      <4>2. QED
        BY <3>2, <4>1
    <3>5. ASSUME NEW c \in Cards, UploadForCard(j, c)  PROVE MarkedIsWorkedOn'
      <4> DEFINE w == [kind |-> "upload", card |-> c, type |-> Catalog[c].type,
                       want |-> "YUKLENDI", prev |-> screen[c], doc |-> 0, phase |-> "ticket"]
      <4>1. Start(j, w) /\ w.kind = "upload" /\ w.card = busy' /\ UNCHANGED <<delivering, lost>>
        BY <3>5 DEF UploadForCard
      <4> HIDE DEF w
      <4>2. QED
        BY <3>2, <4>1
    <3>6. CASE DeliverFiles(j)
      <4> DEFINE w == [kind |-> "deliver", card |-> "NONE", type |-> "OTHER",
                       want |-> "HAZIRLANIYOR", prev |-> "HAZIRLANIYOR", doc |-> 0,
                       phase |-> "status"]
      <4>1. Start(j, w) /\ w.kind = "deliver" /\ UNCHANGED <<busy, lost>> /\ busy = "NONE"
        BY <3>6 DEF DeliverFiles
      <4> HIDE DEF w
      <4>2. QED
        BY <3>3, <4>1
    <3>7. QED
      BY <2>1, <3>4, <3>5, <3>6 DEF Click
  <2>2. ASSUME NEW j \in Jobs, JobCommit(j)  PROVE MarkedIsWorkedOn'
    <3>1. UNCHANGED <<busy, delivering, lost>>
      BY <2>2 DEF JobCommit
    <3>2. \A i \in Jobs : job'[i].kind = job[i].kind /\ job'[i].card = job[i].card
      BY <2>2, <2>j DEF JobCommit, Phase, At, Job
    <3>3. QED
      BY <2>s, <3>1, <3>2
  <2>3. ASSUME NEW j \in Jobs, PutDone(j)  PROVE MarkedIsWorkedOn'
    <3>1. CASE Phase(j, "status") /\ UNCHANGED <<busy, delivering, lost>>
      <4>1. \A i \in Jobs : job[i].kind # "none" =>
               job'[i].kind = job[i].kind /\ job'[i].card = job[i].card
        BY <3>1, <2>j DEF Phase, Job
      <4>2. QED
        BY <2>s, <3>1, <4>1
    <3>2. CASE Finish(j) /\ busy' = "NONE" /\ UNCHANGED <<delivering, lost>>
      <4>1. job[j] # NoJob /\ job[j].kind = "upload"
        BY <2>3 DEF PutDone, At
      <4>2. delivering' = (delivering /\ job[j].kind # "deliver")
        BY <3>2, <4>1, <2>j DEF JobInv, DeskOK
      <4>3. QED
        BY <2>f, <3>2, <4>1, <4>2
    <3>3. QED
      BY <2>3, <3>1, <3>2 DEF PutDone
  <2>4. ASSUME NEW j \in Jobs, PutFailed(j)  PROVE MarkedIsWorkedOn'
    <3>1. job[j] # NoJob /\ job[j].kind = "upload"
      BY <2>4 DEF PutFailed, At
    <3>2. delivering' = (delivering /\ job[j].kind # "deliver") /\ lost' = lost
      BY <2>4, <3>1 DEF PutFailed, JobInv, DeskOK
    <3>3. Finish(j) /\ busy' = "NONE"
      BY <2>4 DEF PutFailed
    <3>4. QED
      BY <2>f, <3>1, <3>2, <3>3
  <2>5. ASSUME NEW j \in Jobs, Succeeded(j) \/ Failed(j)  PROVE MarkedIsWorkedOn'
    <3>1. job[j] # NoJob /\ Finish(j) /\ lost' = lost
      BY <2>5 DEF Succeeded, Failed, At
    <3>2. busy' = IF job[j].kind = "deliver" THEN busy ELSE "NONE"
      BY <2>5 DEF Succeeded, Failed
    <3>3. delivering' = (delivering /\ job[j].kind # "deliver")
      BY <2>5, Zenon DEF Succeeded, Failed
    <3>4. QED
      BY <2>f, <3>1, <3>2, <3>3
  <2>6. ASSUME NEW j \in Jobs, Rejected(j)  PROVE MarkedIsWorkedOn'
    BY <2>6 DEF Rejected, MarkedIsWorkedOn
  <2>7. CASE Reload
    BY <2>7 DEF Reload, MarkedIsWorkedOn
  <2>8. CASE UNCHANGED desk
    BY <2>s, <2>8 DEF desk
  <2>9. QED
    BY <2>1, <2>2, <2>3, <2>4, <2>5, <2>6, <2>7, <2>8
       DEF DeskNext, JobStep, JobRequest, Abandoned, Others, vars
<1>3. QED
  BY <1>1, <1>2, DeskInvariant, PTL DEF DeskSpec
=============================================================================
