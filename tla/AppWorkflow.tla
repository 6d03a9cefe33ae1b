---------------------------- MODULE AppWorkflow ----------------------------
(***************************************************************************)
(* The life of a visa application in VisaApplicationsService and           *)
(* SlaMonitorService: claimed by staff from the pools, handed from         *)
(* department to department, paused and resumed, pulled about by the       *)
(* admins' God-Mode endpoints and taken back by the SLA cron.              *)
(*                                                                         *)
(* A handler is an interactive transaction at PostgreSQL's default         *)
(* isolation, READ COMMITTED.  It reads the application row and decides,   *)
(* then writes: the row by an UPDATE whose WHERE may be conditional, and   *)
(* an audit row.  Anything may commit in between.  So every handler is two *)
(* actions: Begin<Op> reads, checks and remembers in tx what it read, and  *)
(* Commit<Op> re-evaluates the WHERE on the row as it is by then and does  *)
(* all the writes at once.  A handler whose checks fail changes nothing    *)
(* and is not a step.                                                      *)
(***************************************************************************)
EXTENDS ProcessFlow, Integers, FiniteSets

CONSTANTS
    Apps,             \* the applications
    Staff,            \* ids of the staff profiles
    DeptOf,           \* DeptOf[p]: the department of staff profile p
    Admin,            \* an actor with Role.ADMIN, who has no staff profile
    None,             \* SQL NULL in an assignment column
    Sessions,         \* requests the server works on at the same time
    Endpoints,        \* the operations the instance exercises
    ForceTargets,     \* the stages the instance's admins force a file into
    CrmAutoAdvance,   \* config CRM_AUTO_ADVANCE_TO_OPERATION
    AutoRevert,       \* config SLA_AUTO_REVERT_ENABLED
    MaxRows           \* bound: no request begins on a file with that many rows

OpNames == {"create", "claim", "transition", "updateCrm", "pause", "resume",
            "reassign", "forceCancel", "forceStage", "documents", "deleteStaff"}

ASSUME ActorsAssumption == /\ DeptOf \in [Staff -> Departments]
                           /\ Admin \notin Staff
                           /\ None \notin Staff \cup {Admin}
ASSUME ScopeAssumption == /\ Endpoints \subseteq OpNames
                          /\ ForceTargets \subseteq Stages
                          /\ CrmAutoAdvance \in BOOLEAN
                          /\ AutoRevert \in BOOLEAN
                          /\ MaxRows \in Nat

VARIABLES
    stage,       \* VisaApplication.currentStage; "ABSENT" before create
    assigned,    \* assignedSalesId, assignedDocId, assignedSecId
    salesStaff,  \* salesStaffId, the historical sales rep
    overdue,     \* stageUpdatedAt lies further back than the SLA threshold
    crm,         \* isCrmComplete of the file's ApplicationCrmData
    docsReady,   \* every check transitionStage makes in DOC_PROCESS passes
    trail,       \* the audit rows that record a stage, numbered by createdAt
    rows,        \* how many of them were ever written
    staff,       \* the staff profiles that exist
    tx,          \* what the transaction a session is in has read
    isRunning,   \* SlaMonitorService.isRunning
    breached     \* the holder the SLA scan saw on a file it is yet to revert

file    == <<stage, assigned, salesStaff, overdue>>
gates   == <<crm, docsReady>>
log     == <<trail, rows>>
monitor == <<isRunning, breached>>
vars    == <<file, gates, log, staff, tx, monitor>>

Actors == Staff \cup {Admin}
AllStages == Stages \cup {"ABSENT"}
Actions == {"CREATED", "CLAIMED", "STAGE_CHANGED", "PAUSED", "RESUMED",
            "FORCE_REASSIGNED", "FORCE_CANCELLED", "FORCE_STAGE_CHANGED",
            "SLA_BREACH"}
Row == [at: Nat, action: Actions, prev: AllStages, new: Stages, by: Actors]
Tx == [op: OpNames, app: Apps, by: Actors, read: Stages, to: Stages,
       whom: Staff \cup {None}, ok: BOOLEAN]
NoTx == [op |-> "none"]

-----------------------------------------------------------------------------
Init ==
    /\ stage = [a \in Apps |-> "ABSENT"]
    /\ assigned = [a \in Apps |-> [d \in Departments |-> None]]
    /\ salesStaff = [a \in Apps |-> None]
    /\ overdue = [a \in Apps |-> FALSE]
    /\ crm = [a \in Apps |-> FALSE]
    /\ docsReady = [a \in Apps |-> FALSE]
    /\ trail = [a \in Apps |-> {}]
    /\ rows = [a \in Apps |-> 0]
    /\ staff = Staff
    /\ tx = [s \in Sessions |-> NoTx]
    /\ isRunning = FALSE
    /\ breached = [a \in Apps |-> None]

(***************************************************************************)
(* The pieces handlers share.                                              *)
(***************************************************************************)
\* Roles guard and JwtStrategy: the caller's account still exists.
Exists(by) == by = Admin \/ by \in staff

\* A request that is one statement, or one transaction that writes what it
\* writes without reading first, is one step of a session that has none.
SingleStep(op) == op \in Endpoints /\ \E s \in Sessions : tx[s] = NoTx

\* The reading half: the session now holds what it read and decided.
Begin(s, t) ==
    /\ t.op \in Endpoints
    /\ tx[s] = NoTx
    /\ rows[t.app] < MaxRows
    /\ Exists(t.by)
    /\ tx' = [tx EXCEPT ![s] = t]
    /\ UNCHANGED <<file, gates, log, staff, monitor>>

\* The writing half ends the transaction; the audit row's performedBy is
\* connected to the caller's user row, so that has to be there still.
End(s, op) ==
    /\ tx[s].op = op
    /\ Exists(tx[s].by)
    /\ tx' = [tx EXCEPT ![s] = NoTx]

\* currentStage and stageUpdatedAt are always written together.
SetStage(a, st) ==
    /\ stage' = [stage EXCEPT ![a] = st]
    /\ overdue' = [overdue EXCEPT ![a] = FALSE]

\* tx.auditLog.create
Audit(a, action, prev, new, by) ==
    /\ rows' = [rows EXCEPT ![a] = @ + 1]
    /\ trail' = [trail EXCEPT ![a] = @ \cup
          {[at |-> rows[a] + 1, action |-> action, prev |-> prev, new |-> new,
            by |-> by]}]

\* P2025, a failed check, Prisma's transaction timeout, a restart of the
\* server: whatever ends a transaction without a commit leaves no trace.
Rollback(s) ==
    /\ tx[s] # NoTx
    /\ tx' = [tx EXCEPT ![s] = NoTx]
    /\ UNCHANGED <<file, gates, log, staff, monitor>>

\* The conditional WHERE of pause, resume and transitionStage.
\* Mutant: WHERE { id }.
StageWhereIdOnly(t) == TRUE
StageWhere(t) == stage[t.app] = t.read

\* The conditional WHERE of claim.  Mutants: one of its columns left out.
ClaimWhereStageOnly(t) == stage[t.app] = t.read
ClaimWhereFreeOnly(t) == assigned[t.app][DeptOf[t.whom]] = None
ClaimWhere(t) == /\ stage[t.app] = t.read
                 /\ assigned[t.app][DeptOf[t.whom]] = None

-----------------------------------------------------------------------------
(***************************************************************************)
(* create: a nested write, one implicit transaction.  A customer opens the *)
(* file, or staff for one; Admin stands for them all as performedBy, which *)
(* nothing here looks at in a CREATED row.                                 *)
(***************************************************************************)
Create(a) ==
    /\ SingleStep("create")
    /\ stage[a] = "ABSENT"
    /\ SetStage(a, "SALES_POOL")
    /\ Audit(a, "CREATED", "ABSENT", "SALES_POOL", Admin)
    /\ UNCHANGED <<assigned, salesStaff, gates, staff, tx, monitor>>

(***************************************************************************)
(* claim                                                                   *)
(***************************************************************************)
BeginClaim(s, p, a) ==
    LET d == DeptOf[p] IN
    /\ stage[a] = PoolStage[d]
    /\ assigned[a][d] = None
    /\ Begin(s, [op |-> "claim", app |-> a, by |-> p, read |-> PoolStage[d],
                 to |-> ProcessStage[d], whom |-> p, ok |-> FALSE])

CommitClaim(s) ==
    LET t == tx[s]  a == t.app  d == DeptOf[t.whom] IN
    /\ End(s, "claim")
    /\ ClaimWhere(t)
    /\ SetStage(a, t.to)
    /\ assigned' = [assigned EXCEPT ![a][d] = t.whom]
    /\ salesStaff' = IF d = "SALES" THEN [salesStaff EXCEPT ![a] = t.whom]
                                    ELSE salesStaff
    /\ Audit(a, "CLAIMED", t.read, t.to, t.by)
    /\ UNCHANGED <<gates, staff, monitor>>

(***************************************************************************)
(* transitionStage                                                         *)
(***************************************************************************)
\* Mutant: the owner check forgotten.
AnyoneMayAdvance(by, a, d) == TRUE
MayAdvance(by, a, d) == by = Admin \/ assigned[a][d] = by

GatePassed(a, d) == /\ d = "SALES" => crm[a]
                    /\ d = "DOC" => docsReady[a]

BeginTransition(s, by, a, d) ==
    /\ stage[a] = ProcessStage[d]
    /\ MayAdvance(by, a, d)
    /\ GatePassed(a, d)
    /\ Begin(s, [op |-> "transition", app |-> a, by |-> by,
                 read |-> ProcessStage[d], to |-> NextStage[d],
                 whom |-> None, ok |-> FALSE])

CommitTransition(s) ==
    LET t == tx[s] IN
    /\ End(s, "transition")
    /\ StageWhere(t)
    /\ SetStage(t.app, t.to)
    /\ Audit(t.app, "STAGE_CHANGED", t.read, t.to, t.by)
    /\ UNCHANGED <<assigned, salesStaff, gates, staff, monitor>>

(***************************************************************************)
(* updateCrm: ok is isCrmComplete of the record being saved, which a       *)
(* PREPAID plan with nothing paid up front is not.  to is DOC_POOL when    *)
(* the save moves the file on, whom the stamp salesStaffId may get.        *)
(***************************************************************************)
BeginUpdateCrm(s, by, a, ok) ==
    /\ stage[a] # "ABSENT"
    /\ by = Admin \/ (assigned[a]["SALES"] = by /\ stage[a] = "SALES_PROCESS")
    /\ Begin(s, [op |-> "updateCrm", app |-> a, by |-> by, read |-> stage[a],
                 to |-> IF CrmAutoAdvance /\ stage[a] = "SALES_PROCESS" /\ ok
                        THEN "DOC_POOL" ELSE stage[a],
                 whom |-> IF salesStaff[a] = None THEN assigned[a]["SALES"]
                                                  ELSE None,
                 ok |-> ok])

\* Read in any other stage, the application row gets the stamp at most, whose
\* foreign key wants the profile to exist.
CommitUpdateCrm(s) ==
    LET t == tx[s]  a == t.app IN
    /\ End(s, "updateCrm")
    /\ t.whom \in staff \cup {None}
    /\ crm' = [crm EXCEPT ![a] = t.ok]
    /\ salesStaff' = IF t.whom = None THEN salesStaff
                                      ELSE [salesStaff EXCEPT ![a] = t.whom]
    /\ \/ /\ t.read # "SALES_PROCESS"
          /\ UNCHANGED <<stage, overdue, log>>
       \/ /\ t.read = "SALES_PROCESS" /\ t.to = t.read
          /\ StageWhere(t)
          /\ overdue' = [overdue EXCEPT ![a] = FALSE]
          /\ UNCHANGED <<stage, log>>
       \/ /\ t.read = "SALES_PROCESS" /\ t.to # t.read
          /\ StageWhere(t)
          /\ SetStage(a, t.to)
          /\ Audit(a, "STAGE_CHANGED", t.read, t.to, t.by)
    /\ UNCHANGED <<assigned, docsReady, staff, monitor>>

(***************************************************************************)
(* pause and resume.  The stage to resume to is not a column: it is read   *)
(* back from the newest PAUSED audit row.                                  *)
(***************************************************************************)
BeginPause(s, by, a) ==
    /\ stage[a] \notin NonPausable \cup {"ABSENT"}
    /\ Begin(s, [op |-> "pause", app |-> a, by |-> by, read |-> stage[a],
                 to |-> "PAUSED", whom |-> None, ok |-> FALSE])

CommitPause(s) ==
    LET t == tx[s] IN
    /\ End(s, "pause")
    /\ StageWhere(t)
    /\ SetStage(t.app, t.to)
    /\ Audit(t.app, "PAUSED", t.read, t.to, t.by)
    /\ UNCHANGED <<assigned, salesStaff, gates, staff, monitor>>

PausedRows(a) == {r \in trail[a] : r.action = "PAUSED"}

\* findFirst ... orderBy createdAt 'desc'.  Mutant: 'asc'.
OldestPause(a, r) == \A q \in PausedRows(a) : r.at <= q.at
LatestPause(a, r) == \A q \in PausedRows(a) : q.at <= r.at

BeginResume(s, by, a) ==
    /\ stage[a] = "PAUSED"
    /\ \E r \in PausedRows(a) :
          /\ LatestPause(a, r)
          /\ r.prev \in Stages
          /\ Begin(s, [op |-> "resume", app |-> a, by |-> by, read |-> "PAUSED",
                       to |-> r.prev, whom |-> None, ok |-> FALSE])

CommitResume(s) ==
    LET t == tx[s] IN
    /\ End(s, "resume")
    /\ StageWhere(t)
    /\ SetStage(t.app, t.to)
    /\ Audit(t.app, "RESUMED", t.read, t.to, t.by)
    /\ UNCHANGED <<assigned, salesStaff, gates, staff, monitor>>

(***************************************************************************)
(* God-Mode.  These three write with WHERE { id }: what was read is        *)
(* checked (or not) and logged, and overwritten whatever it is by then.    *)
(***************************************************************************)
BeginReassign(s, p, a) ==
    /\ p \in staff
    /\ stage[a] \notin Terminal \cup {"ABSENT"}
    /\ Begin(s, [op |-> "reassign", app |-> a, by |-> Admin,
                 read |-> stage[a], to |-> ProcessStage[DeptOf[p]],
                 whom |-> p, ok |-> FALSE])

\* The foreign key on the assignment column wants the profile to exist.
CommitReassign(s) ==
    LET t == tx[s]  a == t.app  d == DeptOf[t.whom] IN
    /\ End(s, "reassign")
    /\ t.whom \in staff
    /\ SetStage(a, t.to)
    /\ assigned' = [assigned EXCEPT ![a][d] = t.whom]
    /\ salesStaff' = IF d = "SALES" THEN [salesStaff EXCEPT ![a] = t.whom]
                                    ELSE salesStaff
    /\ Audit(a, "FORCE_REASSIGNED", t.read, t.to, t.by)
    /\ UNCHANGED <<gates, staff, monitor>>

BeginForceCancel(s, a) ==
    /\ stage[a] \notin {"CANCELLED", "ABSENT"}
    /\ Begin(s, [op |-> "forceCancel", app |-> a, by |-> Admin,
                 read |-> stage[a], to |-> "CANCELLED",
                 whom |-> None, ok |-> FALSE])

CommitForceCancel(s) ==
    LET t == tx[s] IN
    /\ End(s, "forceCancel")
    /\ SetStage(t.app, t.to)
    /\ Audit(t.app, "FORCE_CANCELLED", t.read, t.to, t.by)
    /\ UNCHANGED <<assigned, salesStaff, gates, staff, monitor>>

BeginForceStage(s, a, st) ==
    /\ stage[a] # "ABSENT"
    /\ Begin(s, [op |-> "forceStage", app |-> a, by |-> Admin,
                 read |-> stage[a], to |-> st, whom |-> None, ok |-> FALSE])

CommitForceStage(s) ==
    LET t == tx[s] IN
    /\ End(s, "forceStage")
    /\ SetStage(t.app, t.to)
    /\ Audit(t.app, "FORCE_STAGE_CHANGED", t.read, t.to, t.by)
    /\ UNCHANGED <<assigned, salesStaff, gates, staff, monitor>>

(***************************************************************************)
(* AdminService.deleteUser of a staff member: one transaction that writes  *)
(* without reading.  The assignment columns are nulled and the stages left *)
(* alone; the user's documents (so possibly some files' checklists) and    *)
(* the audit rows the user wrote are deleted.                              *)
(***************************************************************************)
\* Mutant: no updateMany for assignedSalesId.
FreedExceptSales(p) ==
    [a \in Apps |-> [d \in Departments |->
        IF d # "SALES" /\ assigned[a][d] = p THEN None ELSE assigned[a][d]]]
Freed(p) ==
    [a \in Apps |-> [d \in Departments |->
        IF assigned[a][d] = p THEN None ELSE assigned[a][d]]]

DeleteStaff(p) ==
    /\ SingleStep("deleteStaff")
    /\ p \in staff
    /\ staff' = staff \ {p}
    /\ assigned' = Freed(p)
    /\ salesStaff' = [a \in Apps |-> IF salesStaff[a] = p THEN None
                                                          ELSE salesStaff[a]]
    /\ trail' = [a \in Apps |-> {r \in trail[a] : r.by # p}]
    /\ \E lost \in SUBSET Apps :
          docsReady' = [a \in Apps |-> docsReady[a] /\ a \notin lost]
    /\ UNCHANGED <<stage, overdue, crm, rows, tx, monitor>>

(***************************************************************************)
(* DocumentsService and the form and appointment endpoints, as far as they *)
(* matter here: they make the DOC -> SEC gate pass or fail, at any time.   *)
(***************************************************************************)
ChangeDocuments(a) ==
    /\ SingleStep("documents")
    /\ stage[a] # "ABSENT"
    /\ docsReady' = [docsReady EXCEPT ![a] = ~@]
    /\ UNCHANGED <<file, crm, log, staff, tx, monitor>>

(***************************************************************************)
(* SlaMonitorService.  Its one rule is about SALES_PROCESS, so a file's    *)
(* clock is modelled only there: every way in restarts it.                 *)
(***************************************************************************)
TimePasses(a) ==
    /\ AutoRevert
    /\ stage[a] = "SALES_PROCESS"
    /\ ~overdue[a]
    /\ rows[a] < MaxRows
    /\ overdue' = [overdue EXCEPT ![a] = TRUE]
    /\ UNCHANGED <<stage, assigned, salesStaff, gates, log, staff, tx, monitor>>

Breached(a) == /\ stage[a] = "SALES_PROCESS"
               /\ overdue[a]
               /\ assigned[a]["SALES"] # None

\* enforceSlaBreaches and the findMany of enforceRule; a pass that finds
\* nothing ends as it began and is not a step.
ScanBreaches ==
    /\ AutoRevert
    /\ ~isRunning
    /\ \E a \in Apps : Breached(a)
    /\ isRunning' = TRUE
    /\ breached' = [a \in Apps |-> IF Breached(a) THEN assigned[a]["SALES"]
                                                  ELSE None]
    /\ UNCHANGED <<file, gates, log, staff, tx>>

\* The WHERE of buildRevertUpdate.  Mutant: the assignee left out.
RevertWhereStageOnly(a) == stage[a] = "SALES_PROCESS"
RevertWhere(a) == /\ stage[a] = "SALES_PROCESS"
                  /\ assigned[a]["SALES"] = breached[a]

\* The loop goes on to the next file; behind the last one the pass ends.
NextBreached(a) ==
    /\ breached' = [breached EXCEPT ![a] = None]
    /\ isRunning' = (\E b \in Apps \ {a} : breached[b] # None)

\* revertBreachedApplication; performedBy is the user of the last holder.
\* Mutant: the file goes back to the pool with its assignment.
RevertKeepsAssignee(a) ==
    /\ breached[a] \in staff
    /\ RevertWhere(a)
    /\ SetStage(a, "SALES_POOL")
    /\ Audit(a, "SLA_BREACH", "SALES_PROCESS", "SALES_POOL", breached[a])
    /\ NextBreached(a)
    /\ UNCHANGED <<assigned, salesStaff, gates, staff, tx>>
RevertBreached(a) ==
    /\ breached[a] \in staff
    /\ RevertWhere(a)
    /\ SetStage(a, "SALES_POOL")
    /\ assigned' = [assigned EXCEPT ![a]["SALES"] = None]
    /\ Audit(a, "SLA_BREACH", "SALES_PROCESS", "SALES_POOL", breached[a])
    /\ NextBreached(a)
    /\ UNCHANGED <<salesStaff, gates, staff, tx>>

\* The file is passed over: no such profile any more, P2025 because the file
\* moved on, or whatever else the transaction throws, which is logged.
SkipBreached(a) ==
    /\ breached[a] # None
    /\ NextBreached(a)
    /\ UNCHANGED <<file, gates, log, staff, tx>>

\* staff.findUnique is outside the try: what it throws ends the pass with the
\* rest of its list, through the finally (or by the server's restart).
\* Mutant: isRunning is reset behind the loop, not in a finally.
AbortStaysRunning ==
    /\ \E a \in Apps : breached[a] # None
    /\ breached' = [a \in Apps |-> None]
    /\ UNCHANGED <<file, gates, log, staff, tx, isRunning>>
AbortPass ==
    /\ \E a \in Apps : breached[a] # None
    /\ isRunning' = FALSE
    /\ breached' = [a \in Apps |-> None]
    /\ UNCHANGED <<file, gates, log, staff, tx>>

-----------------------------------------------------------------------------
BeginRequest(s, a) ==
    \/ \E p \in Staff : BeginClaim(s, p, a)
    \/ \E by \in Actors, d \in Departments : BeginTransition(s, by, a, d)
    \/ \E by \in Actors, ok \in BOOLEAN : BeginUpdateCrm(s, by, a, ok)
    \/ \E by \in Actors : BeginPause(s, by, a)
    \/ \E by \in Actors : BeginResume(s, by, a)
    \/ \E p \in Staff : BeginReassign(s, p, a)
    \/ BeginForceCancel(s, a)
    \/ \E st \in ForceTargets : BeginForceStage(s, a, st)

EndRequest(s) ==
    \/ CommitClaim(s)
    \/ CommitTransition(s)
    \/ CommitUpdateCrm(s)
    \/ CommitPause(s)
    \/ CommitResume(s)
    \/ CommitReassign(s)
    \/ CommitForceCancel(s)
    \/ CommitForceStage(s)
    \/ Rollback(s)

SlaMonitor == \/ ScanBreaches
              \/ \E a \in Apps : RevertBreached(a) \/ SkipBreached(a)
              \/ AbortPass

Next == \/ \E s \in Sessions, a \in Apps : BeginRequest(s, a)
        \/ \E s \in Sessions : EndRequest(s)
        \/ SlaMonitor
        \/ \E a \in Apps : Create(a) \/ ChangeDocuments(a) \/ TimePasses(a)
        \/ \E p \in Staff : DeleteStaff(p)

Spec == Init /\ [][Next]_vars

\* @nestjs/schedule calls the cron every five minutes and a pass goes through
\* its list; nothing obliges a user to send a request.  A revert may fail, but
\* one that is tried again in pass after pass does not fail for ever.
SlaFairness ==
    /\ WF_vars(ScanBreaches)
    /\ \A a \in Apps : /\ WF_vars(RevertBreached(a) \/ SkipBreached(a))
                       /\ SF_vars(RevertBreached(a))

FairSpec == Spec /\ SlaFairness

-----------------------------------------------------------------------------
(***************************************************************************)
(* Properties.                                                             *)
(***************************************************************************)
TypeOK ==
    /\ stage \in [Apps -> AllStages]
    /\ assigned \in [Apps -> [Departments -> Staff \cup {None}]]
    /\ salesStaff \in [Apps -> Staff \cup {None}]
    /\ overdue \in [Apps -> BOOLEAN]
    /\ crm \in [Apps -> BOOLEAN]
    /\ docsReady \in [Apps -> BOOLEAN]
    /\ trail \in [Apps -> SUBSET Row]
    /\ rows \in [Apps -> Nat]
    /\ staff \subseteq Staff
    /\ tx \in [Sessions -> Tx \cup {NoTx}]
    /\ isRunning \in BOOLEAN
    /\ breached \in [Apps -> Staff \cup {None}]

\* A department holds a file exactly when the file has come to its *_PROCESS
\* stage or further: claims never overlap, a pool never shows a file somebody
\* holds, and no file is worked on by nobody.  Holds while neither resume nor
\* God-Mode nor deleteUser is used.
AssignmentsFollowPipeline ==
    \A a \in Apps, d \in Departments :
        stage[a] \in Line =>
            (assigned[a][d] # None <=> stage[a] \in StagesFrom[d])

\* "Nullable assignments: empty while the application waits in a pool."
\* (schema.prisma, model VisaApplication.)  A file that breaks it is in no
\* pool list (poolWhere) and cannot be claimed.
PoolsAreUnassigned ==
    \A a \in Apps, d \in Departments :
        stage[a] = PoolStage[d] => assigned[a][d] = None

\* The audit trail tells the file's story without gaps: each row begins at
\* the stage the row before it ended at, and the last one ends where the file
\* is.  Rows are written from what the handler read, so this needs the write
\* to be refused when the file has moved in between.
TrailIsChain ==
    \A a \in Apps :
        /\ \A r \in trail[a] :
              r.at > 1 => \E q \in trail[a] : q.at = r.at - 1 /\ q.new = r.prev
        /\ stage[a] # "ABSENT" =>
              \E r \in trail[a] : r.at = rows[a] /\ r.new = stage[a]

GodMode == {"FORCE_REASSIGNED", "FORCE_CANCELLED", "FORCE_STAGE_CHANGED"}

\* Whatever runs at the same time, a gap between two consecutive rows is the
\* doing of a God-Mode endpoint, the second row being its own; and the newest
\* row says where the file is.  God-Mode alone writes over a stage it did not
\* read, and a deleted account takes whole rows with it, never a row's truth.
GapsAreForced ==
    \A a \in Apps : \A r \in trail[a] :
        /\ r.at = rows[a] => r.new = stage[a]
        /\ r.action \notin GodMode =>
              \A q \in trail[a] : q.at + 1 = r.at => q.new = r.prev

\* The sales rep on record is the one the file is assigned to, for as long as
\* it is assigned to one ("Stamped on the Sales claim"; reassign: "Keep
\* historical sales ownership aligned").
SalesStaffIsAssignee ==
    \A a \in Apps :
        assigned[a]["SALES"] # None => salesStaff[a] = assigned[a]["SALES"]

NewRows(a) == trail'[a] \ trail[a]

\* A finished or cancelled file is left where it is by everything but the two
\* God-Mode endpoints made to move it (reassign says it refuses such a file).
TerminalIsFinal ==
    [][\A a \in Apps :
          stage[a] \in Terminal /\ stage'[a] # stage[a] =>
              \E r \in NewRows(a) :
                  r.action \in {"FORCE_CANCELLED", "FORCE_STAGE_CHANGED"}]_vars

\* A claim never takes a file from the colleague who has it ("a racing claim
\* throws P2025").
ClaimNeverSteals ==
    [][\A a \in Apps, d \in Departments :
          (\E r \in NewRows(a) : r.action = "CLAIMED")
              /\ assigned'[a][d] # assigned[a][d]
            => assigned[a][d] = None]_vars

\* What a session does when it commits a transitionStage.
Advances(s) == /\ tx[s].op = "transition"
               /\ tx'[s] = NoTx
               /\ stage' # stage

\* "Only the staff currently handling the stage (or an admin) may advance it."
AdvancedByOwner ==
    [][\A s \in Sessions :
          Advances(s) =>
              \/ tx[s].by = Admin
              \/ \E d \in Departments :
                    /\ stage[tx[s].app] = ProcessStage[d]
                    /\ assigned[tx[s].app][d] = tx[s].by]_vars

\* An admin's updateCrm commits.
AdminSaves == \E s \in Sessions : /\ tx[s].op = "updateCrm"
                                  /\ tx[s].by = Admin
                                  /\ tx'[s] = NoTx

\* The CRM record is "editable by the assigned sales owner while the app is in
\* SALES_PROCESS, or by an admin at any time": a rep's save that was checked
\* before the hand-off and written after it is undone with its transaction.
CrmClosesWithSales ==
    [][\A a \in Apps :
          crm'[a] # crm[a] =>
              stage[a] = "SALES_PROCESS" \/ AdminSaves]_vars

\* The newest row by which the file came to be PAUSED, whoever put it there.
EnteredPause(a) ==
    {r \in trail[a] : r.new = "PAUSED" /\ r.prev # "PAUSED"}

\* "Resumes a PAUSED application back to the stage it was in before the pause."
ResumeRestores ==
    [][\A a \in Apps :
          (\E r \in NewRows(a) : r.action = "RESUMED") =>
              \E r \in EnteredPause(a) :
                  /\ \A q \in EnteredPause(a) : q.at <= r.at
                  /\ stage'[a] = r.prev]_vars

\* An SLA_BREACH row is signed by the one the file is taken from ("so the audit
\* trail records who held the file").
BreachBlamesHolder ==
    [][\A a \in Apps : \A r \in NewRows(a) :
          r.action = "SLA_BREACH" => r.by = assigned[a]["SALES"]]_vars

\* "Periodically reclaims applications that have stalled in a department's
\* *_PROCESS stage beyond its SLA threshold."
StalledIsReclaimed ==
    \A a \in Apps : (stage[a] = "SALES_PROCESS" /\ overdue[a])
                       ~> (stage[a] # "SALES_PROCESS" \/ ~overdue[a])

\* The detailed workflow implements the pipeline: every commit, and every
\* revert of the cron, is one move of CasePipeline, all else stutters.
Pipeline == INSTANCE CasePipeline WITH place <- stage, holder <- assigned
RefinesPipeline == Pipeline!PSpec
=============================================================================
