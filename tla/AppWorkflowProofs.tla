------------------------- MODULE AppWorkflowProofs -------------------------
(***************************************************************************)
(* What AppWorkflow's instances show, for any number of applications,      *)
(* staff and concurrent requests, and without the bound on audit rows      *)
(* mattering.                                                              *)
(***************************************************************************)
EXTENDS AppWorkflow, TLAPS

\* CLAIM_CONFIG and STAGE_TRANSITIONS only name stages of the enum.
LEMMA TableTypes ==
    /\ PoolStage \in [Departments -> Stages]
    /\ ProcessStage \in [Departments -> Stages]
    /\ NextStage \in [Departments -> Stages]
BY DEF PoolStage, ProcessStage, NextStage, Departments, Stages

-----------------------------------------------------------------------------
\* A row that tx.auditLog.create writes is a Row, and the trail stays a set
\* of them.
LEMMA AuditTypes ==
    ASSUME TypeOK, NEW a \in Apps, NEW action \in Actions,
           NEW prev \in AllStages, NEW new \in Stages, NEW by \in Actors,
           Audit(a, action, prev, new, by)
    PROVE  /\ trail' \in [Apps -> SUBSET Row]
           /\ rows' \in [Apps -> Nat]
<1>1. [at |-> rows[a] + 1, action |-> action, prev |-> prev, new |-> new,
       by |-> by] \in Row
  BY DEF TypeOK, Row
<1>2. QED
  BY <1>1 DEF TypeOK, Audit

\* Writing currentStage and stageUpdatedAt keeps their types.
LEMMA SetStageTypes ==
    ASSUME TypeOK, NEW a \in Apps, NEW st \in Stages, SetStage(a, st)
    PROVE  /\ stage' \in [Apps -> AllStages]
           /\ overdue' \in [Apps -> BOOLEAN]
BY DEF TypeOK, SetStage, AllStages

\* Reading and deciding keeps the types, whatever the request.
LEMMA BeginTypes ==
    ASSUME TypeOK, NEW s \in Sessions, NEW t \in Tx, Begin(s, t)
    PROVE  TypeOK'
BY DEF TypeOK, Begin, file, gates, log, monitor

\* What a session holds when it commits an operation is a Tx.
LEMMA EndTypes ==
    ASSUME TypeOK, NEW s \in Sessions, NEW op \in OpNames, End(s, op)
    PROVE  /\ tx[s] \in Tx
           /\ tx[s].op = op
           /\ tx[s].app \in Apps /\ tx[s].by \in Actors
           /\ tx[s].read \in Stages /\ tx[s].to \in Stages
           /\ tx[s].whom \in Staff \cup {None} /\ tx[s].ok \in BOOLEAN
           /\ tx' \in [Sessions -> Tx \cup {NoTx}]
<1>1. tx[s] # NoTx
  BY DEF End, NoTx, OpNames
<1>2. tx[s] \in Tx
  BY <1>1 DEF TypeOK
<1>3. QED
  BY <1>2 DEF Tx, End, TypeOK

-----------------------------------------------------------------------------
\* Type correctness: every handler and the cron leave every column with a
\* value its type has, and every open transaction holds only such values.
THEOREM TypeCorrect == Spec => []TypeOK
<1>1. Init => TypeOK
  <2> SUFFICES ASSUME Init  PROVE TypeOK
    OBVIOUS
  <2>1. /\ assigned \in [Apps -> [Departments -> Staff \cup {None}]]
        /\ salesStaff \in [Apps -> Staff \cup {None}]
        /\ breached \in [Apps -> Staff \cup {None}]
    BY DEF Init
  <2>2. /\ trail \in [Apps -> SUBSET Row]
        /\ rows \in [Apps -> Nat]
        /\ tx \in [Sessions -> Tx \cup {NoTx}]
    BY DEF Init
  <2>3. /\ stage \in [Apps -> AllStages]
        /\ overdue \in [Apps -> BOOLEAN]
        /\ crm \in [Apps -> BOOLEAN]
        /\ docsReady \in [Apps -> BOOLEAN]
    BY DEF Init, AllStages
  <2>4. QED
    BY <2>1, <2>2, <2>3 DEF Init, TypeOK
<1>2. TypeOK /\ [Next]_vars => TypeOK'
  <2> SUFFICES ASSUME TypeOK, [Next]_vars
               PROVE  TypeOK'
    OBVIOUS
  <2> USE ActorsAssumption, ScopeAssumption
  <2>1. ASSUME NEW s \in Sessions, NEW a \in Apps, BeginRequest(s, a)
        PROVE  TypeOK'
    <3> DEFINE At == stage[a]
    <3>0. At \in AllStages
      BY DEF TypeOK
    <3>1. ASSUME NEW p \in Staff, BeginClaim(s, p, a)  PROVE TypeOK'
      <4> DEFINE d == DeptOf[p]
      <4>1. [op |-> "claim", app |-> a, by |-> p, read |-> PoolStage[d],
             to |-> ProcessStage[d], whom |-> p, ok |-> FALSE] \in Tx
        BY TableTypes DEF Tx, OpNames, Actors
      <4>2. QED
        BY <3>1, <4>1, BeginTypes DEF BeginClaim
    <3>2. ASSUME NEW by \in Actors, NEW d \in Departments,
                 BeginTransition(s, by, a, d)
          PROVE  TypeOK'
      <4>1. [op |-> "transition", app |-> a, by |-> by,
             read |-> ProcessStage[d], to |-> NextStage[d],
             whom |-> None, ok |-> FALSE] \in Tx
        BY TableTypes DEF Tx, OpNames
      <4>2. QED
        BY <3>2, <4>1, BeginTypes DEF BeginTransition
    <3>3. ASSUME NEW by \in Actors, NEW ok \in BOOLEAN,
                 BeginUpdateCrm(s, by, a, ok)
          PROVE  TypeOK'
      <4> DEFINE to == IF CrmAutoAdvance /\ stage[a] = "SALES_PROCESS" /\ ok
                       THEN "DOC_POOL" ELSE stage[a]
                 whom == IF salesStaff[a] = None THEN assigned[a]["SALES"]
                                                 ELSE None
      <4>1. stage[a] \in Stages /\ to \in Stages
        BY <3>3, <3>0 DEF BeginUpdateCrm, AllStages, Stages
      <4>2. whom \in Staff \cup {None}
        BY DEF TypeOK, Departments
      <4>3. [op |-> "updateCrm", app |-> a, by |-> by, read |-> stage[a],
             to |-> to, whom |-> whom, ok |-> ok] \in Tx
        BY <4>1, <4>2 DEF Tx, OpNames
      <4>4. QED
        BY <3>3, <4>3, BeginTypes DEF BeginUpdateCrm
    <3>4. ASSUME NEW by \in Actors, BeginPause(s, by, a)  PROVE TypeOK'
      <4>1. stage[a] \in Stages
        BY <3>4, <3>0 DEF BeginPause, AllStages
      <4>2. [op |-> "pause", app |-> a, by |-> by, read |-> stage[a],
             to |-> "PAUSED", whom |-> None, ok |-> FALSE] \in Tx
        BY <4>1 DEF Tx, OpNames, Stages
      <4>3. QED
        BY <3>4, <4>2, BeginTypes DEF BeginPause
    <3>5. ASSUME NEW by \in Actors, BeginResume(s, by, a)  PROVE TypeOK'
      <4>1. PICK r \in PausedRows(a) :
               /\ r.prev \in Stages
               /\ Begin(s, [op |-> "resume", app |-> a, by |-> by,
                            read |-> "PAUSED", to |-> r.prev, whom |-> None,
                            ok |-> FALSE])
        BY <3>5 DEF BeginResume
      <4>2. [op |-> "resume", app |-> a, by |-> by, read |-> "PAUSED",
             to |-> r.prev, whom |-> None, ok |-> FALSE] \in Tx
        BY <4>1 DEF Tx, OpNames, Stages
      <4>3. QED
        BY <4>1, <4>2, BeginTypes
    <3>6. ASSUME NEW p \in Staff, BeginReassign(s, p, a)  PROVE TypeOK'
      <4>1. stage[a] \in Stages
        BY <3>6, <3>0 DEF BeginReassign, AllStages
      <4>2. [op |-> "reassign", app |-> a, by |-> Admin, read |-> stage[a],
             to |-> ProcessStage[DeptOf[p]], whom |-> p, ok |-> FALSE] \in Tx
        BY <4>1, TableTypes DEF Tx, OpNames, Actors
      <4>3. QED
        BY <3>6, <4>2, BeginTypes DEF BeginReassign
    <3>7. ASSUME BeginForceCancel(s, a)  PROVE TypeOK'
      <4>1. stage[a] \in Stages
        BY <3>7, <3>0 DEF BeginForceCancel, AllStages
      <4>2. [op |-> "forceCancel", app |-> a, by |-> Admin, read |-> stage[a],
             to |-> "CANCELLED", whom |-> None, ok |-> FALSE] \in Tx
        BY <4>1 DEF Tx, OpNames, Actors, Stages
      <4>3. QED
        BY <3>7, <4>2, BeginTypes DEF BeginForceCancel
    <3>8. ASSUME NEW st \in ForceTargets, BeginForceStage(s, a, st)
          PROVE  TypeOK'
      <4>1. stage[a] \in Stages
        BY <3>8, <3>0 DEF BeginForceStage, AllStages
      <4>2. [op |-> "forceStage", app |-> a, by |-> Admin, read |-> stage[a],
             to |-> st, whom |-> None, ok |-> FALSE] \in Tx
        BY <4>1 DEF Tx, OpNames, Actors
      <4>3. QED
        BY <3>8, <4>2, BeginTypes DEF BeginForceStage
    <3>9. QED
      BY <2>1, <3>1, <3>2, <3>3, <3>4, <3>5, <3>6, <3>7, <3>8
      DEF BeginRequest
  <2>2. ASSUME NEW s \in Sessions, EndRequest(s)
        PROVE  TypeOK'
    <3>1. ASSUME CommitClaim(s)  PROVE TypeOK'
      <4>1. /\ tx[s].app \in Apps /\ tx[s].by \in Actors
            /\ tx[s].read \in Stages /\ tx[s].to \in Stages
            /\ tx[s].whom \in Staff \cup {None}
            /\ tx' \in [Sessions -> Tx \cup {NoTx}]
        BY <3>1, EndTypes DEF CommitClaim, OpNames
      <4>2. /\ stage' \in [Apps -> AllStages] /\ overdue' \in [Apps -> BOOLEAN]
        BY <3>1, <4>1, SetStageTypes DEF CommitClaim
      <4>3. /\ trail' \in [Apps -> SUBSET Row] /\ rows' \in [Apps -> Nat]
        BY <3>1, <4>1, AuditTypes DEF CommitClaim, Actions, AllStages
      <4>4. /\ assigned' \in [Apps -> [Departments -> Staff \cup {None}]]
            /\ salesStaff' \in [Apps -> Staff \cup {None}]
        BY <3>1, <4>1 DEF CommitClaim, TypeOK
      <4>5. QED
        BY <3>1, <4>1, <4>2, <4>3, <4>4 DEF CommitClaim, TypeOK, gates, monitor
    <3>2. ASSUME CommitTransition(s)  PROVE TypeOK'
      <4>1. /\ tx[s].app \in Apps /\ tx[s].by \in Actors
            /\ tx[s].read \in Stages /\ tx[s].to \in Stages
            /\ tx' \in [Sessions -> Tx \cup {NoTx}]
        BY <3>2, EndTypes DEF CommitTransition, OpNames
      <4>2. /\ stage' \in [Apps -> AllStages] /\ overdue' \in [Apps -> BOOLEAN]
        BY <3>2, <4>1, SetStageTypes DEF CommitTransition
      <4>3. /\ trail' \in [Apps -> SUBSET Row] /\ rows' \in [Apps -> Nat]
        BY <3>2, <4>1, AuditTypes DEF CommitTransition, Actions, AllStages
      <4>4. QED
        BY <3>2, <4>1, <4>2, <4>3 DEF CommitTransition, TypeOK, gates, monitor
    <3>3. ASSUME CommitUpdateCrm(s)  PROVE TypeOK'
      <4>1. /\ tx[s].app \in Apps /\ tx[s].by \in Actors
            /\ tx[s].read \in Stages /\ tx[s].to \in Stages
            /\ tx[s].whom \in Staff \cup {None} /\ tx[s].ok \in BOOLEAN
            /\ tx' \in [Sessions -> Tx \cup {NoTx}]
        BY <3>3, EndTypes DEF CommitUpdateCrm, OpNames
      <4>2. /\ crm' \in [Apps -> BOOLEAN]
            /\ salesStaff' \in [Apps -> Staff \cup {None}]
        BY <3>3, <4>1 DEF CommitUpdateCrm, TypeOK
      <4>3. /\ stage' \in [Apps -> AllStages] /\ overdue' \in [Apps -> BOOLEAN]
            /\ trail' \in [Apps -> SUBSET Row] /\ rows' \in [Apps -> Nat]
        <5>1. CASE UNCHANGED <<stage, log>>
          BY <3>3, <4>1, <5>1, SetStageTypes DEF CommitUpdateCrm, TypeOK, log
        <5>2. CASE /\ SetStage(tx[s].app, tx[s].to)
                   /\ Audit(tx[s].app, "STAGE_CHANGED", tx[s].read, tx[s].to,
                            tx[s].by)
          BY <4>1, <5>2, SetStageTypes, AuditTypes DEF Actions, AllStages
        <5>3. QED
          BY <3>3, <5>1, <5>2 DEF CommitUpdateCrm
      <4>4. QED
        BY <3>3, <4>1, <4>2, <4>3 DEF CommitUpdateCrm, TypeOK, monitor
    <3>4. ASSUME CommitPause(s)  PROVE TypeOK'
      <4>1. /\ tx[s].app \in Apps /\ tx[s].by \in Actors
            /\ tx[s].read \in Stages /\ tx[s].to \in Stages
            /\ tx' \in [Sessions -> Tx \cup {NoTx}]
        BY <3>4, EndTypes DEF CommitPause, OpNames
      <4>2. /\ stage' \in [Apps -> AllStages] /\ overdue' \in [Apps -> BOOLEAN]
        BY <3>4, <4>1, SetStageTypes DEF CommitPause
      <4>3. /\ trail' \in [Apps -> SUBSET Row] /\ rows' \in [Apps -> Nat]
        BY <3>4, <4>1, AuditTypes DEF CommitPause, Actions, AllStages
      <4>4. QED
        BY <3>4, <4>1, <4>2, <4>3 DEF CommitPause, TypeOK, gates, monitor
    <3>5. ASSUME CommitResume(s)  PROVE TypeOK'
      <4>1. /\ tx[s].app \in Apps /\ tx[s].by \in Actors
            /\ tx[s].read \in Stages /\ tx[s].to \in Stages
            /\ tx' \in [Sessions -> Tx \cup {NoTx}]
        BY <3>5, EndTypes DEF CommitResume, OpNames
      <4>2. /\ stage' \in [Apps -> AllStages] /\ overdue' \in [Apps -> BOOLEAN]
        BY <3>5, <4>1, SetStageTypes DEF CommitResume
      <4>3. /\ trail' \in [Apps -> SUBSET Row] /\ rows' \in [Apps -> Nat]
        BY <3>5, <4>1, AuditTypes DEF CommitResume, Actions, AllStages
      <4>4. QED
        BY <3>5, <4>1, <4>2, <4>3 DEF CommitResume, TypeOK, gates, monitor
    <3>6. ASSUME CommitReassign(s)  PROVE TypeOK'
      <4>1. /\ tx[s].app \in Apps /\ tx[s].by \in Actors
            /\ tx[s].read \in Stages /\ tx[s].to \in Stages
            /\ tx[s].whom \in Staff \cup {None}
            /\ tx' \in [Sessions -> Tx \cup {NoTx}]
        BY <3>6, EndTypes DEF CommitReassign, OpNames
      <4>2. /\ stage' \in [Apps -> AllStages] /\ overdue' \in [Apps -> BOOLEAN]
        BY <3>6, <4>1, SetStageTypes DEF CommitReassign
      <4>3. /\ trail' \in [Apps -> SUBSET Row] /\ rows' \in [Apps -> Nat]
        BY <3>6, <4>1, AuditTypes DEF CommitReassign, Actions, AllStages
      <4>4. /\ assigned' \in [Apps -> [Departments -> Staff \cup {None}]]
            /\ salesStaff' \in [Apps -> Staff \cup {None}]
        BY <3>6, <4>1 DEF CommitReassign, TypeOK
      <4>5. QED
        BY <3>6, <4>1, <4>2, <4>3, <4>4 DEF CommitReassign, TypeOK, gates, monitor
    <3>7. ASSUME CommitForceCancel(s)  PROVE TypeOK'
      <4>1. /\ tx[s].app \in Apps /\ tx[s].by \in Actors
            /\ tx[s].read \in Stages /\ tx[s].to \in Stages
            /\ tx' \in [Sessions -> Tx \cup {NoTx}]
        BY <3>7, EndTypes DEF CommitForceCancel, OpNames
      <4>2. /\ stage' \in [Apps -> AllStages] /\ overdue' \in [Apps -> BOOLEAN]
        BY <3>7, <4>1, SetStageTypes DEF CommitForceCancel
      <4>3. /\ trail' \in [Apps -> SUBSET Row] /\ rows' \in [Apps -> Nat]
        BY <3>7, <4>1, AuditTypes DEF CommitForceCancel, Actions, AllStages
      <4>4. QED
        BY <3>7, <4>1, <4>2, <4>3 DEF CommitForceCancel, TypeOK, gates, monitor
    <3>8. ASSUME CommitForceStage(s)  PROVE TypeOK'
      <4>1. /\ tx[s].app \in Apps /\ tx[s].by \in Actors
            /\ tx[s].read \in Stages /\ tx[s].to \in Stages
            /\ tx' \in [Sessions -> Tx \cup {NoTx}]
        BY <3>8, EndTypes DEF CommitForceStage, OpNames
      <4>2. /\ stage' \in [Apps -> AllStages] /\ overdue' \in [Apps -> BOOLEAN]
        BY <3>8, <4>1, SetStageTypes DEF CommitForceStage
      <4>3. /\ trail' \in [Apps -> SUBSET Row] /\ rows' \in [Apps -> Nat]
        BY <3>8, <4>1, AuditTypes DEF CommitForceStage, Actions, AllStages
      <4>4. QED
        BY <3>8, <4>1, <4>2, <4>3 DEF CommitForceStage, TypeOK, gates, monitor
    <3>9. ASSUME Rollback(s)  PROVE TypeOK'
      BY <3>9 DEF Rollback, TypeOK, file, gates, log, monitor
    <3>10. QED
      BY <2>2, <3>1, <3>2, <3>3, <3>4, <3>5, <3>6, <3>7, <3>8, <3>9
      DEF EndRequest
  <2>3. ASSUME SlaMonitor  PROVE TypeOK'
    <3>1. ASSUME ScanBreaches  PROVE TypeOK'
      BY <3>1 DEF ScanBreaches, TypeOK, Departments, file, gates, log
    <3>2. ASSUME NEW a \in Apps, RevertBreached(a)  PROVE TypeOK'
      <4>1. /\ stage' \in [Apps -> AllStages] /\ overdue' \in [Apps -> BOOLEAN]
        BY <3>2, SetStageTypes DEF RevertBreached, Stages
      <4>2. breached[a] \in Actors
        BY <3>2 DEF RevertBreached, TypeOK, Actors
      <4>3. /\ trail' \in [Apps -> SUBSET Row] /\ rows' \in [Apps -> Nat]
        BY <3>2, <4>2, AuditTypes DEF RevertBreached, Actions, AllStages, Stages
      <4>4. QED
        BY <3>2, <4>1, <4>3 DEF RevertBreached, NextBreached, TypeOK, gates
    <3>3. ASSUME NEW a \in Apps, SkipBreached(a)  PROVE TypeOK'
      BY <3>3 DEF SkipBreached, NextBreached, TypeOK, file, gates, log
    <3>4. ASSUME AbortPass  PROVE TypeOK'
      BY <3>4 DEF AbortPass, TypeOK, file, gates, log
    <3>5. QED
      BY <2>3, <3>1, <3>2, <3>3, <3>4 DEF SlaMonitor
  <2>4. ASSUME NEW a \in Apps, Create(a)  PROVE TypeOK'
    <3>1. /\ stage' \in [Apps -> AllStages] /\ overdue' \in [Apps -> BOOLEAN]
      BY <2>4, SetStageTypes DEF Create, Stages
    <3>2. /\ trail' \in [Apps -> SUBSET Row] /\ rows' \in [Apps -> Nat]
      BY <2>4, AuditTypes DEF Create, Actions, Actors, AllStages, Stages
    <3>3. QED
      BY <2>4, <3>1, <3>2 DEF Create, TypeOK, gates, monitor
  <2>5. ASSUME NEW a \in Apps, ChangeDocuments(a)  PROVE TypeOK'
    BY <2>5 DEF ChangeDocuments, TypeOK, file, log, monitor
  <2>6. ASSUME NEW a \in Apps, TimePasses(a)  PROVE TypeOK'
    BY <2>6 DEF TimePasses, TypeOK, gates, log, monitor
  <2>7. ASSUME NEW p \in Staff, DeleteStaff(p)  PROVE TypeOK'
    <3>1. assigned' \in [Apps -> [Departments -> Staff \cup {None}]]
      BY <2>7 DEF DeleteStaff, Freed, TypeOK
    <3>2. /\ salesStaff' \in [Apps -> Staff \cup {None}]
          /\ trail' \in [Apps -> SUBSET Row]
          /\ docsReady' \in [Apps -> BOOLEAN]
          /\ staff' \subseteq Staff
      BY <2>7 DEF DeleteStaff, TypeOK
    <3>3. QED
      BY <2>7, <3>1, <3>2 DEF DeleteStaff, TypeOK, monitor
  <2>8. ASSUME UNCHANGED vars  PROVE TypeOK'
    BY <2>8 DEF vars, file, gates, log, monitor, TypeOK
  <2>9. QED
    BY <2>1, <2>2, <2>3, <2>4, <2>5, <2>6, <2>7, <2>8 DEF Next
<1>3. QED
  BY <1>1, <1>2, PTL DEF Spec

-----------------------------------------------------------------------------
(***************************************************************************)
(* salesStaffId agrees with assignedSalesId, whatever endpoints are used.  *)
(* The one write that could break it is updateCrm's stamp, which uses an   *)
(* assignment it read earlier.  It is harmless because the stamp is made   *)
(* only when salesStaffId was null, and then so was the assignment: no     *)
(* transaction ever carries a stamp.                                       *)
(***************************************************************************)
CrmStampIsVoid ==
    \A s \in Sessions : tx[s].op = "updateCrm" => tx[s].whom = None

OwnershipInv == SalesStaffIsAssignee /\ CrmStampIsVoid

LEMMA BeginKeepsOwnership ==
    ASSUME TypeOK, OwnershipInv, NEW s \in Sessions, NEW t, Begin(s, t),
           t.op = "updateCrm" => t.whom = None
    PROVE  OwnershipInv'
BY DEF TypeOK, OwnershipInv, SalesStaffIsAssignee, CrmStampIsVoid, Begin, file

\* A session that ends its transaction carries no stamp any more.
LEMMA EndKeepsStampVoid ==
    ASSUME TypeOK, CrmStampIsVoid, NEW s \in Sessions,
           tx' = [tx EXCEPT ![s] = NoTx]
    PROVE  CrmStampIsVoid'
BY DEF TypeOK, CrmStampIsVoid, NoTx

\* claim and reassign write the two columns together or neither.
LEMMA AssignKeepsOwnership ==
    ASSUME TypeOK, SalesStaffIsAssignee, NEW a \in Apps, NEW d, NEW p,
           assigned' = [assigned EXCEPT ![a][d] = p],
           salesStaff' = IF d = "SALES" THEN [salesStaff EXCEPT ![a] = p]
                                        ELSE salesStaff
    PROVE  SalesStaffIsAssignee'
<1> SUFFICES ASSUME NEW b \in Apps, assigned'[b]["SALES"] # None
             PROVE  salesStaff'[b] = assigned'[b]["SALES"]
  BY DEF SalesStaffIsAssignee
<1>1. CASE d = "SALES" /\ b = a
  BY <1>1 DEF TypeOK, Departments
<1>2. CASE ~(d = "SALES" /\ b = a)
  BY <1>2 DEF TypeOK, Departments, SalesStaffIsAssignee
<1>3. QED
  BY <1>1, <1>2

\* Nothing else writes either column.
LEMMA ColumnsKeptOwnership ==
    ASSUME SalesStaffIsAssignee, UNCHANGED <<assigned, salesStaff>>
    PROVE  SalesStaffIsAssignee'
BY DEF SalesStaffIsAssignee

\* The sales rep on record is the assignee, in every state of every behaviour.
THEOREM SalesStaffAlwaysAssignee == Spec => []SalesStaffIsAssignee
<1>1. Init => OwnershipInv
  BY DEF Init, OwnershipInv, SalesStaffIsAssignee, CrmStampIsVoid, NoTx,
         Departments
<1>2. TypeOK /\ OwnershipInv /\ [Next]_vars => OwnershipInv'
  <2> SUFFICES ASSUME TypeOK, OwnershipInv, [Next]_vars
               PROVE  OwnershipInv'
    OBVIOUS
  <2> USE ActorsAssumption
  <2>1. ASSUME NEW s \in Sessions, NEW a \in Apps, BeginRequest(s, a)
        PROVE  OwnershipInv'
    <3>1. ASSUME NEW p \in Staff, BeginClaim(s, p, a)  PROVE OwnershipInv'
      BY <3>1, BeginKeepsOwnership DEF BeginClaim
    <3>2. ASSUME NEW by \in Actors, NEW d \in Departments,
                 BeginTransition(s, by, a, d)
          PROVE  OwnershipInv'
      BY <3>2, BeginKeepsOwnership DEF BeginTransition
    <3>3. ASSUME NEW by \in Actors, NEW ok \in BOOLEAN,
                 BeginUpdateCrm(s, by, a, ok)
          PROVE  OwnershipInv'
      <4>1. salesStaff[a] = None => assigned[a]["SALES"] = None
        BY DEF OwnershipInv, SalesStaffIsAssignee
      <4>2. QED
        BY <3>3, <4>1, BeginKeepsOwnership DEF BeginUpdateCrm
    <3>4. ASSUME NEW by \in Actors, BeginPause(s, by, a)  PROVE OwnershipInv'
      BY <3>4, BeginKeepsOwnership DEF BeginPause
    <3>5. ASSUME NEW by \in Actors, BeginResume(s, by, a)  PROVE OwnershipInv'
      BY <3>5, BeginKeepsOwnership DEF BeginResume
    <3>6. ASSUME NEW p \in Staff, BeginReassign(s, p, a)  PROVE OwnershipInv'
      BY <3>6, BeginKeepsOwnership DEF BeginReassign
    <3>7. ASSUME BeginForceCancel(s, a)  PROVE OwnershipInv'
      BY <3>7, BeginKeepsOwnership DEF BeginForceCancel
    <3>8. ASSUME NEW st \in ForceTargets, BeginForceStage(s, a, st)
          PROVE  OwnershipInv'
      BY <3>8, BeginKeepsOwnership DEF BeginForceStage
    <3>9. QED
      BY <2>1, <3>1, <3>2, <3>3, <3>4, <3>5, <3>6, <3>7, <3>8
      DEF BeginRequest
  <2>2. ASSUME NEW s \in Sessions, EndRequest(s)
        PROVE  OwnershipInv'
    <3>1. CrmStampIsVoid'
      <4>1. tx' = [tx EXCEPT ![s] = NoTx]
        BY <2>2 DEF EndRequest, End, CommitClaim, CommitTransition,
           CommitUpdateCrm, CommitPause, CommitResume, CommitReassign,
           CommitForceCancel, CommitForceStage, Rollback
      <4>2. QED
        BY <4>1, EndKeepsStampVoid DEF OwnershipInv
    <3>2. SalesStaffIsAssignee'
      <4>1. CASE CommitClaim(s)
        BY <4>1, EndTypes, AssignKeepsOwnership
        DEF CommitClaim, OpNames, OwnershipInv
      <4>2. CASE CommitReassign(s)
        BY <4>2, EndTypes, AssignKeepsOwnership
        DEF CommitReassign, OpNames, OwnershipInv
      <4>3. CASE CommitUpdateCrm(s)
        <5>1. tx[s].whom = None
          BY <4>3 DEF CommitUpdateCrm, End, OwnershipInv, CrmStampIsVoid
        <5>2. QED
          BY <4>3, <5>1, ColumnsKeptOwnership DEF CommitUpdateCrm, OwnershipInv
      <4>4. CASE \/ CommitTransition(s) \/ CommitPause(s) \/ CommitResume(s)
                 \/ CommitForceCancel(s) \/ CommitForceStage(s) \/ Rollback(s)
        BY <4>4, ColumnsKeptOwnership
        DEF CommitTransition, CommitPause, CommitResume, CommitForceCancel,
            CommitForceStage, Rollback, file, OwnershipInv
      <4>5. QED
        BY <2>2, <4>1, <4>2, <4>3, <4>4 DEF EndRequest
    <3>3. QED
      BY <3>1, <3>2 DEF OwnershipInv
  <2>3. ASSUME NEW a \in Apps, RevertBreached(a)  PROVE OwnershipInv'
    BY <2>3 DEF RevertBreached, OwnershipInv, SalesStaffIsAssignee,
                CrmStampIsVoid, TypeOK, Departments
  <2>4. ASSUME NEW p \in Staff, DeleteStaff(p)  PROVE OwnershipInv'
    BY <2>4 DEF DeleteStaff, Freed, OwnershipInv, SalesStaffIsAssignee,
                CrmStampIsVoid, Departments
  <2>5. CASE UNCHANGED <<assigned, salesStaff, tx>>
    BY <2>5 DEF OwnershipInv, SalesStaffIsAssignee, CrmStampIsVoid
  <2>6. QED
    BY <2>1, <2>2, <2>3, <2>4, <2>5
    DEF Next, SlaMonitor, ScanBreaches, SkipBreached, AbortPass, Create,
        ChangeDocuments, TimePasses, vars, file
<1>3. OwnershipInv => SalesStaffIsAssignee
  BY DEF OwnershipInv
<1>4. QED
  BY <1>1, <1>2, <1>3, TypeCorrect, PTL DEF Spec
=============================================================================
