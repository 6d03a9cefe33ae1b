--------------------------- MODULE PipelineProofs ---------------------------
(***************************************************************************)
(* What the conditional writes buy, for any number of files, staff and     *)
(* concurrent requests.                                                    *)
(*                                                                         *)
(* Whatever runs: claims steal nothing, the SLA revert blames the right    *)
(* one, only God-Mode leaves a gap in an audit trail, and what moves a     *)
(* closed file says so in its row.  Without reassign, closed files stay    *)
(* closed.  Without the unconditional writers, God-Mode and account        *)
(* deletion, the audit trail is a chain.  Without resume as well, which    *)
(* trusts an audit row, the assignments follow the pipeline and the        *)
(* workflow implements CasePipeline.  While nothing is taken from anybody, *)
(* owners alone advance a file.                                            *)
(***************************************************************************)
EXTENDS AppWorkflowProofs

\* Every writer of a stage compares it with what it read.
NoGodMode ==
    Endpoints \cap {"reassign", "forceCancel", "forceStage", "deleteStaff"} = {}

\* ... and no stage comes out of an audit row.
StaffOnly == NoGodMode /\ "resume" \notin Endpoints

-----------------------------------------------------------------------------
(***************************************************************************)
(* What a session can hold: only operations that are in use, with the      *)
(* stages the tables CLAIM_CONFIG and STAGE_TRANSITIONS give them.         *)
(***************************************************************************)
WellFormed(t) ==
    /\ t.op \in Endpoints
    /\ t.op = "claim" => /\ t.whom \in Staff
                         /\ t.read = PoolStage[DeptOf[t.whom]]
                         /\ t.to = ProcessStage[DeptOf[t.whom]]
    /\ t.op = "transition" =>
          \E d \in Departments : t.read = ProcessStage[d] /\ t.to = NextStage[d]
    /\ t.op = "updateCrm" => /\ t.to \in {t.read, "DOC_POOL"}
                             /\ t.by = Admin \/ t.read = "SALES_PROCESS"
    /\ t.op = "pause" => t.to = "PAUSED" /\ t.read \notin NonPausable
    /\ t.op = "resume" => t.read = "PAUSED"
    /\ t.op = "reassign" => /\ t.whom \in Staff
                            /\ t.to = ProcessStage[DeptOf[t.whom]]
                            /\ t.read \notin Terminal
    /\ t.op = "forceCancel" => t.to = "CANCELLED"
    /\ t.op = "forceStage" => t.to \in ForceTargets

OpenTxWellFormed == \A s \in Sessions : tx[s] # NoTx => WellFormed(tx[s])

\* Beginning a well-formed transaction keeps every session's well formed.
LEMMA BeginKeepsWellFormed ==
    ASSUME TypeOK, OpenTxWellFormed, NEW s \in Sessions, NEW t, Begin(s, t),
           WellFormed(t)
    PROVE  OpenTxWellFormed'
<1> SUFFICES ASSUME NEW r \in Sessions, tx'[r] # NoTx
             PROVE  WellFormed(tx'[r])
  BY DEF OpenTxWellFormed, WellFormed
<1>1. CASE r = s
  BY <1>1 DEF Begin, TypeOK
<1>2. CASE r # s
  BY <1>2 DEF Begin, TypeOK, OpenTxWellFormed
<1>3. QED
  BY <1>1, <1>2

\* Ending a transaction, by commit or rollback, leaves the others as they were.
LEMMA EndKeepsWellFormed ==
    ASSUME TypeOK, OpenTxWellFormed, NEW s \in Sessions,
           tx' = [tx EXCEPT ![s] = NoTx]
    PROVE  OpenTxWellFormed'
<1> SUFFICES ASSUME NEW r \in Sessions, tx'[r] # NoTx
             PROVE  WellFormed(tx'[r])
  BY DEF OpenTxWellFormed, WellFormed
<1>1. r # s /\ tx'[r] = tx[r]
  BY DEF TypeOK
<1>2. QED
  BY <1>1 DEF OpenTxWellFormed

\* Whatever is committed was well formed when it began.
LEMMA EndIsWellFormed ==
    ASSUME OpenTxWellFormed, NEW s \in Sessions, NEW op \in OpNames, End(s, op)
    PROVE  WellFormed(tx[s]) /\ tx[s].op = op
BY DEF OpenTxWellFormed, End, NoTx, OpNames

\* Every handler begins well-formed transactions only.
LEMMA StepKeepsWellFormed ==
    ASSUME TypeOK, OpenTxWellFormed, [Next]_vars
    PROVE  OpenTxWellFormed'
<1> USE ActorsAssumption
<1>1. ASSUME NEW s \in Sessions, NEW a \in Apps, BeginRequest(s, a)
      PROVE  OpenTxWellFormed'
  <2>1. ASSUME NEW p \in Staff, BeginClaim(s, p, a)  PROVE OpenTxWellFormed'
    BY <2>1, BeginKeepsWellFormed DEF BeginClaim, WellFormed, Begin
  <2>2. ASSUME NEW by \in Actors, NEW d \in Departments,
               BeginTransition(s, by, a, d)
        PROVE  OpenTxWellFormed'
    BY <2>2, BeginKeepsWellFormed DEF BeginTransition, WellFormed, Begin
  <2>3. ASSUME NEW by \in Actors, NEW ok \in BOOLEAN,
               BeginUpdateCrm(s, by, a, ok)
        PROVE  OpenTxWellFormed'
    <3> DEFINE t == [op |-> "updateCrm", app |-> a, by |-> by,
                     read |-> stage[a],
                     to |-> IF CrmAutoAdvance /\ stage[a] = "SALES_PROCESS" /\ ok
                            THEN "DOC_POOL" ELSE stage[a],
                     whom |-> IF salesStaff[a] = None THEN assigned[a]["SALES"]
                                                      ELSE None,
                     ok |-> ok]
    <3>1. t.op = "updateCrm" /\ t.to \in {t.read, "DOC_POOL"}
      OBVIOUS
    <3>2. Begin(s, t) /\ (t.by = Admin \/ t.read = "SALES_PROCESS")
      BY <2>3 DEF BeginUpdateCrm
    <3> HIDE DEF t
    <3>3. t.op \in Endpoints
      BY <3>2 DEF Begin
    <3>4. WellFormed(t)
      BY <3>1, <3>2, <3>3 DEF WellFormed
    <3>5. QED
      BY <3>2, <3>4, BeginKeepsWellFormed
  <2>4. ASSUME NEW by \in Actors, BeginPause(s, by, a)  PROVE OpenTxWellFormed'
    BY <2>4, BeginKeepsWellFormed DEF BeginPause, WellFormed, Begin
  <2>5. ASSUME NEW by \in Actors, BeginResume(s, by, a)  PROVE OpenTxWellFormed'
    BY <2>5, BeginKeepsWellFormed DEF BeginResume, WellFormed, Begin
  <2>6. ASSUME NEW p \in Staff, BeginReassign(s, p, a)  PROVE OpenTxWellFormed'
    BY <2>6, BeginKeepsWellFormed DEF BeginReassign, WellFormed, Begin
  <2>7. ASSUME BeginForceCancel(s, a)  PROVE OpenTxWellFormed'
    BY <2>7, BeginKeepsWellFormed DEF BeginForceCancel, WellFormed, Begin
  <2>8. ASSUME NEW st \in ForceTargets, BeginForceStage(s, a, st)
        PROVE  OpenTxWellFormed'
    BY <2>8, BeginKeepsWellFormed DEF BeginForceStage, WellFormed, Begin
  <2>9. QED
    BY <1>1, <2>1, <2>2, <2>3, <2>4, <2>5, <2>6, <2>7, <2>8
    DEF BeginRequest
<1>2. ASSUME NEW s \in Sessions, EndRequest(s)
      PROVE  OpenTxWellFormed'
  <2>1. tx' = [tx EXCEPT ![s] = NoTx]
    BY <1>2 DEF EndRequest, End, CommitClaim, CommitTransition,
       CommitUpdateCrm, CommitPause, CommitResume, CommitReassign,
       CommitForceCancel, CommitForceStage, Rollback
  <2>2. QED
    BY <2>1, EndKeepsWellFormed
<1>3. CASE UNCHANGED tx
  BY <1>3 DEF OpenTxWellFormed, WellFormed
<1>4. QED
  BY <1>1, <1>2, <1>3
  DEF Next, SlaMonitor, ScanBreaches, RevertBreached, SkipBreached,
      AbortPass, Create, ChangeDocuments, TimePasses, DeleteStaff, vars

\* The strengthening the theorems below rest on.
LEMMA AlwaysWellFormed == Spec => [](TypeOK /\ OpenTxWellFormed)
<1>1. Init => OpenTxWellFormed
  BY DEF Init, OpenTxWellFormed
<1>2. TypeOK /\ OpenTxWellFormed /\ [Next]_vars => OpenTxWellFormed'
  BY StepKeepsWellFormed
<1>3. QED
  BY <1>1, <1>2, TypeCorrect, PTL DEF Spec

-----------------------------------------------------------------------------
(***************************************************************************)
(* The audit trail.  A row's prev is what the handler read; it is the      *)
(* stage the last row ended at because the write is conditional on it.     *)
(***************************************************************************)
\* The rows of a file are numbered up to the number ever written, and a file
\* that does not exist yet has none.
RowsNumbered ==
    \A a \in Apps : /\ \A r \in trail[a] : r.at \in 1 .. rows[a]
                    /\ stage[a] = "ABSENT" => rows[a] = 0

ChainInv == TrailIsChain /\ RowsNumbered

\* Whatever a logged move says, its row gets the next number.
LEMMA LoggedMoveKeepsNumbers ==
    ASSUME TypeOK, RowsNumbered, NEW a \in Apps, NEW st \in Stages,
           NEW action, NEW prev, NEW by, SetStage(a, st),
           Audit(a, action, prev, st, by)
    PROVE  RowsNumbered' /\ \E r \in NewRows(a) : r.action = action
<1> DEFINE new == [at |-> rows[a] + 1, action |-> action, prev |-> prev,
                   new |-> st, by |-> by]
<1>1. /\ trail' = [trail EXCEPT ![a] = @ \cup {new}]
      /\ rows' = [rows EXCEPT ![a] = @ + 1]
      /\ stage' = [stage EXCEPT ![a] = st]
  BY DEF Audit, SetStage
<1>2. new.at = rows[a] + 1 /\ new.action = action
  OBVIOUS
<1> HIDE DEF new
<1>3. /\ rows[a] \in Nat /\ trail'[a] = trail[a] \cup {new}
      /\ rows'[a] = rows[a] + 1 /\ stage'[a] = st
  BY <1>1 DEF TypeOK
<1>4. \A r \in trail[a] : r.at \in 1 .. rows[a]
  BY DEF RowsNumbered
<1>5. new \in NewRows(a)
  BY <1>2, <1>3, <1>4 DEF NewRows
<1>6. ASSUME NEW b \in Apps
      PROVE  /\ \A r \in trail'[b] : r.at \in 1 .. rows'[b]
             /\ stage'[b] = "ABSENT" => rows'[b] = 0
  <2>1. CASE b = a
    BY <2>1, <1>2, <1>3, <1>4 DEF Stages
  <2>2. CASE b # a
    BY <2>2, <1>1 DEF TypeOK, RowsNumbered
  <2>3. QED
    BY <2>1, <2>2
<1>7. QED
  BY <1>2, <1>5, <1>6 DEF RowsNumbered

\* A move logged from the stage the file is in extends the chain by a link.
LEMMA LoggedMoveKeepsChain ==
    ASSUME TypeOK, ChainInv, NEW a \in Apps, NEW st \in Stages, NEW action,
           NEW by, SetStage(a, st), Audit(a, action, stage[a], st, by)
    PROVE  ChainInv'
<1> DEFINE new == [at |-> rows[a] + 1, action |-> action, prev |-> stage[a],
                   new |-> st, by |-> by]
<1>1. /\ trail' = [trail EXCEPT ![a] = @ \cup {new}]
      /\ rows' = [rows EXCEPT ![a] = @ + 1]
      /\ stage' = [stage EXCEPT ![a] = st]
  BY DEF Audit, SetStage
<1>2. new.at = rows[a] + 1 /\ new.prev = stage[a] /\ new.new = st
  OBVIOUS
<1> HIDE DEF new
<1>3. rows[a] \in Nat /\ trail'[a] = trail[a] \cup {new}
      /\ rows'[a] = rows[a] + 1 /\ stage'[a] = st
  BY <1>1 DEF TypeOK
<1>5. \A b \in Apps : b # a => /\ trail'[b] = trail[b] /\ rows'[b] = rows[b]
                               /\ stage'[b] = stage[b]
  BY <1>1 DEF TypeOK
<1>6. RowsNumbered'
  BY LoggedMoveKeepsNumbers DEF ChainInv
<1>7. TrailIsChain'
  <2> SUFFICES ASSUME NEW b \in Apps
               PROVE  /\ \A r \in trail'[b] : r.at > 1 =>
                            \E q \in trail'[b] : q.at = r.at - 1 /\ q.new = r.prev
                      /\ stage'[b] # "ABSENT" =>
                            \E r \in trail'[b] : r.at = rows'[b]
                                                 /\ r.new = stage'[b]
    BY DEF TrailIsChain
  <2>1. CASE b = a
    <3>1. ASSUME NEW r \in trail[a], r.at > 1
          PROVE  \E q \in trail[a] : q.at = r.at - 1 /\ q.new = r.prev
      BY <3>1 DEF ChainInv, TrailIsChain
    <3>2. ASSUME rows[a] + 1 > 1
          PROVE  \E q \in trail[a] : q.at = rows[a] /\ q.new = stage[a]
      <4>1. stage[a] # "ABSENT"
        BY <3>2, <1>3 DEF ChainInv, RowsNumbered
      <4>2. QED
        BY <4>1 DEF ChainInv, TrailIsChain
    <3>3. ASSUME NEW r \in trail'[a], r.at > 1
          PROVE  \E q \in trail'[a] : q.at = r.at - 1 /\ q.new = r.prev
      <4>1. CASE r \in trail[a]
        BY <3>1, <3>3, <4>1, <1>3
      <4>2. CASE r = new
        BY <3>2, <3>3, <4>2, <1>2, <1>3
      <4>3. QED
        BY <4>1, <4>2, <1>3
    <3>4. QED
      BY <2>1, <3>3, <1>2, <1>3
  <2>2. CASE b # a
    BY <2>2, <1>5 DEF ChainInv, TrailIsChain
  <2>3. QED
    BY <2>1, <2>2
<1>8. QED
  BY <1>6, <1>7 DEF ChainInv

\* The handlers whose write is not conditional on the stage they read.
UncheckedWriter(s) == CommitReassign(s) \/ CommitForceCancel(s) \/ CommitForceStage(s)

\* The chain holds on unless an account goes, or God-Mode logs a stage that it
\* read and that is no more.
LEMMA StepKeepsChain ==
    ASSUME TypeOK, OpenTxWellFormed, ChainInv, [Next]_vars,
           "deleteStaff" \notin Endpoints,
           \A s \in Sessions : UncheckedWriter(s) => tx[s].read = stage[tx[s].app]
    PROVE  ChainInv'
<1>1. ASSUME NEW s \in Sessions, EndRequest(s)  PROVE ChainInv'
  <2>1. CASE CommitClaim(s)
    <3>1. tx[s].app \in Apps /\ tx[s].to \in Stages
      BY <2>1, EndTypes DEF CommitClaim, OpNames
    <3>2. QED
      BY <2>1, <3>1, LoggedMoveKeepsChain DEF CommitClaim, ClaimWhere
  <2>2. CASE CommitTransition(s)
    <3>1. tx[s].app \in Apps /\ tx[s].to \in Stages
      BY <2>2, EndTypes DEF CommitTransition, OpNames
    <3>2. QED
      BY <2>2, <3>1, LoggedMoveKeepsChain DEF CommitTransition, StageWhere
  <2>3. CASE CommitUpdateCrm(s)
    <3>1. tx[s].app \in Apps /\ tx[s].to \in Stages
      BY <2>3, EndTypes DEF CommitUpdateCrm, OpNames
    <3>2. CASE UNCHANGED <<stage, log>>
      BY <3>2 DEF ChainInv, TrailIsChain, RowsNumbered, log
    <3>3. CASE ~UNCHANGED <<stage, log>>
      BY <2>3, <3>1, <3>3, LoggedMoveKeepsChain
      DEF CommitUpdateCrm, StageWhere
    <3>4. QED
      BY <3>2, <3>3
  <2>4. CASE CommitPause(s)
    <3>1. tx[s].app \in Apps /\ tx[s].to \in Stages
      BY <2>4, EndTypes DEF CommitPause, OpNames
    <3>2. QED
      BY <2>4, <3>1, LoggedMoveKeepsChain DEF CommitPause, StageWhere
  <2>5. CASE CommitResume(s)
    <3>1. tx[s].app \in Apps /\ tx[s].to \in Stages
      BY <2>5, EndTypes DEF CommitResume, OpNames
    <3>2. QED
      BY <2>5, <3>1, LoggedMoveKeepsChain DEF CommitResume, StageWhere
  <2>6. CASE CommitReassign(s) \/ CommitForceCancel(s) \/ CommitForceStage(s)
    <3>1. /\ tx[s].app \in Apps /\ tx[s].to \in Stages
          /\ tx[s].read = stage[tx[s].app]
      BY <2>6, EndTypes DEF CommitReassign, CommitForceCancel, CommitForceStage,
         OpNames, UncheckedWriter
    <3>2. /\ SetStage(tx[s].app, tx[s].to)
          /\ \E action : Audit(tx[s].app, action, tx[s].read, tx[s].to, tx[s].by)
      BY <2>6 DEF CommitReassign, CommitForceCancel, CommitForceStage
    <3>3. QED
      BY <3>1, <3>2, LoggedMoveKeepsChain
  <2>7. CASE Rollback(s)
    BY <2>7 DEF Rollback, file, log, ChainInv, TrailIsChain, RowsNumbered
  <2>8. QED
    BY <1>1, <2>1, <2>2, <2>3, <2>4, <2>5, <2>6, <2>7 DEF EndRequest
<1>2. ASSUME NEW a \in Apps, RevertBreached(a)  PROVE ChainInv'
  BY <1>2, LoggedMoveKeepsChain DEF RevertBreached, RevertWhere, Stages
<1>3. ASSUME NEW a \in Apps, Create(a)  PROVE ChainInv'
  BY <1>3, LoggedMoveKeepsChain DEF Create, Stages
<1>4. ASSUME NEW p \in Staff, DeleteStaff(p)  PROVE FALSE
  BY <1>4 DEF DeleteStaff, SingleStep
<1>5. CASE UNCHANGED <<stage, log>>
  BY <1>5 DEF ChainInv, TrailIsChain, RowsNumbered, log
<1>6. ASSUME NEW s \in Sessions, NEW a \in Apps, BeginRequest(s, a)
      PROVE  UNCHANGED <<stage, log>>
  BY <1>6 DEF BeginRequest, BeginClaim, BeginTransition, BeginUpdateCrm,
     BeginPause, BeginResume, BeginReassign, BeginForceCancel,
     BeginForceStage, Begin, file
<1>7. QED
  BY <1>1, <1>2, <1>3, <1>4, <1>5, <1>6
  DEF Next, SlaMonitor, ScanBreaches, SkipBreached, AbortPass,
      ChangeDocuments, TimePasses, vars, file

\* Without God-Mode and account deletion the audit trail of every file is a
\* chain from its creation to the stage it is in.
THEOREM TrailAlwaysChain == NoGodMode => (Spec => []TrailIsChain)
<1> SUFFICES ASSUME NoGodMode  PROVE Spec => []TrailIsChain
  OBVIOUS
<1>1. Init => ChainInv
  BY DEF Init, ChainInv, TrailIsChain, RowsNumbered
<1>2. TypeOK /\ OpenTxWellFormed /\ ChainInv /\ [Next]_vars => ChainInv'
  <2> SUFFICES ASSUME TypeOK, OpenTxWellFormed, ChainInv, [Next]_vars
               PROVE  ChainInv'
    OBVIOUS
  <2>1. ASSUME NEW s \in Sessions  PROVE ~UncheckedWriter(s)
    BY EndIsWellFormed DEF UncheckedWriter, CommitReassign, CommitForceCancel,
       CommitForceStage, OpNames, WellFormed, NoGodMode
  <2>2. QED
    BY <2>1, StepKeepsChain DEF NoGodMode
<1>3. QED
  BY <1>1, <1>2, AlwaysWellFormed, PTL DEF Spec, ChainInv

-----------------------------------------------------------------------------
(***************************************************************************)
(* What a single step may never do.  A step is recognised by the audit row *)
(* it writes.                                                              *)
(***************************************************************************)
\* An audit call adds one row, to its own file, with its own action.
LEMMA AuditAdds ==
    ASSUME TypeOK, NEW a \in Apps, NEW action, NEW prev, NEW new, NEW by,
           Audit(a, action, prev, new, by), NEW b \in Apps, NEW r \in NewRows(b)
    PROVE  b = a /\ r.action = action /\ r.by = by /\ r.prev = prev /\ r.new = new
<1> DEFINE row == [at |-> rows[a] + 1, action |-> action, prev |-> prev,
                   new |-> new, by |-> by]
<1>1. trail' = [trail EXCEPT ![a] = @ \cup {row}]
  BY DEF Audit
<1>2. row.action = action /\ row.by = by /\ row.prev = prev /\ row.new = new
  OBVIOUS
<1> HIDE DEF row
<1>3. QED
  BY <1>1, <1>2 DEF TypeOK, NewRows

\* Only claim writes CLAIMED rows, only resume RESUMED rows, and only the
\* monitor SLA_BREACH rows.
LEMMA RowNamesStep ==
    ASSUME TypeOK, [Next]_vars, NEW a \in Apps, NEW r \in NewRows(a)
    PROVE  /\ r.action = "CLAIMED" =>
                 \E s \in Sessions : CommitClaim(s) /\ tx[s].app = a
           /\ r.action = "RESUMED" =>
                 \E s \in Sessions : CommitResume(s) /\ tx[s].app = a
           /\ r.action = "SLA_BREACH" =>
                 RevertBreached(a) /\ r.by = breached[a]
<1> DEFINE Goal == /\ r.action = "CLAIMED" =>
                         \E s \in Sessions : CommitClaim(s) /\ tx[s].app = a
                   /\ r.action = "RESUMED" =>
                         \E s \in Sessions : CommitResume(s) /\ tx[s].app = a
                   /\ r.action = "SLA_BREACH" =>
                         RevertBreached(a) /\ r.by = breached[a]
<1>1. ASSUME NEW s \in Sessions, EndRequest(s)  PROVE Goal
  <2>1. CASE CommitClaim(s)
    <3>1. tx[s].app \in Apps
      BY <2>1, EndTypes DEF CommitClaim, OpNames
    <3>2. tx[s].app = a /\ r.action = "CLAIMED"
      BY <2>1, <3>1, AuditAdds DEF CommitClaim
    <3>3. QED
      BY <2>1, <3>2
  <2>2. CASE CommitTransition(s)
    <3>1. tx[s].app \in Apps
      BY <2>2, EndTypes DEF CommitTransition, OpNames
    <3>2. r.action = "STAGE_CHANGED"
      BY <2>2, <3>1, AuditAdds DEF CommitTransition
    <3>3. QED
      BY <3>2
  <2>3. CASE CommitUpdateCrm(s)
    <3>1. tx[s].app \in Apps
      BY <2>3, EndTypes DEF CommitUpdateCrm, OpNames
    <3>2. trail' # trail
      BY DEF NewRows
    <3>3. r.action = "STAGE_CHANGED"
      BY <2>3, <3>1, <3>2, AuditAdds DEF CommitUpdateCrm, log
    <3>4. QED
      BY <3>3
  <2>4. CASE CommitPause(s)
    <3>1. tx[s].app \in Apps
      BY <2>4, EndTypes DEF CommitPause, OpNames
    <3>2. r.action = "PAUSED"
      BY <2>4, <3>1, AuditAdds DEF CommitPause
    <3>3. QED
      BY <3>2
  <2>5. CASE CommitResume(s)
    <3>1. tx[s].app \in Apps
      BY <2>5, EndTypes DEF CommitResume, OpNames
    <3>2. tx[s].app = a /\ r.action = "RESUMED"
      BY <2>5, <3>1, AuditAdds DEF CommitResume
    <3>3. QED
      BY <2>5, <3>2
  <2>6. CASE CommitReassign(s)
    <3>1. tx[s].app \in Apps
      BY <2>6, EndTypes DEF CommitReassign, OpNames
    <3>2. r.action = "FORCE_REASSIGNED"
      BY <2>6, <3>1, AuditAdds DEF CommitReassign
    <3>3. QED
      BY <3>2
  <2>7. CASE CommitForceCancel(s)
    <3>1. tx[s].app \in Apps
      BY <2>7, EndTypes DEF CommitForceCancel, OpNames
    <3>2. r.action = "FORCE_CANCELLED"
      BY <2>7, <3>1, AuditAdds DEF CommitForceCancel
    <3>3. QED
      BY <3>2
  <2>8. CASE CommitForceStage(s)
    <3>1. tx[s].app \in Apps
      BY <2>8, EndTypes DEF CommitForceStage, OpNames
    <3>2. r.action = "FORCE_STAGE_CHANGED"
      BY <2>8, <3>1, AuditAdds DEF CommitForceStage
    <3>3. QED
      BY <3>2
  <2>9. CASE Rollback(s)
    BY <2>9 DEF Rollback, log, NewRows
  <2>10. QED
    BY <1>1, <2>1, <2>2, <2>3, <2>4, <2>5, <2>6, <2>7, <2>8, <2>9 DEF EndRequest
<1>2. ASSUME NEW b \in Apps, RevertBreached(b)  PROVE Goal
  <2>1. b = a /\ r.action = "SLA_BREACH" /\ r.by = breached[b]
    BY <1>2, AuditAdds DEF RevertBreached
  <2>2. QED
    BY <1>2, <2>1
<1>3. ASSUME NEW b \in Apps, Create(b)  PROVE Goal
  <2>1. r.action = "CREATED"
    BY <1>3, AuditAdds DEF Create
  <2>2. QED
    BY <2>1
<1>4. ASSUME NEW p \in Staff, DeleteStaff(p)  PROVE Goal
  BY <1>4 DEF DeleteStaff, NewRows
<1>5. CASE UNCHANGED trail
  BY <1>5 DEF NewRows
<1>6. ASSUME NEW s \in Sessions, NEW b \in Apps, BeginRequest(s, b)
      PROVE  UNCHANGED trail
  BY <1>6 DEF BeginRequest, BeginClaim, BeginTransition, BeginUpdateCrm,
     BeginPause, BeginResume, BeginReassign, BeginForceCancel,
     BeginForceStage, Begin, log
<1>7. QED
  BY <1>1, <1>2, <1>3, <1>4, <1>5, <1>6
  DEF Next, SlaMonitor, ScanBreaches, SkipBreached, AbortPass,
      ChangeDocuments, TimePasses, vars, log

\* No claim, however late its request commits, takes a file from a colleague;
\* whatever else the system is doing, God-Mode and deleteUser included.
THEOREM ClaimAlwaysLeavesHolder == Spec => ClaimNeverSteals
<1>1. ASSUME TypeOK, [Next]_vars, NEW a \in Apps, NEW d \in Departments,
             NEW r \in NewRows(a), r.action = "CLAIMED",
             assigned'[a][d] # assigned[a][d]
      PROVE  assigned[a][d] = None
  <2>1. PICK s \in Sessions : CommitClaim(s) /\ tx[s].app = a
    BY <1>1, RowNamesStep
  <2>2. assigned' = [assigned EXCEPT ![a][DeptOf[tx[s].whom]] = tx[s].whom]
    BY <2>1 DEF CommitClaim
  <2>3. assigned[a] \in [Departments -> Staff \cup {None}]
    BY <1>1 DEF TypeOK
  <2>4. d = DeptOf[tx[s].whom]
    BY <1>1, <2>2, <2>3 DEF TypeOK
  <2>5. QED
    BY <2>1, <2>4 DEF CommitClaim, ClaimWhere
<1>2. TypeOK /\ [Next]_vars =>
        [\A a \in Apps, d \in Departments :
            (\E r \in NewRows(a) : r.action = "CLAIMED")
                /\ assigned'[a][d] # assigned[a][d]
              => assigned[a][d] = None]_vars
  BY <1>1
<1>3. QED
  BY <1>2, TypeCorrect, PTL DEF Spec, ClaimNeverSteals

\* The row of an SLA revert names the one the file is taken from, although
\* the name was read at the start of the pass.
THEOREM BreachAlwaysBlamesHolder == Spec => BreachBlamesHolder
<1>1. ASSUME TypeOK, [Next]_vars, NEW a \in Apps, NEW r \in NewRows(a),
             r.action = "SLA_BREACH"
      PROVE  r.by = assigned[a]["SALES"]
  BY <1>1, RowNamesStep DEF RevertBreached, RevertWhere
<1>2. TypeOK /\ [Next]_vars =>
        [\A a \in Apps : \A r \in NewRows(a) :
            r.action = "SLA_BREACH" => r.by = assigned[a]["SALES"]]_vars
  BY <1>1
<1>3. QED
  BY <1>2, TypeCorrect, PTL DEF Spec, BreachBlamesHolder

\* No step, not even account deletion, leaves a row with a number still to be
\* given; so a row that is written is a new one.
LEMMA StepKeepsNumbers ==
    ASSUME TypeOK, RowsNumbered, [Next]_vars
    PROVE  RowsNumbered'
<1>1. ASSUME NEW s \in Sessions, EndRequest(s)  PROVE RowsNumbered'
  <2>1. CASE \/ CommitClaim(s) \/ CommitTransition(s) \/ CommitPause(s)
             \/ CommitResume(s) \/ CommitReassign(s) \/ CommitForceCancel(s)
             \/ CommitForceStage(s)
    <3>1. tx[s].app \in Apps /\ tx[s].to \in Stages
      BY <2>1, EndTypes DEF OpNames, CommitClaim, CommitTransition, CommitPause,
         CommitResume, CommitReassign, CommitForceCancel, CommitForceStage
    <3>2. /\ SetStage(tx[s].app, tx[s].to)
          /\ \E action : Audit(tx[s].app, action, tx[s].read, tx[s].to, tx[s].by)
      BY <2>1 DEF CommitClaim, CommitTransition, CommitPause, CommitResume,
         CommitReassign, CommitForceCancel, CommitForceStage
    <3>3. QED
      BY <3>1, <3>2, LoggedMoveKeepsNumbers
  <2>2. CASE CommitUpdateCrm(s)
    <3>1. tx[s].app \in Apps /\ tx[s].to \in Stages
      BY <2>2, EndTypes DEF CommitUpdateCrm, OpNames
    <3>2. CASE UNCHANGED <<stage, log>>
      BY <3>2 DEF RowsNumbered, log
    <3>3. CASE ~UNCHANGED <<stage, log>>
      BY <2>2, <3>1, <3>3, LoggedMoveKeepsNumbers DEF CommitUpdateCrm
    <3>4. QED
      BY <3>2, <3>3
  <2>3. CASE Rollback(s)
    BY <2>3 DEF Rollback, file, log, RowsNumbered
  <2>4. QED
    BY <1>1, <2>1, <2>2, <2>3 DEF EndRequest
<1>2. ASSUME NEW a \in Apps, RevertBreached(a)  PROVE RowsNumbered'
  BY <1>2, LoggedMoveKeepsNumbers DEF RevertBreached, Stages
<1>3. ASSUME NEW a \in Apps, Create(a)  PROVE RowsNumbered'
  BY <1>3, LoggedMoveKeepsNumbers DEF Create, Stages
<1>4. ASSUME NEW p \in Staff, DeleteStaff(p)  PROVE RowsNumbered'
  BY <1>4 DEF DeleteStaff, RowsNumbered
<1>5. CASE UNCHANGED <<stage, log>>
  BY <1>5 DEF RowsNumbered, log
<1>6. ASSUME NEW s \in Sessions, NEW a \in Apps, BeginRequest(s, a)
      PROVE  UNCHANGED <<stage, log>>
  BY <1>6 DEF BeginRequest, BeginClaim, BeginTransition, BeginUpdateCrm,
     BeginPause, BeginResume, BeginReassign, BeginForceCancel,
     BeginForceStage, Begin, file
<1>7. QED
  BY <1>1, <1>2, <1>3, <1>4, <1>5, <1>6
  DEF Next, SlaMonitor, ScanBreaches, SkipBreached, AbortPass,
      ChangeDocuments, TimePasses, vars, file

\* Who moves a finished or cancelled file: forceCancel, forceStage, or a
\* reassign, which checks the stage but writes whatever it has become.
LEMMA TerminalMove ==
    ASSUME TypeOK, OpenTxWellFormed, RowsNumbered, [Next]_vars, NEW a \in Apps,
           stage[a] \in Terminal, stage'[a] # stage[a]
    PROVE  \/ \E r \in NewRows(a) :
                 r.action \in {"FORCE_CANCELLED", "FORCE_STAGE_CHANGED"}
           \/ \E s \in Sessions : CommitReassign(s) /\ tx[s].app = a
<1> DEFINE Forced ==
      \/ \E r \in NewRows(a) : r.action \in {"FORCE_CANCELLED", "FORCE_STAGE_CHANGED"}
      \/ \E s \in Sessions : CommitReassign(s) /\ tx[s].app = a
<1>1. ASSUME NEW s \in Sessions, EndRequest(s)  PROVE Forced
  <2>1. CASE \/ CommitClaim(s) \/ CommitTransition(s) \/ CommitPause(s)
             \/ CommitResume(s)
    <3>1. /\ WellFormed(tx[s]) /\ tx[s].app \in Apps
          /\ tx[s].op \in {"claim", "transition", "pause", "resume"}
      BY <2>1, EndTypes, EndIsWellFormed DEF CommitClaim,
         CommitTransition, CommitPause, CommitResume, OpNames
    <3>2. stage[tx[s].app] = tx[s].read /\ SetStage(tx[s].app, tx[s].to)
      BY <2>1 DEF CommitClaim, CommitTransition, CommitPause, CommitResume,
         ClaimWhere, StageWhere
    <3>3. tx[s].app = a
      BY <3>1, <3>2 DEF SetStage, TypeOK
    <3>4. tx[s].read \notin Terminal
      BY <3>1, ActorsAssumption DEF WellFormed, Terminal, NonPausable,
         PoolStage, ProcessStage, Departments
    <3>5. QED
      BY <3>2, <3>3, <3>4
  <2>2. CASE CommitUpdateCrm(s)
    <3>1. tx[s].app \in Apps
      BY <2>2, EndTypes DEF CommitUpdateCrm, OpNames
    <3>2. tx[s].app = a /\ stage[a] = "SALES_PROCESS"
      BY <2>2, <3>1 DEF CommitUpdateCrm, SetStage, StageWhere, TypeOK
    <3>3. QED
      BY <3>2 DEF Terminal
  <2>3. CASE CommitReassign(s)
    <3>1. tx[s].app \in Apps
      BY <2>3, EndTypes DEF CommitReassign, OpNames
    <3>2. tx[s].app = a
      BY <2>3, <3>1 DEF CommitReassign, SetStage, TypeOK
    <3>3. QED
      BY <2>3, <3>2
  <2>4. CASE CommitForceCancel(s)
    <3>1. tx[s].app \in Apps /\ tx[s].to \in Stages
      BY <2>4, EndTypes DEF CommitForceCancel, OpNames
    <3>2. tx[s].app = a
      BY <2>4, <3>1 DEF CommitForceCancel, SetStage, TypeOK
    <3>3. QED
      BY <2>4, <3>1, <3>2, LoggedMoveKeepsNumbers
      DEF CommitForceCancel
  <2>5. CASE CommitForceStage(s)
    <3>1. tx[s].app \in Apps /\ tx[s].to \in Stages
      BY <2>5, EndTypes DEF CommitForceStage, OpNames
    <3>2. tx[s].app = a
      BY <2>5, <3>1 DEF CommitForceStage, SetStage, TypeOK
    <3>3. QED
      BY <2>5, <3>1, <3>2, LoggedMoveKeepsNumbers DEF CommitForceStage
  <2>6. CASE Rollback(s)
    BY <2>6 DEF Rollback, file
  <2>7. QED
    BY <1>1, <2>1, <2>2, <2>3, <2>4, <2>5, <2>6 DEF EndRequest
<1>2. ASSUME NEW b \in Apps, RevertBreached(b) \/ Create(b)  PROVE Forced
  BY <1>2 DEF RevertBreached, RevertWhere, Create, SetStage, TypeOK,
     Terminal
<1>3. ~UNCHANGED stage
  OBVIOUS
<1>4. ASSUME NEW s \in Sessions, NEW b \in Apps, BeginRequest(s, b)
      PROVE  UNCHANGED stage
  BY <1>4 DEF BeginRequest, BeginClaim, BeginTransition, BeginUpdateCrm,
     BeginPause, BeginResume, BeginReassign, BeginForceCancel,
     BeginForceStage, Begin, file
<1>5. QED
  BY <1>1, <1>2, <1>3, <1>4
  DEF Next, SlaMonitor, ScanBreaches, SkipBreached, AbortPass,
      ChangeDocuments, TimePasses, DeleteStaff, vars, file

\* Where the operations do without reassign, only forceCancel and forceStage
\* move a finished or cancelled file, whatever runs at the same time.
THEOREM TerminalStaysFinal ==
    "reassign" \notin Endpoints => (Spec => TerminalIsFinal)
<1> SUFFICES ASSUME "reassign" \notin Endpoints
             PROVE  Spec => TerminalIsFinal
  OBVIOUS
<1>1. ASSUME TypeOK, OpenTxWellFormed, NEW s \in Sessions, CommitReassign(s)
      PROVE  FALSE
  BY <1>1, EndIsWellFormed DEF CommitReassign, OpNames, WellFormed
<1>2. TypeOK /\ OpenTxWellFormed /\ RowsNumbered /\ [Next]_vars =>
        [\A a \in Apps : stage[a] \in Terminal /\ stage'[a] # stage[a] =>
            \E r \in NewRows(a) :
                r.action \in {"FORCE_CANCELLED", "FORCE_STAGE_CHANGED"}]_vars
  BY <1>1, TerminalMove
<1>3. Init => RowsNumbered
  BY DEF Init, RowsNumbered
<1>4. TypeOK /\ RowsNumbered /\ [Next]_vars => RowsNumbered'
  BY StepKeepsNumbers
<1>5. QED
  BY <1>2, <1>3, <1>4, AlwaysWellFormed, PTL DEF Spec, TerminalIsFinal

\* With reassign in use as well, a closed file is moved by no other endpoint,
\* and a reassign that does so gives itself away: its row says that it read a
\* stage the file was still open in.
ReopenedInSight ==
    [][\A a \in Apps :
          stage[a] \in Terminal /\ stage'[a] # stage[a] =>
              \E r \in NewRows(a) :
                  \/ r.action \in {"FORCE_CANCELLED", "FORCE_STAGE_CHANGED"}
                  \/ r.action = "FORCE_REASSIGNED" /\ r.prev \notin Terminal]_vars

\* Any endpoints, any number of requests, the cron and deleted accounts.
THEOREM ClosedMovesAreForced == Spec => ReopenedInSight
<1>1. ASSUME TypeOK, OpenTxWellFormed, RowsNumbered, NEW s \in Sessions,
             CommitReassign(s)
      PROVE  \E r \in NewRows(tx[s].app) :
                r.action = "FORCE_REASSIGNED" /\ r.prev \notin Terminal
  <2>1. /\ tx[s].app \in Apps /\ tx[s].to \in Stages
        /\ WellFormed(tx[s]) /\ tx[s].op = "reassign"
    BY <1>1, EndTypes, EndIsWellFormed DEF CommitReassign, OpNames
  <2>2. PICK r \in NewRows(tx[s].app) : r.action = "FORCE_REASSIGNED"
    BY <1>1, <2>1, LoggedMoveKeepsNumbers DEF CommitReassign
  <2>3. r.prev = tx[s].read
    BY <1>1, <2>1, AuditAdds DEF CommitReassign
  <2>4. QED
    BY <2>1, <2>2, <2>3 DEF WellFormed
<1>2. TypeOK /\ OpenTxWellFormed /\ RowsNumbered /\ [Next]_vars =>
        [\A a \in Apps : stage[a] \in Terminal /\ stage'[a] # stage[a] =>
            \E r \in NewRows(a) :
                \/ r.action \in {"FORCE_CANCELLED", "FORCE_STAGE_CHANGED"}
                \/ r.action = "FORCE_REASSIGNED" /\ r.prev \notin Terminal]_vars
  BY <1>1, TerminalMove
<1>3. Init => RowsNumbered
  BY DEF Init, RowsNumbered
<1>4. TypeOK /\ RowsNumbered /\ [Next]_vars => RowsNumbered'
  BY StepKeepsNumbers
<1>5. QED
  BY <1>2, <1>3, <1>4, AlwaysWellFormed, PTL DEF Spec, ReopenedInSight

-----------------------------------------------------------------------------
(***************************************************************************)
(* The audit trail again, with every endpoint in use.  What is left of the *)
(* chain: the newest row is true, and only God-Mode leaves a gap.          *)
(***************************************************************************)
\* A row that tells the file's new stage, and its old one unless it is a row
\* of God-Mode, makes no gap that is not God-Mode's.
LEMMA LoggedMoveForcesGaps ==
    ASSUME TypeOK, RowsNumbered, GapsAreForced, NEW a \in Apps,
           NEW st \in Stages, NEW action, NEW prev, NEW by, SetStage(a, st),
           Audit(a, action, prev, st, by),
           action \notin GodMode => prev = stage[a]
    PROVE  GapsAreForced'
<1> DEFINE new == [at |-> rows[a] + 1, action |-> action, prev |-> prev,
                   new |-> st, by |-> by]
<1>1. /\ trail' = [trail EXCEPT ![a] = @ \cup {new}]
      /\ rows' = [rows EXCEPT ![a] = @ + 1]
      /\ stage' = [stage EXCEPT ![a] = st]
  BY DEF Audit, SetStage
<1>2. /\ new.at = rows[a] + 1 /\ new.action = action
      /\ new.prev = prev /\ new.new = st
  OBVIOUS
<1> HIDE DEF new
<1>3. /\ rows[a] \in Nat /\ trail'[a] = trail[a] \cup {new}
      /\ rows'[a] = rows[a] + 1 /\ stage'[a] = st
  BY <1>1 DEF TypeOK
<1>4. \A b \in Apps : b # a => /\ trail'[b] = trail[b] /\ rows'[b] = rows[b]
                               /\ stage'[b] = stage[b]
  BY <1>1 DEF TypeOK
<1>5. \A r \in trail[a] : r.at \in 1 .. rows[a]
  BY DEF RowsNumbered
<1>6. ASSUME NEW r \in trail'[a]
      PROVE  /\ r.at = rows'[a] => r.new = stage'[a]
             /\ r.action \notin GodMode =>
                   \A q \in trail'[a] : q.at + 1 = r.at => q.new = r.prev
  <2>1. CASE r \in trail[a]
    <3>1. r.at \in 1 .. rows[a]
      BY <1>5, <2>1
    <3>2. r.at # rows'[a]
      BY <1>3, <3>1
    <3>3. ASSUME NEW q \in trail'[a], q.at + 1 = r.at  PROVE q \in trail[a]
      BY <1>2, <1>3, <3>1, <3>3
    <3>4. QED
      BY <2>1, <3>2, <3>3 DEF GapsAreForced
  <2>2. CASE r = new
    <3>1. ASSUME NEW q \in trail'[a], q.at + 1 = r.at
          PROVE  q.new = stage[a]
      <4>1. q \in trail[a]
        BY <1>2, <1>3, <2>2, <3>1
      <4>2. q.at = rows[a]
        BY <1>2, <1>3, <1>5, <2>2, <3>1, <4>1
      <4>3. QED
        BY <4>1, <4>2 DEF GapsAreForced
    <3>2. QED
      BY <1>2, <1>3, <2>2, <3>1
  <2>3. QED
    BY <1>3, <2>1, <2>2
<1>7. ASSUME NEW b \in Apps, b # a, NEW r \in trail'[b]
      PROVE  /\ r.at = rows'[b] => r.new = stage'[b]
             /\ r.action \notin GodMode =>
                   \A q \in trail'[b] : q.at + 1 = r.at => q.new = r.prev
  BY <1>4, <1>7 DEF GapsAreForced
<1>8. QED
  BY <1>6, <1>7 DEF GapsAreForced

\* So does every step: the conditional writers know the stage they leave.
LEMMA StepForcesGaps ==
    ASSUME TypeOK, RowsNumbered, GapsAreForced, [Next]_vars
    PROVE  GapsAreForced'
<1>1. ASSUME NEW s \in Sessions, EndRequest(s)  PROVE GapsAreForced'
  <2>1. CASE \/ CommitClaim(s) \/ CommitTransition(s) \/ CommitPause(s)
             \/ CommitResume(s)
    <3>1. tx[s].app \in Apps /\ tx[s].to \in Stages
      BY <2>1, EndTypes DEF OpNames, CommitClaim, CommitTransition, CommitPause,
         CommitResume
    <3>2. /\ SetStage(tx[s].app, tx[s].to) /\ tx[s].read = stage[tx[s].app]
          /\ \E action : Audit(tx[s].app, action, tx[s].read, tx[s].to, tx[s].by)
      BY <2>1 DEF CommitClaim, CommitTransition, CommitPause, CommitResume,
         ClaimWhere, StageWhere
    <3>3. QED
      BY <3>1, <3>2, LoggedMoveForcesGaps
  <2>2. CASE CommitUpdateCrm(s)
    <3>1. tx[s].app \in Apps /\ tx[s].to \in Stages
      BY <2>2, EndTypes DEF CommitUpdateCrm, OpNames
    <3>2. CASE UNCHANGED <<stage, log>>
      BY <3>2 DEF GapsAreForced, log
    <3>3. CASE ~UNCHANGED <<stage, log>>
      BY <2>2, <3>1, <3>3, LoggedMoveForcesGaps DEF CommitUpdateCrm, StageWhere
    <3>4. QED
      BY <3>2, <3>3
  <2>3. CASE CommitReassign(s) \/ CommitForceCancel(s) \/ CommitForceStage(s)
    <3>1. tx[s].app \in Apps /\ tx[s].to \in Stages
      BY <2>3, EndTypes DEF OpNames, CommitReassign, CommitForceCancel,
         CommitForceStage
    <3>2. /\ SetStage(tx[s].app, tx[s].to)
          /\ \E action \in GodMode :
                Audit(tx[s].app, action, tx[s].read, tx[s].to, tx[s].by)
      BY <2>3 DEF CommitReassign, CommitForceCancel, CommitForceStage, GodMode
    <3>3. QED
      BY <3>1, <3>2, LoggedMoveForcesGaps
  <2>4. CASE Rollback(s)
    BY <2>4 DEF Rollback, file, log, GapsAreForced
  <2>5. QED
    BY <1>1, <2>1, <2>2, <2>3, <2>4 DEF EndRequest
<1>2. ASSUME NEW a \in Apps, RevertBreached(a)  PROVE GapsAreForced'
  BY <1>2, LoggedMoveForcesGaps DEF RevertBreached, RevertWhere, Stages
<1>3. ASSUME NEW a \in Apps, Create(a)  PROVE GapsAreForced'
  BY <1>3, LoggedMoveForcesGaps DEF Create, Stages
<1>4. ASSUME NEW p \in Staff, DeleteStaff(p)  PROVE GapsAreForced'
  <2>1. /\ \A a \in Apps : trail'[a] \subseteq trail[a]
        /\ UNCHANGED <<stage, rows>>
    BY <1>4 DEF DeleteStaff
  <2>2. QED
    BY <2>1 DEF GapsAreForced
<1>5. CASE UNCHANGED <<stage, log>>
  BY <1>5 DEF GapsAreForced, log
<1>6. ASSUME NEW s \in Sessions, NEW a \in Apps, BeginRequest(s, a)
      PROVE  UNCHANGED <<stage, log>>
  BY <1>6 DEF BeginRequest, BeginClaim, BeginTransition, BeginUpdateCrm,
     BeginPause, BeginResume, BeginReassign, BeginForceCancel,
     BeginForceStage, Begin, file
<1>7. QED
  BY <1>1, <1>2, <1>3, <1>4, <1>5, <1>6
  DEF Next, SlaMonitor, ScanBreaches, SkipBreached, AbortPass,
      ChangeDocuments, TimePasses, vars, file

\* Whatever runs, a gap in an audit trail is God-Mode's and the newest row is
\* where the file is.
THEOREM GapsAlwaysForced == Spec => []GapsAreForced
<1>1. Init => RowsNumbered /\ GapsAreForced
  BY DEF Init, RowsNumbered, GapsAreForced
<1>2. TypeOK /\ RowsNumbered /\ [Next]_vars => RowsNumbered'
  BY StepKeepsNumbers
<1>3. TypeOK /\ RowsNumbered /\ GapsAreForced /\ [Next]_vars => GapsAreForced'
  BY StepForcesGaps
<1>4. QED
  BY <1>1, <1>2, <1>3, TypeCorrect, PTL DEF Spec

\* A rep's save of the CRM record is made in SALES_PROCESS or not at all.
THEOREM CrmAlwaysClosesWithSales == Spec => CrmClosesWithSales
<1>1. ASSUME TypeOK, OpenTxWellFormed, [Next]_vars, NEW a \in Apps,
             crm'[a] # crm[a], stage[a] # "SALES_PROCESS"
      PROVE  AdminSaves
  <2>1. PICK s \in Sessions : CommitUpdateCrm(s)
    <3>1. crm' # crm
      BY <1>1
    <3>2. ASSUME NEW s \in Sessions, NEW b \in Apps, BeginRequest(s, b)
          PROVE  UNCHANGED crm
      BY <3>2 DEF BeginRequest, BeginClaim, BeginTransition, BeginUpdateCrm,
         BeginPause, BeginResume, BeginReassign, BeginForceCancel,
         BeginForceStage, Begin, gates
    <3>3. QED
      BY <1>1, <3>1, <3>2 DEF Next, EndRequest, CommitClaim, CommitTransition,
         CommitPause, CommitResume, CommitReassign, CommitForceCancel,
         CommitForceStage, Rollback, SlaMonitor, ScanBreaches, RevertBreached,
         SkipBreached, AbortPass, Create, ChangeDocuments, TimePasses,
         DeleteStaff, vars, gates
  <2>2. /\ tx[s].app \in Apps /\ WellFormed(tx[s]) /\ tx[s].op = "updateCrm"
        /\ tx'[s] = NoTx
    BY <1>1, <2>1, EndTypes, EndIsWellFormed
    DEF CommitUpdateCrm, OpNames, End, TypeOK
  <2>3. tx[s].app = a
    BY <1>1, <2>1, <2>2 DEF CommitUpdateCrm, TypeOK
  <2>4. tx[s].read # "SALES_PROCESS"
    BY <1>1, <2>1, <2>3 DEF CommitUpdateCrm, StageWhere
  <2>5. QED
    BY <2>2, <2>4 DEF WellFormed, AdminSaves
<1>2. TypeOK /\ OpenTxWellFormed /\ [Next]_vars =>
        [\A a \in Apps :
            crm'[a] # crm[a] =>
                stage[a] = "SALES_PROCESS" \/ AdminSaves]_vars
  BY <1>1
<1>3. QED
  BY <1>2, AlwaysWellFormed, PTL DEF Spec, CrmClosesWithSales

-----------------------------------------------------------------------------
(***************************************************************************)
(* The assignments.  The workflow is shown to make CasePipeline's moves    *)
(* only, from the invariant that those moves keep.                         *)
(***************************************************************************)
\* A file that does not exist is assigned to nobody.
AbsentUnassigned ==
    \A a \in Apps : stage[a] = "ABSENT" =>
                       \A d \in Departments : assigned[a][d] = None

AssignInv == AssignmentsFollowPipeline /\ AbsentUnassigned

\* What the invariant needs of the tables: a claim starts a department's part
\* of the line, and neither it nor a hand-off touches another department's.
LEMMA TableSteps ==
    \A d \in Departments :
        /\ ProcessStage[d] \in StagesFrom[d] /\ PoolStage[d] \notin StagesFrom[d]
        /\ PoolStage[d] \in Line /\ ProcessStage[d] \in Line
        /\ NextStage[d] \in Line
        /\ \A e \in Departments :
              /\ ProcessStage[d] \in StagesFrom[e] <=> NextStage[d] \in StagesFrom[e]
              /\ e # d => (PoolStage[d] \in StagesFrom[e]
                              <=> ProcessStage[d] \in StagesFrom[e])
              /\ PoolStage[e] = NextStage[d] => ProcessStage[d] \notin StagesFrom[e]
BY DEF Departments, PoolStage, ProcessStage, NextStage, StagesFrom, Line, Stages

\* The instance of CasePipeline has the same tables.
LEMMA SameTables ==
    /\ Pipeline!Departments = Departments
    /\ Pipeline!PoolStage = PoolStage
    /\ Pipeline!ProcessStage = ProcessStage
    /\ Pipeline!NextStage = NextStage
    /\ Pipeline!NonPausable = NonPausable
BY DEF Pipeline!Departments, Pipeline!PoolStage, Pipeline!ProcessStage,
       Pipeline!NextStage, Pipeline!NonPausable, Departments, PoolStage,
       ProcessStage, NextStage, NonPausable

\* Every move of the abstract pipeline keeps the assignments in step with the
\* stages, whoever makes it.
LEMMA MovesKeepAssignments ==
    ASSUME TypeOK, AssignInv, [Pipeline!PNext]_(Pipeline!pvars)
    PROVE  AssignInv'
<1> USE ActorsAssumption, SameTables
<1>0. CASE UNCHANGED Pipeline!pvars
  BY <1>0 DEF Pipeline!pvars, AssignInv, AssignmentsFollowPipeline,
     AbsentUnassigned
<1> SUFFICES ASSUME NEW a \in Apps,
                    \/ Pipeline!Open(a)
                    \/ \E p \in Staff : Pipeline!Take(a, p)
                    \/ \E d \in Departments : Pipeline!HandOver(a, d)
                    \/ Pipeline!GiveBack(a)
                    \/ Pipeline!Park(a)
             PROVE  AssignInv'
  BY <1>0 DEF Pipeline!PNext
<1> DEFINE Follows(b) ==
              /\ \A e \in Departments : stage[b] \in Line =>
                    (assigned[b][e] # None <=> stage[b] \in StagesFrom[e])
              /\ stage[b] = "ABSENT" =>
                    \A e \in Departments : assigned[b][e] = None
<1>1. \A b \in Apps : Follows(b)
  BY DEF AssignInv, AssignmentsFollowPipeline, AbsentUnassigned
<1>2. /\ stage \in [Apps -> AllStages]
      /\ assigned \in [Apps -> [Departments -> Staff \cup {None}]]
  BY DEF TypeOK
<1>3. "ABSENT" \notin Line
  BY DEF Line, Stages
<1>4. \A b \in Apps : b # a => stage'[b] = stage[b] /\ assigned'[b] = assigned[b]
  BY <1>2 DEF Pipeline!Open, Pipeline!Take, Pipeline!HandOver,
     Pipeline!GiveBack, Pipeline!Park, Pipeline!Move
<1>5. Follows(a)'
  <2>1. CASE Pipeline!Open(a)
    <3>1. stage'[a] = "SALES_POOL" /\ assigned' = assigned
      BY <2>1, <1>2 DEF Pipeline!Open, Pipeline!Move
    <3>2. \A e \in Departments : assigned[a][e] = None
      BY <2>1, <1>1 DEF Pipeline!Open
    <3>3. \A e \in Departments : "SALES_POOL" \notin StagesFrom[e]
      BY DEF Departments, StagesFrom, Line
    <3>4. QED
      BY <3>1, <3>2, <3>3
  <2>2. ASSUME NEW p \in Staff, Pipeline!Take(a, p)  PROVE Follows(a)'
    <3> DEFINE d == DeptOf[p]
    <3>1. d \in Departments
      OBVIOUS
    <3>2. /\ stage[a] = PoolStage[d] /\ stage'[a] = ProcessStage[d]
          /\ assigned' = [assigned EXCEPT ![a][d] = p]
      BY <2>2, <1>2 DEF Pipeline!Take, Pipeline!Move
    <3> HIDE DEF d
    <3>3. /\ assigned'[a][d] = p
          /\ \A e \in Departments : e # d => assigned'[a][e] = assigned[a][e]
      BY <3>1, <3>2, <1>2
    <3>4. p # None
      OBVIOUS
    <3>5. QED
      BY <3>1, <3>2, <3>3, <3>4, <1>1, <1>3, TableSteps
  <2>3. ASSUME NEW d \in Departments, Pipeline!HandOver(a, d)
        PROVE  Follows(a)'
    <3>1. /\ stage[a] = ProcessStage[d] /\ stage'[a] = NextStage[d]
          /\ assigned' = assigned
      BY <2>3, <1>2 DEF Pipeline!HandOver, Pipeline!Move
    <3>2. QED
      BY <3>1, <1>1, <1>3, TableSteps
  <2>4. CASE Pipeline!GiveBack(a)
    <3>1. /\ stage[a] = "SALES_PROCESS" /\ stage'[a] = "SALES_POOL"
          /\ assigned' = [assigned EXCEPT ![a]["SALES"] = None]
      BY <2>4, <1>2 DEF Pipeline!GiveBack, Pipeline!Move
    <3>2. /\ assigned'[a]["SALES"] = None
          /\ \A e \in Departments : e # "SALES" => assigned'[a][e] = assigned[a][e]
      BY <3>1, <1>2 DEF Departments
    <3>3. /\ "SALES_PROCESS" \in Line
          /\ \A e \in Departments : /\ "SALES_POOL" \notin StagesFrom[e]
                                    /\ e # "SALES" =>
                                          "SALES_PROCESS" \notin StagesFrom[e]
      BY DEF Departments, StagesFrom, Line, Stages
    <3>4. \A e \in Departments : assigned'[a][e] = None
      BY <3>1, <3>2, <3>3, <1>1
    <3>5. QED
      BY <3>1, <3>3, <3>4
  <2>5. CASE Pipeline!Park(a)
    <3>1. stage'[a] = "PAUSED"
      BY <2>5, <1>2 DEF Pipeline!Park, Pipeline!Move
    <3>2. QED
      BY <3>1 DEF Line
  <2>6. QED
    BY <2>1, <2>2, <2>3, <2>4, <2>5
<1>6. \A b \in Apps : Follows(b)'
  BY <1>1, <1>4, <1>5
<1>7. QED
  BY <1>6 DEF AssignInv, AssignmentsFollowPipeline, AbsentUnassigned

\* A department's hand-off, by transitionStage or by updateCrm's auto-advance,
\* is a HandOver: the file is held there and not yet in the next department.
LEMMA HandOffIsHandOver ==
    ASSUME TypeOK, AssignInv, NEW a \in Apps, NEW d \in Departments,
           stage[a] = ProcessStage[d], SetStage(a, NextStage[d]),
           UNCHANGED assigned
    PROVE  Pipeline!HandOver(a, d)
<1>1. stage[a] \in Line /\ stage[a] \in StagesFrom[d]
  BY TableSteps
<1>2. assigned[a][d] # None
  BY <1>1 DEF AssignInv, AssignmentsFollowPipeline
<1>3. \A e \in Departments : PoolStage[e] = NextStage[d] => assigned[a][e] = None
  BY <1>1, TableSteps DEF AssignInv, AssignmentsFollowPipeline
<1>4. QED
  BY <1>2, <1>3, SameTables DEF Pipeline!HandOver, Pipeline!Move, SetStage

\* Every step that staff, applicants and the cron can cause, other than to
\* resume, is a move of the abstract pipeline or changes nothing it can see.
LEMMA StepIsMove ==
    ASSUME StaffOnly, TypeOK, OpenTxWellFormed, AssignInv, [Next]_vars
    PROVE  [Pipeline!PNext]_(Pipeline!pvars)
<1> USE ActorsAssumption, SameTables
<1>1. ASSUME NEW s \in Sessions, EndRequest(s)
      PROVE  [Pipeline!PNext]_(Pipeline!pvars)
  <2> DEFINE a == tx[s].app
  <2>1. CASE CommitClaim(s)
    <3>1. /\ WellFormed(tx[s]) /\ tx[s].op = "claim" /\ a \in Apps
          /\ tx[s].whom \in Staff
      BY <2>1, EndTypes, EndIsWellFormed DEF CommitClaim, OpNames, WellFormed
    <3>2. Pipeline!Take(a, tx[s].whom)
      BY <2>1, <3>1 DEF CommitClaim, ClaimWhere, WellFormed, SetStage,
         Pipeline!Take, Pipeline!Move
    <3>3. QED
      BY <3>1, <3>2 DEF Pipeline!PNext
  <2>2. CASE CommitTransition(s)
    <3>1. WellFormed(tx[s]) /\ tx[s].op = "transition" /\ a \in Apps
      BY <2>2, EndTypes, EndIsWellFormed DEF CommitTransition, OpNames
    <3>2. PICK d \in Departments : /\ tx[s].read = ProcessStage[d]
                                   /\ tx[s].to = NextStage[d]
      BY <3>1 DEF WellFormed
    <3>3. Pipeline!HandOver(a, d)
      BY <2>2, <3>1, <3>2, HandOffIsHandOver DEF CommitTransition, StageWhere
    <3>4. QED
      BY <3>1, <3>3 DEF Pipeline!PNext
  <2>3. CASE CommitUpdateCrm(s)
    <3>1. WellFormed(tx[s]) /\ tx[s].op = "updateCrm" /\ a \in Apps
      BY <2>3, EndTypes, EndIsWellFormed DEF CommitUpdateCrm, OpNames
    <3>2. CASE UNCHANGED stage
      BY <2>3, <3>2 DEF CommitUpdateCrm, Pipeline!pvars
    <3>3. CASE ~UNCHANGED stage
      <4>1. /\ stage[a] = "SALES_PROCESS" /\ SetStage(a, "DOC_POOL")
            /\ UNCHANGED assigned
        BY <2>3, <3>1, <3>3 DEF CommitUpdateCrm, StageWhere, WellFormed
      <4>2. /\ "SALES" \in Departments
            /\ ProcessStage["SALES"] = "SALES_PROCESS"
            /\ NextStage["SALES"] = "DOC_POOL"
        BY DEF Departments, ProcessStage, NextStage
      <4>3. Pipeline!HandOver(a, "SALES")
        BY <3>1, <4>1, <4>2, HandOffIsHandOver
      <4>4. QED
        BY <3>1, <4>2, <4>3 DEF Pipeline!PNext
    <3>4. QED
      BY <3>2, <3>3
  <2>4. CASE CommitPause(s)
    <3>1. /\ WellFormed(tx[s]) /\ tx[s].op = "pause" /\ a \in Apps
          /\ tx[s].read \in Stages
      BY <2>4, EndTypes, EndIsWellFormed DEF CommitPause, OpNames
    <3>2. Pipeline!Park(a)
      BY <2>4, <3>1 DEF CommitPause, StageWhere, WellFormed, SetStage, Stages,
         Pipeline!Park, Pipeline!Move
    <3>3. QED
      BY <3>1, <3>2 DEF Pipeline!PNext
  <2>5. CASE \/ CommitResume(s) \/ CommitReassign(s) \/ CommitForceCancel(s)
             \/ CommitForceStage(s)
    BY <2>5, EndIsWellFormed DEF CommitResume, CommitReassign,
       CommitForceCancel, CommitForceStage, OpNames, WellFormed, StaffOnly,
       NoGodMode
  <2>6. CASE Rollback(s)
    BY <2>6 DEF Rollback, file, Pipeline!pvars
  <2>7. QED
    BY <1>1, <2>1, <2>2, <2>3, <2>4, <2>5, <2>6 DEF EndRequest
<1>2. ASSUME NEW a \in Apps, RevertBreached(a)
      PROVE  [Pipeline!PNext]_(Pipeline!pvars)
  <2>1. assigned[a]["SALES"] # None
    BY <1>2 DEF RevertBreached, RevertWhere, TypeOK
  <2>2. Pipeline!GiveBack(a)
    BY <1>2, <2>1 DEF RevertBreached, RevertWhere, SetStage,
       Pipeline!GiveBack, Pipeline!Move
  <2>3. QED
    BY <2>2 DEF Pipeline!PNext
<1>3. ASSUME NEW a \in Apps, Create(a)
      PROVE  [Pipeline!PNext]_(Pipeline!pvars)
  <2>1. Pipeline!Open(a)
    BY <1>3 DEF Create, SetStage, Pipeline!Open, Pipeline!Move
  <2>2. QED
    BY <2>1 DEF Pipeline!PNext
<1>4. ASSUME NEW p \in Staff, DeleteStaff(p)  PROVE FALSE
  BY <1>4 DEF DeleteStaff, SingleStep, StaffOnly, NoGodMode
<1>5. CASE UNCHANGED <<stage, assigned>>
  BY <1>5 DEF Pipeline!pvars
<1>6. ASSUME NEW s \in Sessions, NEW a \in Apps, BeginRequest(s, a)
      PROVE  UNCHANGED <<stage, assigned>>
  BY <1>6 DEF BeginRequest, BeginClaim, BeginTransition, BeginUpdateCrm,
     BeginPause, BeginResume, BeginReassign, BeginForceCancel,
     BeginForceStage, Begin, file
<1>7. QED
  BY <1>1, <1>2, <1>3, <1>4, <1>5, <1>6
  DEF Next, SlaMonitor, ScanBreaches, SkipBreached, AbortPass,
      ChangeDocuments, TimePasses, vars, file

\* At the start no file exists, here and in the abstract pipeline.
LEMMA AssignInit == Init => AssignInv /\ Pipeline!PInit
BY SameTables DEF Init, AssignInv, AssignmentsFollowPipeline, AbsentUnassigned,
   Line, Stages, Pipeline!PInit

\* While only staff, applicants and the cron act, and nobody resumes a file,
\* a department holds a file exactly from the moment it claimed it on.
THEOREM AssignmentsAlwaysFollow ==
    StaffOnly => (Spec => []AssignmentsFollowPipeline)
<1> SUFFICES ASSUME StaffOnly  PROVE Spec => []AssignmentsFollowPipeline
  OBVIOUS
<1>1. TypeOK /\ OpenTxWellFormed /\ AssignInv /\ [Next]_vars => AssignInv'
  BY StepIsMove, MovesKeepAssignments
<1>2. QED
  BY <1>1, AssignInit, AlwaysWellFormed, PTL DEF Spec, AssignInv

\* ... and the workflow with its requests, stale reads and conditional writes
\* implements the pipeline that has none of them.
THEOREM ImplementsPipeline == StaffOnly => (Spec => RefinesPipeline)
<1> SUFFICES ASSUME StaffOnly  PROVE Spec => RefinesPipeline
  OBVIOUS
<1>1. TypeOK /\ OpenTxWellFormed /\ AssignInv /\ [Next]_vars => AssignInv'
  BY StepIsMove, MovesKeepAssignments
<1>2. TypeOK /\ OpenTxWellFormed /\ AssignInv /\ [Next]_vars
         => [Pipeline!PNext]_(Pipeline!pvars)
  BY StepIsMove
<1>3. QED
  BY <1>1, <1>2, AssignInit, AlwaysWellFormed, PTL
  DEF Spec, RefinesPipeline, Pipeline!PSpec

\* ... so no file waits in a pool assigned to somebody of the pool's
\* department, where no list shows it and no claim can take it.
THEOREM PoolsAlwaysUnassigned == StaffOnly => (Spec => []PoolsAreUnassigned)
<1>1. AssignmentsFollowPipeline => PoolsAreUnassigned
  BY TableSteps DEF AssignmentsFollowPipeline, PoolsAreUnassigned
<1>2. QED
  BY <1>1, AssignmentsAlwaysFollow, PTL

-----------------------------------------------------------------------------
(***************************************************************************)
(* Whose the file is, is checked before a hand-off and not compared again  *)
(* by its write, which only sees that the stage is the one that was read   *)
(* and cannot tell a stage that was left and entered again.  What it       *)
(* misses is the file being taken away while the request goes on: by the   *)
(* cron, by reassign or with the account.  Nothing else does.              *)
(***************************************************************************)
OwnerHolds(t) ==
    \/ t.by = Admin
    \/ \E d \in Departments : t.read = ProcessStage[d] /\ assigned[t.app][d] = t.by

\* With SLA_AUTO_REVERT_ENABLED off the monitor has no file in hand.
NothingBreached == \A a \in Apps : breached[a] = None

\* ... and never gets one.
LEMMA StepKeepsNothingBreached ==
    ASSUME ~AutoRevert, TypeOK, NothingBreached, [Next]_vars
    PROVE  NothingBreached'
<1>1. ASSUME NEW a \in Apps, RevertBreached(a)  PROVE FALSE
  BY <1>1, ActorsAssumption DEF RevertBreached, NothingBreached, TypeOK
<1>2. CASE UNCHANGED breached
  BY <1>2 DEF NothingBreached
<1>3. ASSUME NEW s \in Sessions, EndRequest(s)  PROVE UNCHANGED breached
  BY <1>3 DEF EndRequest, CommitClaim, CommitTransition, CommitUpdateCrm,
     CommitPause, CommitResume, CommitReassign, CommitForceCancel,
     CommitForceStage, Rollback, monitor
<1>4. ASSUME NEW s \in Sessions, NEW a \in Apps, BeginRequest(s, a)
      PROVE  UNCHANGED breached
  BY <1>4 DEF BeginRequest, BeginClaim, BeginTransition, BeginUpdateCrm,
     BeginPause, BeginResume, BeginReassign, BeginForceCancel,
     BeginForceStage, Begin, monitor
<1>5. ~AbortPass /\ ~\E a \in Apps : SkipBreached(a)
  BY DEF AbortPass, SkipBreached, NothingBreached
<1>6. QED
  BY <1>1, <1>2, <1>3, <1>4, <1>5
  DEF Next, SlaMonitor, ScanBreaches, Create, ChangeDocuments, TimePasses,
      DeleteStaff, vars, monitor

\* Only its handler begins a hand-off.
LEMMA BeginNamesHandler ==
    ASSUME NEW s \in Sessions, NEW a \in Apps, BeginRequest(s, a)
    PROVE  \E t : /\ Begin(s, t)
                  /\ t.op = "transition" =>
                       \E by \in Actors, d \in Departments : BeginTransition(s, by, a, d)
<1> DEFINE Goal(op) == \E t : Begin(s, t) /\ t.op = op
<1>1. ASSUME NEW p \in Staff, BeginClaim(s, p, a)  PROVE Goal("claim")
  BY <1>1 DEF BeginClaim
<1>2. ASSUME NEW by \in Actors, NEW d \in Departments, BeginTransition(s, by, a, d)
      PROVE  Goal("transition")
  BY <1>2 DEF BeginTransition
<1>3. ASSUME NEW by \in Actors, NEW ok \in BOOLEAN, BeginUpdateCrm(s, by, a, ok)
      PROVE  Goal("updateCrm")
  <2> DEFINE t == [op |-> "updateCrm", app |-> a, by |-> by, read |-> stage[a],
                   to |-> IF CrmAutoAdvance /\ stage[a] = "SALES_PROCESS" /\ ok
                          THEN "DOC_POOL" ELSE stage[a],
                   whom |-> IF salesStaff[a] = None THEN assigned[a]["SALES"]
                                                    ELSE None,
                   ok |-> ok]
  <2>1. Begin(s, t)
    BY <1>3 DEF BeginUpdateCrm
  <2>2. t.op = "updateCrm"
    OBVIOUS
  <2> HIDE DEF t
  <2>3. QED
    BY <2>1, <2>2
<1>4. ASSUME NEW by \in Actors, BeginPause(s, by, a)  PROVE Goal("pause")
  BY <1>4 DEF BeginPause
<1>5. ASSUME NEW by \in Actors, BeginResume(s, by, a)  PROVE Goal("resume")
  BY <1>5 DEF BeginResume
<1>6. ASSUME NEW p \in Staff, BeginReassign(s, p, a)  PROVE Goal("reassign")
  BY <1>6 DEF BeginReassign
<1>7. ASSUME BeginForceCancel(s, a)  PROVE Goal("forceCancel")
  BY <1>7 DEF BeginForceCancel
<1>8. ASSUME NEW st \in ForceTargets, BeginForceStage(s, a, st)
      PROVE  Goal("forceStage")
  BY <1>8 DEF BeginForceStage
<1>9. QED
  BY <1>1, <1>2, <1>3, <1>4, <1>5, <1>6, <1>7, <1>8 DEF BeginRequest

\* Whoever advances a file, it is by the commit of transitionStage.
LEMMA AdvanceIsCommit ==
    ASSUME TypeOK, [Next]_vars, NEW s \in Sessions, Advances(s)
    PROVE  CommitTransition(s) /\ tx[s] # NoTx
<1>1. tx[s].op = "transition" /\ tx'[s] = NoTx /\ stage' # stage /\ tx[s] # NoTx
  BY DEF Advances, NoTx
<1>2. ASSUME NEW r \in Sessions, EndRequest(r)
      PROVE  CommitTransition(s)
  <2>1. tx' = [tx EXCEPT ![r] = NoTx]
    BY <1>2 DEF EndRequest, End, CommitClaim, CommitTransition, CommitUpdateCrm,
       CommitPause, CommitResume, CommitReassign, CommitForceCancel,
       CommitForceStage, Rollback
  <2>2. r = s
    BY <1>1, <2>1 DEF TypeOK
  <2>3. QED
    BY <1>1, <1>2, <2>2 DEF EndRequest, End, CommitClaim, CommitUpdateCrm,
       CommitPause, CommitResume, CommitReassign, CommitForceCancel,
       CommitForceStage, Rollback, file
<1>3. ASSUME NEW r \in Sessions, NEW b \in Apps, BeginRequest(r, b)  PROVE FALSE
  <2>1. PICK t : Begin(r, t)
    BY <1>3, BeginNamesHandler
  <2>2. QED
    BY <1>1, <2>1 DEF Begin, file
<1>4. tx' # tx
  BY <1>1
<1>5. QED
  BY <1>1, <1>2, <1>3, <1>4
  DEF Next, SlaMonitor, ScanBreaches, RevertBreached, SkipBreached, AbortPass,
      Create, ChangeDocuments, TimePasses, DeleteStaff, vars

NothingTaken == ~AutoRevert /\ Endpoints \cap {"reassign", "deleteStaff"} = {}

OpenTxOwned ==
    \A s \in Sessions : tx[s].op = "transition" => OwnerHolds(tx[s])

\* Where nothing is taken, whoever has a file keeps it.
LEMMA HoldersStay ==
    ASSUME NothingTaken, TypeOK, OpenTxWellFormed, NothingBreached, [Next]_vars,
           NEW a \in Apps, NEW d \in Departments, assigned[a][d] # None
    PROVE  assigned'[a][d] = assigned[a][d]
<1> USE ActorsAssumption
<1>1. ASSUME NEW s \in Sessions, EndRequest(s)
      PROVE  assigned'[a][d] = assigned[a][d]
  <2>1. CASE CommitClaim(s)
    <3>1. tx[s].app \in Apps /\ WellFormed(tx[s]) /\ tx[s].op = "claim"
      BY <2>1, EndTypes, EndIsWellFormed DEF CommitClaim, OpNames
    <3> DEFINE e == DeptOf[tx[s].whom]
    <3>2. /\ assigned' = [assigned EXCEPT ![tx[s].app][e] = tx[s].whom]
          /\ assigned[tx[s].app][e] = None
      BY <2>1 DEF CommitClaim, ClaimWhere
    <3>3. tx[s].app # a \/ e # d
      BY <3>2
    <3> HIDE DEF e
    <3>4. QED
      BY <3>2, <3>3 DEF TypeOK
  <2>2. CASE CommitReassign(s)
    BY <2>2, EndIsWellFormed DEF CommitReassign, OpNames, WellFormed, NothingTaken
  <2>3. CASE ~CommitClaim(s) /\ ~CommitReassign(s)
    BY <1>1, <2>3 DEF EndRequest, CommitTransition, CommitUpdateCrm, CommitPause,
       CommitResume, CommitForceCancel, CommitForceStage, Rollback, file
  <2>4. QED
    BY <2>1, <2>2, <2>3
<1>2. ASSUME NEW b \in Apps, RevertBreached(b)  PROVE FALSE
  BY <1>2 DEF RevertBreached, NothingBreached, TypeOK
<1>3. ASSUME NEW p \in Staff, DeleteStaff(p)  PROVE FALSE
  BY <1>3 DEF DeleteStaff, SingleStep, NothingTaken
<1>4. CASE UNCHANGED assigned
  BY <1>4
<1>5. ASSUME NEW s \in Sessions, NEW b \in Apps, BeginRequest(s, b)
      PROVE  UNCHANGED assigned
  BY <1>5 DEF BeginRequest, BeginClaim, BeginTransition, BeginUpdateCrm,
     BeginPause, BeginResume, BeginReassign, BeginForceCancel,
     BeginForceStage, Begin, file
<1>6. QED
  BY <1>1, <1>2, <1>3, <1>4, <1>5
  DEF Next, SlaMonitor, ScanBreaches, SkipBreached, AbortPass, Create,
      ChangeDocuments, TimePasses, vars, file

\* So what a hand-off checked about its owner is so until it commits, while
\* files pause, resume, are forced about and come back to the same stage.
LEMMA StepKeepsOwned ==
    ASSUME NothingTaken, TypeOK, OpenTxWellFormed, NothingBreached, OpenTxOwned,
           [Next]_vars
    PROVE  OpenTxOwned'
<1> SUFFICES ASSUME NEW s \in Sessions, tx'[s].op = "transition"
             PROVE  OwnerHolds(tx[s])'
  BY DEF OpenTxOwned, OwnerHolds
<1>1. CASE tx'[s] = tx[s]
  <2> DEFINE t == tx[s]
  <2>1. t \in Tx /\ OwnerHolds(t)
    BY <1>1 DEF OpenTxOwned, TypeOK, NoTx
  <2>2. CASE t.by = Admin
    BY <1>1, <2>2 DEF OwnerHolds
  <2>3. ASSUME NEW d \in Departments, t.read = ProcessStage[d],
               assigned[t.app][d] = t.by, t.by # Admin
        PROVE  OwnerHolds(tx[s])'
    <3>1. t.app \in Apps /\ t.by # None
      BY <2>1, ActorsAssumption DEF Tx, Actors
    <3>2. assigned'[t.app][d] = t.by
      BY <2>3, <3>1, HoldersStay
    <3>3. QED
      BY <1>1, <2>3, <3>2 DEF OwnerHolds
  <2>4. QED
    BY <2>1, <2>2, <2>3 DEF OwnerHolds
<1>2. ASSUME NEW q \in Sessions, NEW a \in Apps, BeginRequest(q, a)
      PROVE  OwnerHolds(tx[s])'
  <2>1. PICK t : /\ Begin(q, t)
                 /\ t.op = "transition" =>
                      \E by \in Actors, d \in Departments : BeginTransition(q, by, a, d)
    BY <1>2, BeginNamesHandler
  <2>2. tx' = [tx EXCEPT ![q] = t] /\ assigned' = assigned
    BY <2>1 DEF Begin, file
  <2>3. CASE q # s
    BY <1>1, <2>2, <2>3 DEF TypeOK
  <2>4. CASE q = s
    <3>1. tx'[s] = t
      BY <2>2, <2>4 DEF TypeOK
    <3>2. PICK by \in Actors, d \in Departments : BeginTransition(s, by, a, d)
      BY <2>1, <2>4, <3>1
    <3>3. tx'[s] = [op |-> "transition", app |-> a, by |-> by,
                    read |-> ProcessStage[d], to |-> NextStage[d],
                    whom |-> None, ok |-> FALSE]
      BY <3>2 DEF BeginTransition, Begin, TypeOK
    <3>4. by = Admin \/ assigned[a][d] = by
      BY <3>2 DEF BeginTransition, MayAdvance
    <3>5. QED
      BY <2>2, <3>3, <3>4 DEF OwnerHolds
  <2>5. QED
    BY <2>3, <2>4
<1>3. ASSUME NEW q \in Sessions, EndRequest(q)
      PROVE  OwnerHolds(tx[s])'
  <2>1. tx' = [tx EXCEPT ![q] = NoTx]
    BY <1>3 DEF EndRequest, End, CommitClaim, CommitTransition,
       CommitUpdateCrm, CommitPause, CommitResume, CommitReassign,
       CommitForceCancel, CommitForceStage, Rollback
  <2>2. q # s
    BY <2>1 DEF TypeOK, NoTx
  <2>3. QED
    BY <1>1, <2>1, <2>2 DEF TypeOK
<1>4. QED
  BY <1>1, <1>2, <1>3
  DEF Next, SlaMonitor, ScanBreaches, RevertBreached, SkipBreached, AbortPass,
      Create, ChangeDocuments, TimePasses, DeleteStaff, vars

\* With any number of requests: while the SLA revert is off and nobody uses
\* reassign or deleteUser, only the one a file is assigned to, or an admin,
\* advances it.
THEOREM OwnerAdvancesUnlessTaken == NothingTaken => (Spec => AdvancedByOwner)
<1> SUFFICES ASSUME NothingTaken  PROVE Spec => AdvancedByOwner
  OBVIOUS
<1>1. ASSUME TypeOK, OpenTxOwned, [Next]_vars, NEW s \in Sessions, Advances(s)
      PROVE  \/ tx[s].by = Admin
             \/ \E d \in Departments : /\ stage[tx[s].app] = ProcessStage[d]
                                       /\ assigned[tx[s].app][d] = tx[s].by
  <2>1. CommitTransition(s)
    BY <1>1, AdvanceIsCommit
  <2>2. stage[tx[s].app] = tx[s].read /\ tx[s].op = "transition"
    BY <2>1 DEF CommitTransition, End, StageWhere
  <2>3. QED
    BY <1>1, <2>2 DEF OpenTxOwned, OwnerHolds
<1>2. TypeOK /\ OpenTxOwned /\ [Next]_vars =>
        [\A s \in Sessions : Advances(s) =>
            \/ tx[s].by = Admin
            \/ \E d \in Departments : /\ stage[tx[s].app] = ProcessStage[d]
                                      /\ assigned[tx[s].app][d] = tx[s].by]_vars
  BY <1>1
<1>3. Init => NothingBreached /\ OpenTxOwned
  BY DEF Init, NothingBreached, OpenTxOwned, NoTx
<1>4. ~AutoRevert
  BY DEF NothingTaken
<1>5. TypeOK /\ NothingBreached /\ [Next]_vars => NothingBreached'
  BY <1>4, StepKeepsNothingBreached
<1>6. TypeOK /\ OpenTxWellFormed /\ NothingBreached /\ OpenTxOwned /\ [Next]_vars
        => OpenTxOwned'
  BY StepKeepsOwned
<1>7. QED
  BY <1>2, <1>3, <1>5, <1>6, AlwaysWellFormed, PTL DEF Spec, AdvancedByOwner
=============================================================================
