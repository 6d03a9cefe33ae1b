---------------------------- MODULE ProcessFlow ----------------------------
(***************************************************************************)
(* The fixed tables of the visa pipeline: the stages a file goes through,  *)
(* the three departments that work on it, and the two lookup tables every  *)
(* handler of VisaApplicationsService consults, CLAIM_CONFIG and           *)
(* STAGE_TRANSITIONS.  Constant-level only; the state is in the modules    *)
(* that extend this one.                                                   *)
(***************************************************************************)

\* enum Department
Departments == {"SALES", "DOC", "SEC"}

\* enum VisaStage
Stages == {"SALES_POOL", "SALES_PROCESS", "DOC_POOL", "DOC_PROCESS",
           "SEC_POOL", "SEC_PROCESS", "COMPLETED", "PAUSED", "CANCELLED"}

\* CLAIM_CONFIG: the pool a department claims from ...
PoolStage == [d \in Departments |->
    IF d = "SALES" THEN "SALES_POOL"
    ELSE IF d = "DOC" THEN "DOC_POOL" ELSE "SEC_POOL"]

\* ... and the stage in which it works on what it claimed.
ProcessStage == [d \in Departments |->
    IF d = "SALES" THEN "SALES_PROCESS"
    ELSE IF d = "DOC" THEN "DOC_PROCESS" ELSE "SEC_PROCESS"]

\* STAGE_TRANSITIONS: where the department that works on a file hands it off.
\* Its ownerField is the assignment column of that same department.
\* Mutant: a stage the enum does not have.
NextStageUnknown == [d \in Departments |->
    IF d = "SALES" THEN "DOC_POOL"
    ELSE IF d = "DOC" THEN "SEC_POOL" ELSE "DELIVERED"]
NextStage == [d \in Departments |->
    IF d = "SALES" THEN "DOC_POOL"
    ELSE IF d = "DOC" THEN "SEC_POOL" ELSE "COMPLETED"]

\* The stages a file cannot be paused in (NON_PAUSABLE of pause).
NonPausable == {"COMPLETED", "CANCELLED", "PAUSED"}

\* The stages reassign refuses: nobody works on such a file any more.
Terminal == {"COMPLETED", "CANCELLED"}

(***************************************************************************)
(* The pipeline proper, without the side stages PAUSED and CANCELLED, and  *)
(* the part of it that lies at or behind a department's *_PROCESS stage.   *)
(***************************************************************************)
Line == Stages \ {"PAUSED", "CANCELLED"}

StagesFrom == [d \in Departments |->
    IF d = "SALES" THEN Line \ {"SALES_POOL"}
    ELSE IF d = "DOC" THEN {"DOC_PROCESS", "SEC_POOL", "SEC_PROCESS", "COMPLETED"}
    ELSE {"SEC_PROCESS", "COMPLETED"}]
=============================================================================
