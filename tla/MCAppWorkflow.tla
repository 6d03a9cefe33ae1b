--------------------------- MODULE MCAppWorkflow ---------------------------
(***************************************************************************)
(* Instances of AppWorkflow for TLC: one to four staff members per         *)
(* instance, their departments read off the constants below.               *)
(***************************************************************************)
EXTENDS AppWorkflow, TLC

CONSTANTS SalesReps, DocReps, SecReps

MCStaff == SalesReps \cup DocReps \cup SecReps
MCDeptOf == [p \in MCStaff |-> IF p \in SalesReps THEN "SALES"
                               ELSE IF p \in DocReps THEN "DOC" ELSE "SEC"]

StaffRaceEndpoints == {"create", "claim", "transition", "updateCrm", "pause",
                       "documents"}
AdminRaceEndpoints == {"create", "claim", "pause", "resume",
                       "forceStage", "forceCancel", "deleteStaff"}
SerialEndpoints == OpNames \ {"deleteStaff"}

\* The instances of the findings.
StuckPoolEndpoints == {"create", "updateCrm", "transition", "reassign"}
ForcedPauseEndpoints == {"create", "pause", "resume", "forceStage"}
LostOwnerEndpoints == {"create", "claim", "updateCrm", "transition"}
OrphanEndpoints == {"create", "claim", "deleteStaff"}

Symmetry == Permutations(SalesReps) \cup Permutations(Sessions)
=============================================================================
