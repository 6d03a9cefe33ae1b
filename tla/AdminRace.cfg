SPECIFICATION Spec
CONSTANTS
    Apps = {a1}
    SalesReps = {sue, sam}
    DocReps = {}
    SecReps = {}
    Staff <- MCStaff
    DeptOf <- MCDeptOf
    Admin = Admin
    None = None
    Sessions = {r1, r2}
    Endpoints <- AdminRaceEndpoints
    ForceTargets = {"SALES_POOL", "COMPLETED", "PAUSED"}
    CrmAutoAdvance = FALSE
    AutoRevert = FALSE
    MaxRows = 5
SYMMETRY Symmetry
INVARIANTS SalesStaffIsAssignee GapsAreForced
PROPERTIES TerminalIsFinal ClaimNeverSteals
CHECK_DEADLOCK FALSE
