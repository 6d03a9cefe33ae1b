SPECIFICATION Spec
CONSTANTS
    Apps = {a1}
    SalesReps = {sue}
    DocReps = {}
    SecReps = {}
    Staff <- MCStaff
    DeptOf <- MCDeptOf
    Admin = Admin
    None = None
    Sessions = {r1}
    Endpoints <- ForcedPauseEndpoints
    ForceTargets = {"DOC_POOL", "PAUSED"}
    CrmAutoAdvance = FALSE
    AutoRevert = FALSE
    MaxRows = 6
PROPERTY ResumeRestores
CHECK_DEADLOCK FALSE
