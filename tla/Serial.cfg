SPECIFICATION FairSpec
CONSTANTS
    Apps = {a1}
    SalesReps = {sue, sam}
    DocReps = {dan}
    SecReps = {eve}
    Staff <- MCStaff
    DeptOf <- MCDeptOf
    Admin = Admin
    None = None
    Sessions = {r1}
    Endpoints <- SerialEndpoints
    ForceTargets = {"DOC_POOL", "COMPLETED"}
    CrmAutoAdvance = TRUE
    AutoRevert = TRUE
    MaxRows = 5
PROPERTIES AdvancedByOwner ResumeRestores StalledIsReclaimed BreachBlamesHolder
CHECK_DEADLOCK FALSE
