SPECIFICATION FairSpec
CONSTANTS
    Apps = {a1}
    SalesReps = {sue, sam}
    DocReps = {}
    SecReps = {}
    Staff <- MCStaff
    DeptOf <- MCDeptOf
    Admin = Admin
    None = None
    Sessions = {r1}
    Endpoints <- OrphanEndpoints
    ForceTargets = {}
    CrmAutoAdvance = FALSE
    AutoRevert = TRUE
    MaxRows = 6
PROPERTY StalledIsReclaimed
CHECK_DEADLOCK FALSE
