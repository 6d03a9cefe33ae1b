SPECIFICATION Spec
CONSTANTS
    Apps = {a1}
    SalesReps = {sue, sam}
    DocReps = {}
    SecReps = {}
    Staff <- MCStaff
    DeptOf <- MCDeptOf
    Admin = Admin
    None = None
    Sessions = {r1, r2}
    Endpoints <- LostOwnerEndpoints
    ForceTargets = {}
    CrmAutoAdvance = FALSE
    AutoRevert = TRUE
    MaxRows = 6
PROPERTY AdvancedByOwner
CHECK_DEADLOCK FALSE
