SPECIFICATION Spec
CONSTANTS
    Apps = {a1}
    SalesReps = {sue}
    DocReps = {dan}
    SecReps = {}
    Staff <- MCStaff
    DeptOf <- MCDeptOf
    Admin = Admin
    None = None
    Sessions = {r1}
    Endpoints <- StuckPoolEndpoints
    ForceTargets = {}
    CrmAutoAdvance = FALSE
    AutoRevert = FALSE
    MaxRows = 6
INVARIANT PoolsAreUnassigned
CHECK_DEADLOCK FALSE
