SPECIFICATION Spec
CONSTANTS
    Apps = {a1}
    SalesReps = {sue, sam}
    DocReps = {dan}
    SecReps = {eve}
    Staff <- MCStaff
    DeptOf <- MCDeptOf
    Admin = Admin
    None = None
    Sessions = {r1, r2}
    Endpoints <- StaffRaceEndpoints
    ForceTargets = {}
    CrmAutoAdvance = TRUE
    AutoRevert = TRUE
    MaxRows = 7
SYMMETRY Symmetry
INVARIANTS TypeOK AssignmentsFollowPipeline TrailIsChain
PROPERTIES CrmClosesWithSales RefinesPipeline
CHECK_DEADLOCK FALSE
