SPECIFICATION Spec
CONSTANTS
    MaxPersons = 3
    Together = 1
    MaxDay = 2
    MinDays = 1
    Entries <- PlainEntries
    Sessions = {r1}
    Endpoints <- AllEndpoints
INVARIANTS TypeOK PrimaryRangeValid NoFormIsNobodys
PROPERTIES LeavesWithForms
