SPECIFICATION DeskSpec
CONSTANTS
    Cards = {"BASVURU_TESLIM_FORMU"}
    Types = {"CONSULATE_FORM", "APPOINTMENT_CONFIRMATION"}
    Statuses = {"HAZIRLANIYOR", "YUKLENDI", "TESLIME_HAZIR"}
    Plans = {"PREPAID"}
    Linked = "linked"
    Sessions = {j1, r1}
    Endpoints <- AllEndpoints
    Uploaders = {"CUSTOMER", "DOC"}
    MaxSteps = 1
    MaxDocs = 2
    Jobs = {j1}
INVARIANTS DeskTypeOK CardTrailChain DeliveredMatchesCard CleanupSparesRows PrepaidLocked UploadedIsStored MarkedIsWorkedOn
