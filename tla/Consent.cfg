SPECIFICATION Spec
CONSTANTS
  Phones = {p1, p2}
  Requests = {r1, r2}
  NoToken = NoToken
  MaxOps = 3
  MaxEpoch = 2
  MaxFaults = 1
INVARIANTS
  ConsentTypeOK
  VerifiedWasConfirmed
  FormsReachConsenting
  AuditedFormsWereSent
  SentOncePerRequest
  RefusedOnlyWhenTurned
SYMMETRY Alike
