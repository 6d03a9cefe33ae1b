SPECIFICATION FairSpec
CONSTANTS
  Files = {f1, f2}
  Officers = {dan, dot}
  Cycles = {c1, c2}
  NoOne = NoOne
  LeadDays = 4
  MaxToday = 1
  MaxMoves = 3
  MaxFaults = 1
INVARIANTS
  ReminderTypeOK
  RemindedOnce
  MailsFollowReminders
PROPERTIES
  DueIsReminded
