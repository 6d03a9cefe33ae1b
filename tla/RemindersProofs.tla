-------------------------- MODULE RemindersProofs --------------------------
(***************************************************************************)
(* What the run of Reminders shows, for any files, officers, firings of    *)
(* the job, lead time, deletions, and any number of crashes and failures.  *)
(***************************************************************************)
EXTENDS Reminders, TLAPS

CycleState == [at : {"idle", "query", "next", "create", "mail"},
               todo : SUBSET Reminder, hand : SUBSET Reminder]

\* In hand is one reminder while its messages are posted and its mail is sent.
OneInHand ==
    \A c \in Cycles :
        cycle[c].at \in {"create", "mail"} => \E m \in Reminder : cycle[c].hand = {m}

\* One cycle at a time, and only while the flag says so.
OneCycle ==
    \A c \in Cycles : cycle[c].at # "idle" =>
        running /\ \A d \in Cycles : cycle[d].at # "idle" => d = c

\* What is about to be posted was not there when it was looked for, and is
\* not there now.
StillNew ==
    \A c \in Cycles : cycle[c].at = "create" =>
        \A m \in cycle[c].hand : sent[m] = 0

\* A reminder whose mail is still to go has a row more than it has mails.
MailDue(m) == \E c \in Cycles : cycle[c].at = "mail" /\ m \in cycle[c].hand
MailsCounted ==
    \A m \in Reminder :
        mails[m] + (IF MailDue(m) THEN 1 ELSE 0) <= sent[m] + erased[m]

TypeInv == ReminderTypeOK /\ OneInHand
JobInv == OneCycle /\ StillNew /\ RemindedOnce

-----------------------------------------------------------------------------
\* A due file's reminder is one an officer can be sent.
LEMMA ReminderType ==
    ASSUME ReminderTypeOK, NEW f \in Files, Due(f)
    PROVE  ReminderOf(f) \in Reminder
BY ReminderAssumption DEF ReminderTypeOK, Due, ReminderOf, Reminder, Case, Days, NoDay

\* Going on, or ending, leaves the job's memory well typed and nothing in hand.
LEMMA GoOnTypes ==
    ASSUME TypeInv, NEW c \in Cycles, NEW left \in SUBSET Reminder, GoOn(c, left)
    PROVE  running' \in BOOLEAN /\ cycle' \in [Cycles -> CycleState] /\ OneInHand'
<1> DEFINE next == IF left = {} THEN Idle
                                ELSE [at |-> "next", todo |-> left, hand |-> {}]
<1>1. next \in CycleState
  BY DEF Idle, CycleState
<1>2. next.at \notin {"create", "mail"}
  BY DEF Idle
<1>3. cycle' = [cycle EXCEPT ![c] = next] /\ running' = (left # {})
  BY DEF GoOn
<1>4. cycle' \in [Cycles -> CycleState]
  BY <1>1, <1>3 DEF TypeInv, ReminderTypeOK, CycleState
<1>5. OneInHand'
  BY <1>2, <1>3 DEF TypeInv, OneInHand, ReminderTypeOK
<1>6. QED
  BY <1>3, <1>4, <1>5

\* What people make of a file is a file.
LEMMA MoveTypes ==
    ASSUME TypeInv, NEW f \in Files, NEW c \in Case, Move(f, c)
    PROVE  TypeInv'
<1>1. case' \in [Files -> Case]
  BY DEF Move, TypeInv, ReminderTypeOK
<1>2. moves' \in 0 .. MaxMoves
  BY ReminderAssumption DEF Move, Moved, TypeInv, ReminderTypeOK
<1>3. QED
  BY <1>1, <1>2 DEF Move, TypeInv, ReminderTypeOK, OneInHand, jobVars, boxVars

\* Erased rows are counted.
LEMMA EraseTypes ==
    ASSUME ReminderTypeOK, NEW M, Erase(M)
    PROVE  /\ sent' \in [Reminder -> Nat] /\ erased' \in [Reminder -> Nat]
           /\ typed' \in SUBSET Reminder
BY DEF Erase, ReminderTypeOK

\* Every step keeps the types, and at most one file in a cycle's hands.
LEMMA TypeStep == TypeInv /\ [Next]_vars => TypeInv'
<1> SUFFICES ASSUME TypeInv, [Next]_vars
             PROVE  TypeInv'
  OBVIOUS
<1> USE ReminderAssumption DEF TypeInv
<1>1. ASSUME NEW f \in Files, NEW o \in Officers \union {NoOne}, AssignOfficer(f, o)
      PROVE  TypeInv'
  <2>1. case[f] \in Case
    BY DEF ReminderTypeOK
  <2>2. [case[f] EXCEPT !.officer = o] \in Case
    BY <2>1, Zenon DEF Case
  <2>3. QED
    BY <1>1, <2>2, MoveTypes DEF AssignOfficer
<1>2. ASSUME NEW f \in Files, NEW d \in Days \union {NoDay}, SetAppointment(f, d)
      PROVE  TypeInv'
  <2>1. case[f] \in Case
    BY DEF ReminderTypeOK
  <2>2. [case[f] EXCEPT !.day = d] \in Case
    BY <2>1, Zenon DEF Case
  <2>3. QED
    BY <1>2, <2>2, MoveTypes DEF SetAppointment
<1>3. ASSUME NEW f \in Files, CloseFile(f)  PROVE TypeInv'
  <2>1. case[f] \in Case
    BY DEF ReminderTypeOK
  <2>2. [case[f] EXCEPT !.open = FALSE] \in Case
    BY <2>1, Zenon DEF Case
  <2>3. QED
    BY <1>3, <2>2, MoveTypes DEF CloseFile
<1>4. ASSUME NextDay  PROVE TypeInv'
  BY <1>4 DEF NextDay, ReminderTypeOK, OneInHand, jobVars, boxVars
<1>5. ASSUME NEW m \in Reminder, Send(m)  PROVE TypeInv'
  BY <1>5 DEF Send, Moved, ReminderTypeOK, OneInHand, jobVars
<1>6. ASSUME NEW o \in Officers, DeleteOfficer(o)  PROVE TypeInv'
  <2>1. \A f \in Files : [case[f] EXCEPT !.officer = IF @ = o THEN NoOne ELSE @] \in Case
    <3> SUFFICES ASSUME NEW f \in Files
                 PROVE  [case[f] EXCEPT !.officer = IF @ = o THEN NoOne ELSE @] \in Case
      OBVIOUS
    <3>1. case[f] \in Case
      BY DEF ReminderTypeOK
    <3>2. QED
      BY <3>1 DEF Case
  <2>2. case' \in [Files -> Case]
    BY <1>6, <2>1 DEF DeleteOfficer
  <2>3. Erase({m \in Reminder : m.to = o})
    BY <1>6 DEF DeleteOfficer
  <2>4. QED
    BY <1>6, <2>2, <2>3, EraseTypes
       DEF DeleteOfficer, Moved, ReminderTypeOK, OneInHand, jobVars
<1>7. ASSUME NEW M \in SUBSET Reminder, DeleteSender(M)  PROVE TypeInv'
  BY <1>7, EraseTypes DEF DeleteSender, Moved, ReminderTypeOK, OneInHand, jobVars
<1>8. ASSUME NEW c \in Cycles, Tick(c)  PROVE TypeInv'
  BY <1>8 DEF Tick, ReminderTypeOK, OneInHand, boxVars
<1>9. ASSUME NEW c \in Cycles, NEW left \in SUBSET Reminder, GoOn(c, left),
             UNCHANGED <<today, case, gone, boxVars>>,
             mails' \in [Reminder -> Nat], moves' = moves, faults' \in 0 .. MaxFaults
      PROVE  TypeInv'
  BY <1>9, GoOnTypes DEF ReminderTypeOK, CycleState, boxVars
<1>10. ASSUME NEW c \in Cycles, Query(c)  PROVE TypeInv'
  <2> DEFINE due == {ReminderOf(f) : f \in {g \in Files : Due(g)}}
  <2>1. due \in SUBSET Reminder
    BY ReminderType
  <2> HIDE DEF due
  <2>2. GoOn(c, due)
    BY <1>10 DEF Query, due
  <2>3. QED
    BY <1>9, <1>10, <2>1, <2>2 DEF Query, ReminderTypeOK
<1>11. ASSUME NEW c \in Cycles, LookForMarker(c)  PROVE TypeInv'
  <2>1. PICK m \in cycle[c].todo :
           IF AlreadySent(m)
           THEN GoOn(c, cycle[c].todo \ {m})
           ELSE /\ cycle' = [cycle EXCEPT ![c] =
                               [at |-> "create", todo |-> @.todo \ {m}, hand |-> {m}]]
                /\ UNCHANGED running
    BY <1>11 DEF LookForMarker
  <2>2. cycle[c].todo \ {m} \in SUBSET Reminder /\ m \in Reminder
    BY DEF ReminderTypeOK
  <2>3. CASE AlreadySent(m)
    BY <1>9, <1>11, <2>1, <2>2, <2>3 DEF LookForMarker, ReminderTypeOK
  <2>4. CASE ~AlreadySent(m)
    <3> DEFINE next == [at |-> "create", todo |-> cycle[c].todo \ {m}, hand |-> {m}]
    <3>1. cycle' = [cycle EXCEPT ![c] = next] /\ running' = running
      BY <2>1, <2>4
    <3>2. next \in CycleState
      BY <2>2 DEF CycleState
    <3>3. cycle' \in [Cycles -> CycleState]
      BY <3>1, <3>2 DEF ReminderTypeOK, CycleState
    <3>4. ReminderTypeOK'
      BY <1>11, <3>1, <3>3 DEF LookForMarker, ReminderTypeOK, CycleState, boxVars
    <3>5. OneInHand'
      BY <3>1, <2>2 DEF OneInHand, ReminderTypeOK
    <3>6. QED
      BY <3>4, <3>5
  <2>5. QED
    BY <2>3, <2>4
<1>12. ASSUME NEW c \in Cycles, PostReminder(c)  PROVE TypeInv'
  <2>1. sent' \in [Reminder -> Nat]
    BY <1>12 DEF PostReminder, ReminderTypeOK
  <2>2. cycle' \in [Cycles -> CycleState]
    BY <1>12 DEF PostReminder, ReminderTypeOK, CycleState
  <2>3. OneInHand'
    BY <1>12 DEF PostReminder, ReminderTypeOK, OneInHand
  <2>4. QED
    BY <1>12, <2>1, <2>2, <2>3 DEF PostReminder, ReminderTypeOK, CycleState
<1>13. ASSUME NEW c \in Cycles, PostFails(c)  PROVE TypeInv'
  BY <1>9, <1>13 DEF PostFails, ReminderTypeOK
<1>14. ASSUME NEW c \in Cycles, MailCustomer(c)  PROVE TypeInv'
  <2>1. mails' \in [Reminder -> Nat]
    BY <1>14 DEF MailCustomer, OneMailMore, ReminderTypeOK
  <2>2. cycle[c].todo \in SUBSET Reminder
    BY DEF ReminderTypeOK
  <2>3. QED
    BY <1>9, <1>14, <2>1, <2>2 DEF MailCustomer, ReminderTypeOK
<1>15. ASSUME NEW c \in Cycles, FailCycle(c)  PROVE TypeInv'
  <2>1. faults' \in 0 .. MaxFaults
    BY <1>15 DEF FailCycle, Fault, ReminderTypeOK
  <2>2. QED
    BY <1>9, <1>15, <2>1 DEF FailCycle, ReminderTypeOK
<1>16. ASSUME Crash  PROVE TypeInv'
  <2>1. cycle' \in [Cycles -> CycleState]
    BY <1>16 DEF Crash, Idle, CycleState
  <2>2. faults' \in 0 .. MaxFaults
    BY <1>16 DEF Crash, Fault, ReminderTypeOK
  <2>3. OneInHand'
    BY <1>16 DEF Crash, Idle, OneInHand
  <2>4. QED
    BY <1>16, <2>1, <2>2, <2>3 DEF Crash, ReminderTypeOK, CycleState, boxVars
<1>17. CASE UNCHANGED vars
  BY <1>17 DEF vars, ReminderTypeOK, OneInHand, jobVars, boxVars
<1>18. QED
  BY <1>1, <1>2, <1>3, <1>4, <1>5, <1>6, <1>7, <1>8, <1>10, <1>11, <1>12, <1>13,
     <1>14, <1>15, <1>16, <1>17 DEF Next, Job

\* The typing invariant holds at every moment.
LEMMA TypeInvariant == Spec => []TypeInv
<1>1. Init => TypeInv
  <2> SUFFICES ASSUME Init  PROVE TypeInv
    OBVIOUS
  <2>1. case \in [Files -> Case]
    BY DEF Init, Case
  <2>2. today \in 0 .. MaxToday /\ moves \in 0 .. MaxMoves /\ faults \in 0 .. MaxFaults
    BY ReminderAssumption DEF Init
  <2>3. cycle \in [Cycles -> CycleState]
    BY DEF Init, Idle, CycleState
  <2>4. /\ sent \in [Reminder -> Nat] /\ erased \in [Reminder -> Nat]
        /\ mails \in [Reminder -> Nat]
    BY DEF Init
  <2>5. running \in BOOLEAN /\ typed \in SUBSET Reminder /\ gone \in SUBSET Officers
    BY Zenon DEF Init
  <2>6. OneInHand
    BY DEF Init, Idle, OneInHand
  <2>7. QED
    BY <2>1, <2>2, <2>3, <2>4, <2>5, <2>6 DEF TypeInv, ReminderTypeOK, CycleState
<1>2. QED
  BY <1>1, TypeStep, PTL DEF Spec

\* Files, messages, mails and the job's memory are what their types say.
THEOREM RemindersTyped == Spec => []ReminderTypeOK
<1>1. TypeInv => ReminderTypeOK
  BY DEF TypeInv
<1>2. QED
  BY <1>1, TypeInvariant, PTL

-----------------------------------------------------------------------------
\* What leaves the job and its rows alone keeps the job's invariant.
LEMMA ElsewhereKeepsJob ==
    ASSUME JobInv, UNCHANGED jobVars, sent' = sent
    PROVE  JobInv'
BY DEF JobInv, OneCycle, StillNew, RemindedOnce, jobVars

\* So does a deletion: what is not there still is not.
LEMMA EraseKeepsJob ==
    ASSUME TypeInv, JobInv, UNCHANGED jobVars, NEW M, Erase(M)
    PROVE  JobInv'
<1>1. \A m \in Reminder : sent'[m] = sent[m] \/ sent'[m] = 0
  BY DEF Erase
<1>2. OneCycle'
  BY DEF JobInv, OneCycle, jobVars
<1>3. StillNew'
  BY <1>1 DEF JobInv, StillNew, jobVars, TypeInv, ReminderTypeOK
<1>4. RemindedOnce'
  BY <1>1 DEF JobInv, RemindedOnce
<1>5. QED
  BY <1>2, <1>3, <1>4 DEF JobInv

\* Every step keeps what the one running cycle has to do unposted.
LEMMA JobStep == TypeInv /\ JobInv /\ [Next]_vars => JobInv'
<1> SUFFICES ASSUME TypeInv, JobInv, [Next]_vars
             PROVE  JobInv'
  OBVIOUS
<1> USE DEF TypeInv
<1>1. ASSUME NEW f \in Files, NEW o \in Officers \union {NoOne}, AssignOfficer(f, o)
      PROVE  JobInv'
  BY <1>1, ElsewhereKeepsJob DEF AssignOfficer, Move, boxVars
<1>2. ASSUME NEW f \in Files, NEW d \in Days \union {NoDay}, SetAppointment(f, d)
      PROVE  JobInv'
  BY <1>2, ElsewhereKeepsJob DEF SetAppointment, Move, boxVars
<1>3. ASSUME NEW f \in Files, CloseFile(f)  PROVE JobInv'
  BY <1>3, ElsewhereKeepsJob DEF CloseFile, Move, boxVars
<1>4. ASSUME NextDay  PROVE JobInv'
  BY <1>4, ElsewhereKeepsJob DEF NextDay, boxVars
<1>5. ASSUME NEW m \in Reminder, Send(m)  PROVE JobInv'
  BY <1>5, ElsewhereKeepsJob DEF Send
<1>6. ASSUME NEW o \in Officers, DeleteOfficer(o)  PROVE JobInv'
  BY <1>6, EraseKeepsJob DEF DeleteOfficer
<1>7. ASSUME NEW M \in SUBSET Reminder, DeleteSender(M)  PROVE JobInv'
  BY <1>7, EraseKeepsJob DEF DeleteSender
<1>8. ASSUME NEW c \in Cycles, Tick(c)  PROVE JobInv'
  BY <1>8 DEF Tick, MayStart, JobInv, OneCycle, StillNew, RemindedOnce, ReminderTypeOK, boxVars
<1>9. ASSUME NEW c \in Cycles, NEW left, GoOn(c, left), cycle[c].at # "idle", sent' = sent
      PROVE  JobInv'
  <2>1. /\ running' = (left # {})
        /\ cycle'[c] = IF left = {} THEN Idle
                                    ELSE [at |-> "next", todo |-> left, hand |-> {}]
        /\ \A d \in Cycles : d # c => cycle'[d] = cycle[d]
    BY <1>9 DEF GoOn, ReminderTypeOK
  <2>2. \A d \in Cycles : cycle'[d].at # "idle" => d = c /\ left # {}
    BY <1>9, <2>1 DEF JobInv, OneCycle, Idle
  <2>3. OneCycle'
    BY <2>1, <2>2 DEF OneCycle
  <2>4. StillNew' /\ RemindedOnce'
    BY <1>9, <2>1, <2>2 DEF JobInv, StillNew, RemindedOnce, Idle
  <2>5. QED
    BY <2>3, <2>4 DEF JobInv
<1>10. ASSUME NEW c \in Cycles, Query(c)  PROVE JobInv'
  BY <1>9, <1>10 DEF Query, boxVars
<1>11. ASSUME NEW c \in Cycles, LookForMarker(c)  PROVE JobInv'
  <2>1. PICK m \in cycle[c].todo :
           IF AlreadySent(m)
           THEN GoOn(c, cycle[c].todo \ {m})
           ELSE /\ cycle' = [cycle EXCEPT ![c] =
                               [at |-> "create", todo |-> @.todo \ {m}, hand |-> {m}]]
                /\ UNCHANGED running
    BY <1>11 DEF LookForMarker
  <2>2. CASE AlreadySent(m)
    BY <1>9, <1>11, <2>1, <2>2 DEF LookForMarker, boxVars
  <2>3. CASE ~AlreadySent(m)
    <3>1. sent[m] = 0
      BY <2>3 DEF AlreadySent, ReminderTypeOK
    <3> DEFINE next == [at |-> "create", todo |-> cycle[c].todo \ {m}, hand |-> {m}]
    <3>2. /\ cycle'[c] = next /\ running' = running /\ sent' = sent
          /\ \A d \in Cycles : d # c => cycle'[d] = cycle[d]
      BY <1>11, <2>1, <2>3 DEF LookForMarker, ReminderTypeOK, boxVars
    <3>3. OneCycle'
      BY <1>11, <3>2 DEF LookForMarker, JobInv, OneCycle
    <3>4. StillNew'
      BY <3>1, <3>2 DEF JobInv, StillNew
    <3>5. QED
      BY <3>2, <3>3, <3>4 DEF JobInv, RemindedOnce
  <2>4. QED
    BY <2>2, <2>3
<1>12. ASSUME NEW c \in Cycles, PostReminder(c)  PROVE JobInv'
  <2>1. OneCycle'
    BY <1>12 DEF PostReminder, JobInv, OneCycle, ReminderTypeOK
  <2>2. StillNew'
    BY <1>12 DEF PostReminder, JobInv, OneCycle, StillNew, ReminderTypeOK
  <2>3. RemindedOnce'
    BY <1>12 DEF PostReminder, JobInv, StillNew, RemindedOnce, ReminderTypeOK
  <2>4. QED
    BY <2>1, <2>2, <2>3 DEF JobInv
<1>13. ASSUME NEW c \in Cycles, PostFails(c)  PROVE JobInv'
  BY <1>9, <1>13 DEF PostFails, boxVars
<1>14. ASSUME NEW c \in Cycles, MailCustomer(c)  PROVE JobInv'
  BY <1>9, <1>14 DEF MailCustomer, boxVars
<1>15. ASSUME NEW c \in Cycles, FailCycle(c)  PROVE JobInv'
  BY <1>9, <1>15 DEF FailCycle, boxVars
<1>16. ASSUME Crash  PROVE JobInv'
  BY <1>16 DEF Crash, JobInv, OneCycle, StillNew, RemindedOnce, Idle, boxVars
<1>17. CASE UNCHANGED vars
  BY <1>17, ElsewhereKeepsJob DEF vars, boxVars
<1>18. QED
  BY <1>1, <1>2, <1>3, <1>4, <1>5, <1>6, <1>7, <1>8, <1>10, <1>11, <1>12, <1>13,
     <1>14, <1>15, <1>16, <1>17 DEF Next, Job

\* The two invariants hold at every moment.
LEMMA JobInvariant == Spec => [](TypeInv /\ JobInv)
<1>1. Init => JobInv
  BY DEF Init, JobInv, OneCycle, StillNew, RemindedOnce, Idle
<1>2. QED
  BY <1>1, TypeInvariant, JobStep, PTL DEF Spec

\* However the job is fired, fails or dies, and whatever is deleted meanwhile,
\* the table never holds the same reminder twice.
THEOREM RemindedAtMostOnce == Spec => []RemindedOnce
<1>1. JobInv => RemindedOnce
  BY DEF JobInv
<1>2. QED
  BY <1>1, JobInvariant, PTL

-----------------------------------------------------------------------------
\* A step that mails nothing, loses count of no row, and brings no cycle to its
\* mail.
LEMMA QuietStepKeepsCount ==
    ASSUME TypeInv, MailsCounted, mails' = mails,
           \A m \in Reminder : sent'[m] + erased'[m] = sent[m] + erased[m],
           \A c \in Cycles : cycle'[c].at = "mail" => cycle'[c] = cycle[c]
    PROVE  MailsCounted'
<1> SUFFICES ASSUME NEW m \in Reminder
             PROVE  mails[m] + (IF MailDue(m)' THEN 1 ELSE 0) <= sent'[m] + erased'[m]
  BY DEF MailsCounted
<1>1. MailDue(m)' => MailDue(m)
  BY DEF MailDue
<1>2. mails[m] \in Nat /\ sent[m] \in Nat /\ erased[m] \in Nat
  BY DEF TypeInv, ReminderTypeOK
<1>3. mails[m] + (IF MailDue(m) THEN 1 ELSE 0) <= sent[m] + erased[m]
  BY DEF MailsCounted
<1>4. QED
  BY <1>1, <1>2, <1>3

\* An erased row is still counted.
LEMMA EraseKeepsCount ==
    ASSUME TypeInv, MailsCounted, NEW M, Erase(M), mails' = mails, cycle' = cycle
    PROVE  MailsCounted'
<1>1. \A m \in Reminder : sent'[m] + erased'[m] = sent[m] + erased[m]
  BY DEF Erase, TypeInv, ReminderTypeOK
<1>2. QED
  BY <1>1, QuietStepKeepsCount

\* Every step keeps the count of mails below that of rows.
LEMMA MailStep == TypeInv /\ JobInv /\ MailsCounted /\ [Next]_vars => MailsCounted'
<1> SUFFICES ASSUME TypeInv, JobInv, MailsCounted, [Next]_vars
             PROVE  MailsCounted'
  OBVIOUS
<1>1. ASSUME NEW f \in Files, NEW o \in Officers \union {NoOne}, AssignOfficer(f, o)
      PROVE  MailsCounted'
  BY <1>1, QuietStepKeepsCount DEF AssignOfficer, Move, jobVars, boxVars
<1>2. ASSUME NEW f \in Files, NEW d \in Days \union {NoDay}, SetAppointment(f, d)
      PROVE  MailsCounted'
  BY <1>2, QuietStepKeepsCount DEF SetAppointment, Move, jobVars, boxVars
<1>3. ASSUME NEW f \in Files, CloseFile(f)  PROVE MailsCounted'
  BY <1>3, QuietStepKeepsCount DEF CloseFile, Move, jobVars, boxVars
<1>4. ASSUME NextDay  PROVE MailsCounted'
  BY <1>4, QuietStepKeepsCount DEF NextDay, jobVars, boxVars
<1>5. ASSUME NEW m \in Reminder, Send(m)  PROVE MailsCounted'
  BY <1>5, QuietStepKeepsCount DEF Send, jobVars
<1>6. ASSUME NEW o \in Officers, DeleteOfficer(o)  PROVE MailsCounted'
  BY <1>6, EraseKeepsCount DEF DeleteOfficer, jobVars
<1>7. ASSUME NEW M \in SUBSET Reminder, DeleteSender(M)  PROVE MailsCounted'
  BY <1>7, EraseKeepsCount DEF DeleteSender, jobVars
<1>8. ASSUME NEW c \in Cycles, Tick(c)  PROVE MailsCounted'
  BY <1>8, QuietStepKeepsCount DEF Tick, boxVars, TypeInv, ReminderTypeOK
<1>9. ASSUME NEW c \in Cycles, NEW left, GoOn(c, left)
      PROVE  \A d \in Cycles : cycle'[d].at = "mail" => cycle'[d] = cycle[d] /\ d # c
  BY <1>9 DEF GoOn, Idle, TypeInv, ReminderTypeOK
<1>10. ASSUME NEW c \in Cycles, Query(c)  PROVE MailsCounted'
  BY <1>10, <1>9, QuietStepKeepsCount DEF Query, boxVars
<1>11. ASSUME NEW c \in Cycles, LookForMarker(c)  PROVE MailsCounted'
  <2>1. \A d \in Cycles : cycle'[d].at = "mail" => cycle'[d] = cycle[d]
    BY <1>11, <1>9 DEF LookForMarker, TypeInv, ReminderTypeOK
  <2>2. QED
    BY <1>11, <2>1, QuietStepKeepsCount DEF LookForMarker, boxVars
<1>12. ASSUME NEW c \in Cycles, PostReminder(c)  PROVE MailsCounted'
  <2> SUFFICES ASSUME NEW m \in Reminder
               PROVE  mails[m] + (IF MailDue(m)' THEN 1 ELSE 0) <= sent'[m] + erased[m]
    BY <1>12 DEF MailsCounted, PostReminder
  <2>1. \A e \in Cycles : cycle[e].at # "idle" => e = c
    BY <1>12 DEF PostReminder, JobInv, OneCycle
  <2>2. /\ cycle'[c].at = "mail" /\ cycle'[c].hand = cycle[c].hand
        /\ \A e \in Cycles : e # c => cycle'[e] = cycle[e]
    BY <1>12 DEF PostReminder, TypeInv, ReminderTypeOK
  <2>3. MailDue(m)' => m \in cycle[c].hand
    BY <2>1, <2>2 DEF MailDue
  <2>4. mails[m] \in Nat /\ sent[m] \in Nat /\ erased[m] \in Nat
    BY DEF TypeInv, ReminderTypeOK
  <2>5. mails[m] <= sent[m] + erased[m]
    BY <2>4 DEF MailsCounted
  <2>6. sent'[m] = IF m \in cycle[c].hand THEN sent[m] + 1 ELSE sent[m]
    BY <1>12 DEF PostReminder
  <2>7. QED
    BY <2>3, <2>4, <2>5, <2>6
<1>13. ASSUME NEW c \in Cycles, PostFails(c)  PROVE MailsCounted'
  BY <1>13, <1>9, QuietStepKeepsCount DEF PostFails, boxVars
<1>14. ASSUME NEW c \in Cycles, MailCustomer(c)  PROVE MailsCounted'
  <2> SUFFICES ASSUME NEW m \in Reminder
               PROVE  mails'[m] + (IF MailDue(m)' THEN 1 ELSE 0) <= sent[m] + erased[m]
    BY <1>14 DEF MailsCounted, MailCustomer, boxVars
  <2>1. \A e \in Cycles : cycle[e].at # "idle" => e = c
    BY <1>14 DEF MailCustomer, JobInv, OneCycle
  <2>2. \A e \in Cycles : cycle'[e].at = "mail" => cycle'[e] = cycle[e] /\ e # c
    BY <1>14, <1>9 DEF MailCustomer
  <2>3. ~MailDue(m)'
    BY <2>1, <2>2 DEF MailDue
  <2>4. mails'[m] = IF m \in cycle[c].hand THEN mails[m] + 1 ELSE mails[m]
    BY <1>14 DEF MailCustomer, OneMailMore
  <2>5. m \in cycle[c].hand => MailDue(m)
    BY <1>14 DEF MailCustomer, MailDue
  <2>6. mails[m] + (IF MailDue(m) THEN 1 ELSE 0) <= sent[m] + erased[m]
    BY DEF MailsCounted
  <2>7. mails[m] \in Nat /\ sent[m] \in Nat /\ erased[m] \in Nat
    BY DEF TypeInv, ReminderTypeOK
  <2>8. QED
    BY <2>3, <2>4, <2>5, <2>6, <2>7
<1>15. ASSUME NEW c \in Cycles, FailCycle(c)  PROVE MailsCounted'
  BY <1>15, <1>9, QuietStepKeepsCount DEF FailCycle, boxVars
<1>16. ASSUME Crash  PROVE MailsCounted'
  BY <1>16, QuietStepKeepsCount DEF Crash, Idle, boxVars
<1>17. CASE UNCHANGED vars
  BY <1>17, QuietStepKeepsCount DEF vars, jobVars, boxVars
<1>18. QED
  BY <1>1, <1>2, <1>3, <1>4, <1>5, <1>6, <1>7, <1>8, <1>10, <1>11, <1>12, <1>13,
     <1>14, <1>15, <1>16, <1>17 DEF Next, Job

\* Whatever is deleted, typed, crashes or fails, every mail to a customer had a
\* row of its own: an hour without a new row is an hour without a mail.
THEOREM MailsNeverOutnumber == Spec => []MailsFollowReminders
<1>1. Init => MailsCounted
  BY DEF Init, MailsCounted, MailDue, Idle
<1>2. TypeInv /\ MailsCounted => MailsFollowReminders
  <2> SUFFICES ASSUME TypeInv, MailsCounted, NEW m \in Reminder
               PROVE  mails[m] <= sent[m] + erased[m]
    BY DEF MailsFollowReminders
  <2>1. mails[m] \in Nat /\ sent[m] \in Nat /\ erased[m] \in Nat
    BY DEF TypeInv, ReminderTypeOK
  <2>2. QED
    BY <2>1 DEF MailsCounted
<1>3. QED
  BY <1>1, <1>2, JobInvariant, MailStep, PTL DEF Spec
=============================================================================
