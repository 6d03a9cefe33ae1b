----------------------------- MODULE Reminders -----------------------------
(***************************************************************************)
(* The hourly job that reminds a document officer of an appointment four   *)
(* days ahead (AppointmentReminderCron), and the internal messages it      *)
(* posts into (MessagesStore).                                             *)
(*                                                                         *)
(* One run of the job is a cycle: it reads the files that are due, and     *)
(* then, file by file, looks for the marker of an earlier reminder and     *)
(* posts the messages in one transaction, and mails the customer after the *)
(* transaction committed.  The flag isRunning is memory of the process: a  *)
(* crash clears it and forgets the cycle, while the messages stay.         *)
(*                                                                         *)
(* A reminder is identified by what its marker says: the officer it is    *)
(* for, the file and the appointment's day.  An administrator may type a   *)
(* message that starts with such a marker, and the job then takes it for   *)
(* its own; messages without a marker are nothing to the job.  The admins' *)
(* copies of a reminder are created in the officer's transaction and are   *)
(* not counted apart.                                                      *)
(* That some administrator is active is assumed: without one the cycle     *)
(* has nobody to send in whose name, and ends at once.                     *)
(***************************************************************************)
EXTENDS Integers

CONSTANTS
  Files,        \* applications
  Officers,     \* users of role DOC
  Cycles,       \* runs of the job that could be under way at once
  NoOne,        \* no officer holds the file
  LeadDays,     \* the lead time of a reminder, 4 in the code
  MaxToday,     \* bound: the days the run spans
  MaxMoves,     \* bound: what people change about files, accounts and messages
  MaxFaults     \* bound: crashes and failed transactions

ASSUME ReminderAssumption ==
  /\ LeadDays \in Nat /\ MaxToday \in Nat /\ MaxMoves \in Nat /\ MaxFaults \in Nat
  /\ NoOne \notin Officers

(* The appointment days that can become due; NoDay stands for any other.   *)
NoDay == -1
Days == LeadDays .. (LeadDays + MaxToday)

Reminder == [to : Officers, file : Files, day : Days]

VARIABLES
  today,     \* the calendar day of the server
  case,      \* per file: appointment day, document officer, still open
  running,   \* isRunning of the job
  cycle,     \* per cycle: where it is, the files it has left, the one in hand
  gone,      \* the officers whose account was deleted
  sent,      \* how many rows the job left in the table, by reminder
  typed,     \* the markers with which a message of an administrator starts
  erased,    \* history: rows of the job that a deleted account took along
  mails,     \* mails handed over to the customer, by reminder
  moves,     \* changes people made so far
  faults     \* crashes and failures so far

jobVars == <<running, cycle>>
boxVars == <<sent, typed, erased>>
vars == <<today, case, gone, jobVars, boxVars, mails, moves, faults>>

Case == [day : Days \union {NoDay}, officer : Officers \union {NoOne}, open : BOOLEAN]

Idle == [at |-> "idle", todo |-> {}, hand |-> {}]

ReminderTypeOK ==
  /\ today \in 0 .. MaxToday
  /\ case \in [Files -> Case]
  /\ running \in BOOLEAN
  /\ cycle \in [Cycles -> [at : {"idle", "query", "next", "create", "mail"},
                           todo : SUBSET Reminder, hand : SUBSET Reminder]]
  /\ gone \in SUBSET Officers
  /\ sent \in [Reminder -> Nat]
  /\ typed \in SUBSET Reminder
  /\ erased \in [Reminder -> Nat]
  /\ mails \in [Reminder -> Nat]
  /\ moves \in 0 .. MaxMoves
  /\ faults \in 0 .. MaxFaults

(* The files are open and in one officer's hands, no appointment in sight. *)
Init ==
  /\ today = 0
  /\ \E o \in Officers :
       case = [f \in Files |-> [day |-> NoDay, officer |-> o, open |-> TRUE]]
  /\ running = FALSE
  /\ cycle = [c \in Cycles |-> Idle]
  /\ gone = {}
  /\ sent = [m \in Reminder |-> 0]
  /\ typed = {}
  /\ erased = [m \in Reminder |-> 0]
  /\ mails = [m \in Reminder |-> 0]
  /\ moves = 0
  /\ faults = 0

----------------------------------------------------------------------------
(* The staff's side: what other handlers do to a file, and the calendar.   *)

Moved == moves < MaxMoves /\ moves' = moves + 1

Move(f, c) ==
  /\ Moved
  /\ case' = [case EXCEPT ![f] = c]
  /\ UNCHANGED <<today, gone, jobVars, boxVars, mails, faults>>

(* A claim, a reassignment, or the end of the officer's staff profile. *)
AssignOfficer(f, o) ==
  /\ case[f].open /\ o \notin gone /\ o # case[f].officer
  /\ Move(f, [case[f] EXCEPT !.officer = o])

(* updateCrm or updateAppointmentOps writes the appointment's day. *)
SetAppointment(f, d) ==
  /\ case[f].open /\ d # case[f].day
  /\ Move(f, [case[f] EXCEPT !.day = d])

(* The file reaches COMPLETED or CANCELLED. *)
CloseFile(f) ==
  /\ case[f].open
  /\ Move(f, [case[f] EXCEPT !.open = FALSE])

NextDay ==
  /\ today < MaxToday
  /\ today' = today + 1
  /\ UNCHANGED <<case, gone, jobVars, boxVars, mails, moves, faults>>

(* An administrator writes to an active member of the staff: any text, so  *)
(* also one that starts with a marker.                                     *)
Send(m) ==
  /\ m.to \notin gone /\ m \notin typed
  /\ Moved
  /\ typed' = typed \union {m}
  /\ UNCHANGED <<today, case, gone, jobVars, sent, erased, mails, faults>>

Erase(M) ==
  /\ sent' = [m \in Reminder |-> IF m \in M THEN 0 ELSE sent[m]]
  /\ typed' = typed \ M
  /\ erased' = [m \in Reminder |-> IF m \in M THEN erased[m] + sent[m] ELSE erased[m]]

(* deleteUser takes the officer off the files and deletes the messages     *)
(* sent to the officer.                                                    *)
DeleteOfficer(o) ==
  /\ o \notin gone
  /\ Moved
  /\ gone' = gone \union {o}
  /\ case' = [f \in Files |->
                [case[f] EXCEPT !.officer = IF @ = o THEN NoOne ELSE @]]
  /\ Erase({m \in Reminder : m.to = o})
  /\ UNCHANGED <<today, jobVars, mails, faults>>

(* deleteUser deletes the messages of an administrator in whose name the   *)
(* job sent, or who typed.  Who sent a row is not kept: M is any of them.  *)
DeleteSender(M) ==
  /\ M # {}
  /\ Moved
  /\ Erase(M)
  /\ UNCHANGED <<today, case, gone, jobVars, mails, faults>>

----------------------------------------------------------------------------
(* The job.                                                                *)

(* A slip: files nobody holds are not left out. *)
DueUnassigned(f) ==
  /\ case[f].open
  /\ case[f].day = today + LeadDays
(* The WHERE of the cycle's query. *)
Due(f) ==
  /\ case[f].open
  /\ case[f].officer # NoOne
  /\ case[f].day = today + LeadDays

ReminderOf(f) == [to |-> case[f].officer, file |-> f, day |-> case[f].day]

(* A slip: the job trusts an hour to be longer than a cycle. *)
AlwaysStart == TRUE
MayStart == ~running

Tick(c) ==
  /\ cycle[c].at = "idle"
  /\ MayStart
  /\ running' = TRUE
  /\ cycle' = [cycle EXCEPT ![c].at = "query"]
  /\ UNCHANGED <<today, case, gone, boxVars, mails, moves, faults>>

(* Goes on with the files left, or ends: the finally clears isRunning. *)
GoOn(c, left) ==
  /\ running' = (left # {})
  /\ cycle' = [cycle EXCEPT ![c] =
                 IF left = {} THEN Idle ELSE [at |-> "next", todo |-> left, hand |-> {}]]

Query(c) ==
  /\ cycle[c].at = "query"
  /\ GoOn(c, {ReminderOf(f) : f \in {g \in Files : Due(g)}})
  /\ UNCHANGED <<today, case, gone, boxVars, mails, moves, faults>>

(* Whether the officer has a message that starts with the marker. *)
AlreadySent(m) == sent[m] > 0 \/ m \in typed

LookForMarker(c) ==
  /\ cycle[c].at = "next"
  /\ \E m \in cycle[c].todo :
       IF AlreadySent(m)
       THEN GoOn(c, cycle[c].todo \ {m})
       ELSE /\ cycle' = [cycle EXCEPT ![c] =
                           [at |-> "create", todo |-> @.todo \ {m}, hand |-> {m}]]
            /\ UNCHANGED running
  /\ UNCHANGED <<today, case, gone, boxVars, mails, moves, faults>>

PostReminder(c) ==
  /\ cycle[c].at = "create"
  /\ \A m \in cycle[c].hand : m.to \notin gone
  /\ sent' = [m \in Reminder |-> IF m \in cycle[c].hand THEN sent[m] + 1 ELSE sent[m]]
  /\ cycle' = [cycle EXCEPT ![c].at = "mail"]
  /\ UNCHANGED <<today, case, gone, running, typed, erased, mails, moves, faults>>

(* A row to a deleted account fails on its foreign key: the cycle ends.    *)
PostFails(c) ==
  /\ cycle[c].at = "create"
  /\ \E m \in cycle[c].hand : m.to \in gone
  /\ GoOn(c, {})
  /\ UNCHANGED <<today, case, gone, boxVars, mails, moves, faults>>

OneMailMore(c) ==
  mails' = [m \in Reminder |-> IF m \in cycle[c].hand THEN mails[m] + 1 ELSE mails[m]]

(* A slip: the mail goes out before the transaction that records it. *)
MailFirst(c) ==
  /\ cycle[c].at = "create"
  /\ OneMailMore(c)
  /\ UNCHANGED <<today, case, gone, jobVars, boxVars, moves, faults>>
(* The mail is handed over only after the commit, and never awaited. *)
MailCustomer(c) ==
  /\ cycle[c].at = "mail"
  /\ OneMailMore(c)
  /\ GoOn(c, cycle[c].todo)
  /\ UNCHANGED <<today, case, gone, boxVars, moves, faults>>

Fault == faults < MaxFaults /\ faults' = faults + 1

(* A slip: no finally around the cycle. *)
FailStaysRunning(c) ==
  /\ cycle[c].at \in {"query", "next", "create"}
  /\ Fault
  /\ cycle' = [cycle EXCEPT ![c] = Idle]
  /\ UNCHANGED <<today, case, gone, running, boxVars, mails, moves>>
(* A query or a transaction fails (the sender's account may be gone): the  *)
(* exception ends the whole cycle.                                         *)
FailCycle(c) ==
  /\ cycle[c].at \in {"query", "next", "create"}
  /\ Fault
  /\ GoOn(c, {})
  /\ UNCHANGED <<today, case, gone, boxVars, mails, moves>>

(* The process dies: what it kept in memory is gone. *)
Crash ==
  /\ Fault
  /\ running' = FALSE
  /\ cycle' = [c \in Cycles |-> Idle]
  /\ UNCHANGED <<today, case, gone, boxVars, mails, moves>>

----------------------------------------------------------------------------
Job(c) ==
  \/ Query(c) \/ LookForMarker(c) \/ PostReminder(c) \/ PostFails(c) \/ MailCustomer(c)

Next ==
  \/ \E f \in Files :
       \/ \E o \in Officers \union {NoOne} : AssignOfficer(f, o)
       \/ \E d \in Days \union {NoDay} : SetAppointment(f, d)
       \/ CloseFile(f)
  \/ NextDay
  \/ \E m \in Reminder : Send(m)
  \/ \E o \in Officers : DeleteOfficer(o)
  \/ \E M \in SUBSET {m \in Reminder : AlreadySent(m)} : DeleteSender(M)
  \/ \E c \in Cycles : Tick(c) \/ Job(c) \/ FailCycle(c)
  \/ Crash

Spec == Init /\ [][Next]_vars

(* The scheduler fires every hour and a cycle that has begun is carried    *)
(* on by the event loop; nobody owes the system a move, a day or a fault.  *)
Schedule == (\E c \in Cycles : Tick(c)) \/ (\E c \in Cycles : Job(c))
FairSpec == Spec /\ WF_vars(Schedule)

----------------------------------------------------------------------------
(* Whatever the cycles, crashes and failures, the table holds one reminder *)
(* of the job for an officer, a file and an appointment day: the marker is *)
(* looked up outside any unique index, so only isRunning keeps two cycles  *)
(* from both missing it.                                                   *)
RemindedOnce == \A m \in Reminder : sent[m] <= 1

(* Every mail to a customer has its own row, or had one that went with a   *)
(* deleted account: a mail lost in a crash is possible, one repeated every *)
(* hour because nothing recorded it is not.                                *)
MailsFollowReminders == \A m \in Reminder : mails[m] <= sent[m] + erased[m]

Reminded(f) ==
  \E m \in Reminder :
    m.file = f /\ m.to = case[f].officer /\ m.day = case[f].day /\ AlreadySent(m)

(* A file that is due gets its officer reminded (or the officer has a      *)
(* message that passes for the reminder), unless it stops being due first: *)
(* the day passes, the officer or the date changes, it is closed.          *)
DueIsReminded == \A f \in Files : Due(f) ~> (~Due(f) \/ Reminded(f))
=============================================================================
