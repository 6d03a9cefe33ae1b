------------------------------- MODULE DocDesk -------------------------------
(***************************************************************************)
(* The document officer's dashboard (doc-assistant-dashboard.tsx) at work  *)
(* against the server of CaseDocuments.                                    *)
(*                                                                         *)
(* The component keeps the card statuses it shows in a state of its own,   *)
(* set once when it mounts: what others do on the server never reaches it. *)
(* A click starts an asynchronous job; each await in the job is a place    *)
(* where other jobs and other people's requests come in between.  What a   *)
(* job read of the screen it read when it was clicked (a closure).         *)
(***************************************************************************)
EXTENDS CaseDocuments

CONSTANTS Jobs   \* jobs a browser has under way at the same time

ASSUME JobsAssumption == /\ Jobs \subseteq Sessions
                         /\ "DOC" \in Uploaders /\ "YUKLENDI" \in Statuses
                         /\ \A c \in Cards : Catalog[c].type \in Types

VARIABLES
    screen,      \* statusByType
    busy,        \* busyType: the one card marked as being worked on
    delivering,  \* isDelivering
    job,         \* the asynchronous functions that have not returned
    lost         \* history: one of them was thrown out of since the page loaded

desk  == <<screen, busy, delivering, job, lost>>
vars  == <<dvars, desk>>

NoJob == [kind |-> "none"]
Kinds == {"persist", "upload", "deliver"}
Phases == {"ticket", "put", "status", "answered"}
Job == [kind : Kinds, card : Cards \cup {"NONE"}, type : FileTypes,
        want : Statuses, prev : Statuses, doc : 0..MaxDocs, phase : Phases]

\* getDefaultStatusByType: a card without an item row shows as HAZIRLANIYOR.
\* Mutant: the default forgotten.
NoDefaults == items
Defaults == [c \in Cards |-> IF items[c] = "NONE" THEN "HAZIRLANIYOR"
                                                  ELSE items[c]]

DeskInit ==
    /\ Init
    /\ screen = Defaults
    /\ busy = "NONE"
    /\ delivering = FALSE
    /\ job = [j \in Jobs |-> NoJob]
    /\ lost = FALSE

Free(j) == job[j] = NoJob /\ tx[j] = Idle
Start(j, new) == Free(j) /\ job' = [job EXCEPT ![j] = new]
Phase(j, phase) == job' = [job EXCEPT ![j].phase = phase]
Finish(j) == job' = [job EXCEPT ![j] = NoJob]
At(j, kinds, phase) ==
    job[j] # NoJob /\ job[j].kind \in kinds /\ job[j].phase = phase
Show(c, st) == screen' = [screen EXCEPT ![c] = st]

-----------------------------------------------------------------------------
(***************************************************************************)
(* Clicks.                                                                 *)
(***************************************************************************)
\* persistStatus up to its await.  The selector of a card is disabled only
\* while busyType names that very card.
PickStatus(j, c, st) ==
    /\ busy # c
    /\ screen[c] # st
    /\ Start(j, [kind |-> "persist", card |-> c, type |-> Catalog[c].type,
                 want |-> st, prev |-> screen[c], doc |-> 0,
                 phase |-> "status"])
    /\ Show(c, st)
    /\ busy' = c
    /\ UNCHANGED <<dvars, delivering, lost>>

\* uploadForCard up to its first await.
UploadForCard(j, c) ==
    /\ busy # c
    /\ Start(j, [kind |-> "upload", card |-> c, type |-> Catalog[c].type,
                 want |-> "YUKLENDI", prev |-> screen[c], doc |-> 0,
                 phase |-> "ticket"])
    /\ busy' = c
    /\ UNCHANGED <<dvars, screen, delivering, lost>>

\* deliverFilesToCustomer: offered while no card is being worked on.
DeliverFiles(j) ==
    /\ ~delivering /\ busy = "NONE"
    /\ Start(j, [kind |-> "deliver", card |-> "NONE", type |-> "OTHER",
                 want |-> "HAZIRLANIYOR", prev |-> "HAZIRLANIYOR", doc |-> 0,
                 phase |-> "status"])
    /\ delivering' = TRUE
    /\ UNCHANGED <<dvars, screen, busy, lost>>

(***************************************************************************)
(* The server's side of a job: the action on the web server calls the API, *)
(* where the request begins, commits or fails.  The action catches every   *)
(* failure of that call and replies { ok: false }, also when the request   *)
(* committed and only the API's answer was lost.                           *)
(***************************************************************************)
JobRequest(j) ==
    LET w == job[j] IN
    /\ \/ /\ At(j, {"upload"}, "ticket")
          /\ BeginUpload(j, "DOC", w.type, w.card)
       \/ At(j, {"persist", "upload"}, "status") /\ BeginStatus(j, w.card, w.want)
       \/ At(j, {"deliver"}, "status") /\ BeginDeliver(j)
    /\ UNCHANGED desk

JobCommit(j) ==
    /\ \/ /\ CommitUpload(j)
          /\ job' = IF At(j, {"upload"}, "ticket")
                    THEN [job EXCEPT ![j].phase = "put", ![j].doc = minted']
                    ELSE job
       \/ /\ CommitStatus(j) \/ CommitDeliver(j)
          /\ IF job[j] # NoJob THEN Phase(j, "answered") ELSE UNCHANGED job
    /\ UNCHANGED <<screen, busy, delivering, lost>>

\* A request whose job is gone with its page still runs to its end.
Abandoned(j) == job[j] = NoJob /\ Rollback(j) /\ UNCHANGED desk

(***************************************************************************)
(* The job goes on with what came back.                                    *)
(***************************************************************************)
\* The PUT of the bytes succeeds.  An officer's upload then asks for the card
\* to be set to YUKLENDI, unless the card already showed that when clicked.
PutDone(j) ==
    LET w == job[j] IN
    /\ At(j, {"upload"}, "put")
    /\ Put(w.doc)
    /\ IF w.prev # "YUKLENDI"
       THEN /\ Show(w.card, "YUKLENDI")
            /\ Phase(j, "status")
            /\ UNCHANGED busy
       ELSE /\ Finish(j)
            /\ busy' = "NONE"
            /\ UNCHANGED screen
    /\ UNCHANGED <<delivering, lost>>

\* Mutant: this error path leaves the card busy.
PutFailedStaysBusy(j) ==
    /\ At(j, {"upload"}, "put")
    /\ Finish(j)
    /\ UNCHANGED <<dvars, screen, busy, delivering, lost>>
\* Mutant: response.ok is not looked at.
PutFailedGoesOn(j) ==
    /\ At(j, {"upload"}, "put")
    /\ Show(job[j].card, "YUKLENDI")
    /\ Phase(j, "status")
    /\ UNCHANGED <<dvars, busy, delivering, lost>>
PutFailed(j) ==
    /\ At(j, {"upload"}, "put")
    /\ Finish(j)
    /\ busy' = "NONE"
    /\ UNCHANGED <<dvars, screen, delivering, lost>>

\* { ok: true }
Succeeded(j) ==
    /\ At(j, {"persist", "upload", "deliver"}, "answered")
    /\ Finish(j)
    /\ busy' = IF job[j].kind = "deliver" THEN busy ELSE "NONE"
    /\ delivering' = (delivering /\ job[j].kind # "deliver")
    /\ UNCHANGED <<dvars, screen, lost>>

\* { ok: false }: the request was refused, rolled back or never got to the
\* API, or it committed and the API's answer was lost.  A status shown in
\* advance goes back to the one the job remembers, whatever the server has.
Failed(j) ==
    LET w == job[j] IN
    /\ w # NoJob /\ w.phase \in {"ticket", "status", "answered"}
    /\ IF tx[j] = Idle THEN UNCHANGED dvars ELSE Rollback(j)
    /\ Finish(j)
    /\ IF w.kind = "persist" \/ (w.kind = "upload" /\ w.phase # "ticket")
       THEN Show(w.card, w.prev) ELSE UNCHANGED screen
    /\ busy' = IF w.kind = "deliver" THEN busy ELSE "NONE"
    /\ delivering' = (delivering /\ w.kind # "deliver")
    /\ UNCHANGED lost

\* The browser's own request to the server action fails: the promise rejects,
\* nothing around these awaits catches it, and the job is over with the card
\* still marked, or the button still spinning.  (A status shown in advance
\* stays, too.)  What had reached the server goes on there.
Rejected(j) ==
    /\ job[j] # NoJob /\ job[j].phase \in {"ticket", "status", "answered"}
    /\ Finish(j)
    /\ lost' = TRUE
    /\ UNCHANGED <<dvars, screen, busy, delivering>>

\* The page is loaded anew; what its jobs had under way on the server goes on.
Reload ==
    /\ screen' = Defaults
    /\ busy' = "NONE"
    /\ delivering' = FALSE
    /\ job' = [j \in Jobs |-> NoJob]
    /\ lost' = FALSE
    /\ UNCHANGED dvars

-----------------------------------------------------------------------------
Click(j) ==
    \/ \E c \in Cards : (\E st \in Statuses : PickStatus(j, c, st))
                         \/ UploadForCard(j, c)
    \/ DeliverFiles(j)

\* Whatever moves a job on: the server, the network, the component itself.
JobStep(j) ==
    \/ JobRequest(j) \/ JobCommit(j) \/ PutDone(j) \/ PutFailed(j)
    \/ Succeeded(j) \/ Failed(j) \/ Rejected(j)

\* Everybody else.  Whether the bytes of their uploads arrive is left out:
\* nothing here depends on it.
Others ==
    /\ \/ \E s \in Sessions \ Jobs :
             Request(s) \/ Commit(s) \/ Rollback(s)
       \/ \E k \in Ids : DeleteObject(k) \/ CleanupLost(k)
       \/ \E d \in Ids : Remove(d)
       \/ \E p \in Plans : Crm(p)
    /\ UNCHANGED desk

DeskNext ==
    \/ \E j \in Jobs : Click(j) \/ JobStep(j) \/ Abandoned(j)
    \/ Others
    \/ Reload

DeskSpec == DeskInit /\ [][DeskNext]_vars

-----------------------------------------------------------------------------
\* Type correctness of the dashboard's state.
DeskTypeOK ==
    /\ TypeOK
    /\ screen \in [Cards -> Statuses]
    /\ busy \in Cards \cup {"NONE"}
    /\ delivering \in BOOLEAN /\ lost \in BOOLEAN
    /\ job \in [Jobs -> Job \cup {NoJob}]

\* The dashboard has the server call a card uploaded only when the bytes are
\* in the store: from then on they are there as long as somebody has not
\* removed the document (or a file sharing its bytes), whatever expires, fails
\* or is retried.
UploadedIsStored ==
    \A j \in Jobs :
        At(j, {"upload"}, "status") \/ At(j, {"upload"}, "answered") =>
            \/ job[j].doc \in objects
            \/ docs[job[j].doc] = Absent
            \/ docs[job[j].doc].type \in SharedTypes

\* No reply and no error path of the component leaves a card marked as being
\* worked on, or the delivery button spinning, when the job it was for is
\* over, in whatever order the jobs end; only a job thrown out of does.
MarkedIsWorkedOn ==
    \/ lost
    \/ /\ busy # "NONE" =>
            \E j \in Jobs : job[j].kind \in {"persist", "upload"} /\ job[j].card = busy
       /\ delivering => \E j \in Jobs : job[j].kind = "deliver"
=============================================================================
