---------------------------- MODULE CasePipeline ----------------------------
(***************************************************************************)
(* What the pipeline promises to those who work in it, with no requests,   *)
(* reads, conditional writes or cron: a file is somewhere, each department *)
(* has at most one holder of it, and it only ever makes one of these moves *)
(* at a time.                                                              *)
(***************************************************************************)
EXTENDS ProcessFlow

CONSTANTS Apps, Staff, DeptOf, None

VARIABLES place, holder

pvars == <<place, holder>>

PInit == /\ place = [a \in Apps |-> "ABSENT"]
         /\ holder = [a \in Apps |-> [d \in Departments |-> None]]

Move(a, st) == place' = [place EXCEPT ![a] = st]

\* A new file waits for the sales department.
Open(a) == /\ place[a] = "ABSENT"
           /\ Move(a, "SALES_POOL")
           /\ UNCHANGED holder

\* A file waiting in a department's pool becomes one person's work.
Take(a, p) == LET d == DeptOf[p] IN
              /\ place[a] = PoolStage[d]
              /\ holder[a][d] = None
              /\ Move(a, ProcessStage[d])
              /\ holder' = [holder EXCEPT ![a][d] = p]

\* Work a department holds goes on to the next one's pool, unheld there, and
\* from the last department to COMPLETED.
HandOver(a, d) == /\ place[a] = ProcessStage[d]
                  /\ holder[a][d] # None
                  /\ \A e \in Departments :
                        PoolStage[e] = NextStage[d] => holder[a][e] = None
                  /\ Move(a, NextStage[d])
                  /\ UNCHANGED holder

\* Stalled sales work goes back to the pool it was taken from.
GiveBack(a) == /\ place[a] = "SALES_PROCESS"
               /\ holder[a]["SALES"] # None
               /\ Move(a, "SALES_POOL")
               /\ holder' = [holder EXCEPT ![a]["SALES"] = None]

\* A live file is set aside.
Park(a) == /\ place[a] \notin NonPausable \cup {"ABSENT"}
           /\ Move(a, "PAUSED")
           /\ UNCHANGED holder

PNext == \E a \in Apps :
            \/ Open(a)
            \/ \E p \in Staff : Take(a, p)
            \/ \E d \in Departments : HandOver(a, d)
            \/ GiveBack(a)
            \/ Park(a)

PSpec == PInit /\ [][PNext]_pvars
=============================================================================
