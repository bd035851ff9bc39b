---------------------------- MODULE QueueChanges ----------------------------
(***************************************************************************)
(* What the rest of a node sees of the print queue: which jobs are queued, *)
(* and what each handler is about to announce.  A handler changes the      *)
(* queue, then saves it, which may drop jobs, then announces its change;   *)
(* other handlers get in between.  JobQueueChanges shows that JobQueue     *)
(* does nothing else.                                                      *)
(***************************************************************************)

CONSTANTS
    JobId,
    Req,     \* the handlers
    Mishaps  \* which of AllMishaps may happen

AllMishaps == {"drop", "cancel", "restart"}

ASSUME MishapsAssumption == Mishaps \subseteq AllMishaps

VARIABLES
    queue,  \* ids of the queued jobs
    task    \* of every handler: what it has changed and not announced yet

qvars == <<queue, task>>

\* "gone" stands for job_update and job_dismissed: the job is in history now.
Announcement == [type : {"new_job", "gone", "job_error"}, id : JobId]

Free == [at |-> "free"]

Task == {Free} \cup [at : {"save", "announce"}, about : Announcement]

QInit == queue = {} /\ task = [r \in Req |-> Free]

Changed(r, type, j) ==
    /\ task[r] = Free
    /\ task' = [task EXCEPT ![r] = [at    |-> "save",
                                    about |-> [type |-> type, id |-> j]]]

\* A label is held.
Hold(r, j) ==
    /\ j \notin queue
    /\ \A t \in Req : task[t] # Free => task[t].about.id # j
    /\ Changed(r, "new_job", j)
    /\ queue' = queue \cup {j}

\* A job is filed in history: printed, dismissed, rejected, reprinted.
File(r, j) ==
    /\ Changed(r, "gone", j)
    /\ queue' = queue \ {j}

\* A label could not be sent; the job stays where it is.
Fail(r, j) ==
    /\ Changed(r, "job_error", j)
    /\ UNCHANGED queue

\* save_jobs: what does not fit is dropped.
Save(r) ==
    /\ task[r] # Free
    /\ task[r].at = "save"
    /\ task' = [task EXCEPT ![r].at = "announce"]
    /\ queue' \in IF "drop" \in Mishaps THEN SUBSET queue ELSE {queue}

\* The broadcast, with which the handler is done.
Announce(r) ==
    /\ task[r] # Free
    /\ task[r].at = "announce"
    /\ task' = [task EXCEPT ![r] = Free]
    /\ UNCHANGED queue

\* A client hangs up while its handler waits for the mutex: no announcement.
Cancel(r) ==
    /\ "cancel" \in Mishaps
    /\ task[r] # Free
    /\ task[r].at = "save"
    /\ task' = [task EXCEPT ![r] = Free]
    /\ UNCHANGED queue

\* A restart goes back to what the file has.
Recover ==
    /\ "restart" \in Mishaps
    /\ task' = [r \in Req |-> Free]
    /\ queue' \in SUBSET JobId

Change(r) == \E j \in JobId : Hold(r, j) \/ File(r, j) \/ Fail(r, j)

QNext ==
    \/ \E r \in Req : Change(r) \/ Save(r) \/ Announce(r) \/ Cancel(r)
    \/ Recover

QSpec == QInit /\ [][QNext]_qvars
=============================================================================
