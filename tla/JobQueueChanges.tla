-------------------------- MODULE JobQueueChanges --------------------------
(* JobQueue implements QueueChanges.  A hang-up in "reply" costs the client its *)
(* answer and nobody the announcement: no task waits between the two.           *)
EXTENDS JobQueue

\* inbound: job_update unless the label is held; print_job: job_update or
\* job_error; dismiss_job: job_dismissed.
AnnouncementOf(h) ==
    [type |-> CASE h.kind = "inbound" /\ h.job.status = "queued" -> "new_job"
                [] h.kind \in {"release", "reprint"} /\ ~h.sent -> "job_error"
                [] OTHER -> "gone",
     id |-> h.job.id]

TaskOf(h) == CASE h.pc = "save"  -> [at |-> "save", about |-> AnnouncementOf(h)]
               [] h.pc = "reply" -> [at |-> "announce", about |-> AnnouncementOf(h)]
               [] OTHER          -> [at |-> "free"]

Tasks == [r \in Req |-> TaskOf(handler[r])]

Changes == INSTANCE QueueChanges WITH
    Mishaps <- {"drop"} \cup (IF "hangup" \in Faults THEN {"cancel"} ELSE {})
                       \cup (IF "crash" \in Faults THEN {"restart"} ELSE {}),
    queue   <- Ids(pending),
    task    <- Tasks

\* Handlers change the queue, save it and announce the change in this order, one
\* change each, and a job enters the queue once (nothing else is announced, and
\* nothing changes the queue without an announcement but a truncation, a
\* cancelled handler and a restart).
ImplementsChanges == Changes!QSpec
=============================================================================
