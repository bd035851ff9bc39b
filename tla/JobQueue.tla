------------------------------ MODULE JobQueue ------------------------------
(***************************************************************************)
(* The print queue of a label-hub node: the inbound webhook, the console's *)
(* release / reprint / dismiss handlers, and the jobs.json file.           *)
(*                                                                         *)
(* Every HTTP request runs as a task of its own.  The tasks share one      *)
(* Mutex<Store>, held for short critical sections only: it is released     *)
(* before the label is sent, before save_jobs and before the answer.  An   *)
(* action is what one task does from one point where another task can run  *)
(* to the next.  Labels travel to the printer with no lock held.           *)
(***************************************************************************)
EXTENDS Naturals, Sequences, FiniteSets, SequencesExt

CONSTANTS
    Req,         \* slots for requests being handled at the same time
    Printer,     \* printer names, as find_printer tells them apart
    MaxPending,  \* MAX_PENDING
    MaxHistory,  \* MAX_HISTORY
    MaxJobs,     \* bound: job ids drawn in a behaviour
    MaxCopies,   \* bound: deliveries of one label in a behaviour
    Faults       \* which of AllFaults the environment may inject

AllFaults == {"crash", "hangup", "late_error", "disk"}

ASSUME BoundsAssumption ==
    /\ MaxPending \in Nat \ {0}
    /\ MaxHistory \in Nat \ {0}
    /\ MaxJobs \in Nat
    /\ MaxCopies \in Nat \ {0}

ASSUME FaultsAssumption == Faults \subseteq AllFaults

JobId == 1..MaxJobs

JobStatus == {"queued", "printed", "failed", "dismissed"}

\* `label` stands for the ZPL: the id of the job that first carried it.
Job == [id : JobId, label : JobId, printer : Printer, status : JobStatus]

PC == {"reject", "mode", "hold", "resolve", "send", "record", "save", "reply"}

Kind == {"inbound", "rejected", "release", "reprint", "dismiss"}

\* The locals of a handler: the job it cloned or built, the printer it was
\* told to use, and the result of send_to_printer.
Handler == [pc : PC, kind : Kind, job : Job, target : Printer, sent : BOOLEAN]

Idle == [pc |-> "idle"]

VARIABLES
    pending,     \* Store.pending, newest first
    history,     \* Store.history, newest first
    printers,    \* names in Store.printers
    auto_print,  \* Store.settings.auto_print
    disk,        \* the content of jobs.json
    handler,     \* the request handlers
    nextId,      \* the next fresh job id (Uuid::new_v4)
    \* What happened, for the properties; no action reads these.
    delivered,   \* per label: how often its bytes went out to a printer
    acked,       \* <<id, status>> of every job answered with 200
    evicted      \* ids that a truncation dropped from memory

vars == <<pending, history, printers, auto_print, disk, handler, nextId,
          delivered, acked, evicted>>

store    == <<pending, history>>
settings == <<printers, auto_print>>
ghosts   == <<delivered, acked, evicted>>

-----------------------------------------------------------------------------
(* Sequences of jobs *)

Ids(s) == {s[i].id : i \in DOMAIN s}

MemIds  == Ids(pending) \cup Ids(history)
DiskIds == Ids(disk.pending) \cup Ids(disk.history)

\* Vec::truncate.
Truncate(s, n) == SubSeq(s, 1, IF Len(s) <= n THEN Len(s) ELSE n)

PositionOf(s, id) == CHOOSE i \in DOMAIN s : s[i].id = id

\* Vec::remove(position), and Vec::retain(|j| j.id != id) as well: at most one
\* pending job has the id (OneListOnly).
Without(s, id) ==
    IF id \in Ids(s) THEN RemoveAt(s, PositionOf(s, id)) ELSE s

\* The failed-print branch of print_job: mark the job if it is still queued.
MarkFailed(s, id) ==
    IF id \in Ids(s)
    THEN [s EXCEPT ![PositionOf(s, id)].status = "failed"]
    ELSE s

-----------------------------------------------------------------------------
Init ==
    /\ pending = << >>
    /\ history = << >>
    /\ printers \in SUBSET Printer
    /\ auto_print \in BOOLEAN
    /\ disk = [pending |-> << >>, history |-> << >>]
    /\ handler = [r \in Req |-> Idle]
    /\ nextId = 1
    /\ delivered = [l \in JobId |-> 0]
    /\ acked = {}
    /\ evicted = {}

At(r, pc) == handler[r].pc = pc

Goto(r, pc) == handler' = [handler EXCEPT ![r].pc = pc]

-----------------------------------------------------------------------------
(* inbound::handle.  Authentication, the site filter and the parsing of the *)
(* body come first; they answer 4xx and touch nothing of the queue.         *)

\* The job is built and, in the first critical section, its printer looked up.
InboundReceive(r, p) ==
    /\ At(r, "idle")
    /\ nextId <= MaxJobs
    /\ handler' = [handler EXCEPT ![r] =
            [pc     |-> IF p \in printers THEN "mode" ELSE "reject",
             kind   |-> IF p \in printers THEN "inbound" ELSE "rejected",
             job    |-> [id |-> nextId, label |-> nextId, printer |-> p,
                         status |-> IF p \in printers THEN "queued" ELSE "failed"],
             target |-> p,
             sent   |-> FALSE]]
    /\ nextId' = nextId + 1
    /\ UNCHANGED <<store, settings, disk, ghosts>>

\* Unknown printer: a failed entry goes to history; the answer will be 422.
InboundReject(r) ==
    /\ At(r, "reject")
    /\ history' = <<handler[r].job>> \o history
    /\ Goto(r, "save")
    /\ UNCHANGED <<pending, settings, disk, nextId, ghosts>>

InboundMode(r) ==
    /\ At(r, "mode")
    /\ Goto(r, IF auto_print THEN "resolve" ELSE "hold")
    /\ UNCHANGED <<store, settings, disk, nextId, ghosts>>

\* Mutant of InboundHold: the answer goes out before save_jobs.
HoldWithoutSave(r) ==
    /\ At(r, "hold")
    /\ pending' = <<handler[r].job>> \o pending
    /\ Goto(r, "reply")
    /\ UNCHANGED <<history, settings, disk, nextId, ghosts>>

InboundHold(r) ==
    /\ At(r, "hold")
    /\ pending' = <<handler[r].job>> \o pending
    /\ Goto(r, "save")
    /\ UNCHANGED <<history, settings, disk, nextId, ghosts>>

-----------------------------------------------------------------------------
(* print_job: release a queued job or reprint one of the history.  The job is *)
(* cloned under the lock and the lock released.  An unknown id answers 404    *)
(* and changes nothing.                                                       *)

ReleaseFind(r, id, p) ==
    /\ At(r, "idle")
    /\ id \in Ids(pending)
    /\ handler' = [handler EXCEPT ![r] =
            [pc |-> "resolve", kind |-> "release",
             job |-> pending[PositionOf(pending, id)],
             target |-> p, sent |-> FALSE]]
    /\ UNCHANGED <<store, settings, disk, nextId, ghosts>>

\* The fresh id of the new history entry is drawn here and not after the send:
\* nobody can see it before it is recorded.
ReprintFind(r, id, p) ==
    /\ At(r, "idle")
    /\ id \in Ids(history) \ Ids(pending)
    /\ nextId <= MaxJobs
    /\ handler' = [handler EXCEPT ![r] =
            [pc |-> "resolve", kind |-> "reprint",
             job |-> [id |-> nextId,
                      label |-> history[PositionOf(history, id)].label,
                      printer |-> p, status |-> "printed"],
             target |-> p, sent |-> FALSE]]
    /\ nextId' = nextId + 1
    /\ UNCHANGED <<store, settings, disk, ghosts>>

-----------------------------------------------------------------------------
(* send_to_printer, for inbound and print_job *)

\* Mutant of Resolve: wait for the printer to be configured.
ResolveWaits(r) ==
    /\ At(r, "resolve")
    /\ handler[r].target \in printers
    /\ Goto(r, "send")
    /\ UNCHANGED <<store, settings, disk, nextId, ghosts>>

Resolve(r) ==
    /\ At(r, "resolve")
    /\ Goto(r, IF handler[r].target \in printers THEN "send" ELSE "record")
    /\ UNCHANGED <<store, settings, disk, nextId, ghosts>>

Sent(r, ok) ==
    handler' = [handler EXCEPT ![r].pc = "record", ![r].sent = ok]

Deliver(l) ==
    /\ delivered[l] < MaxCopies
    /\ delivered' = [delivered EXCEPT ![l] = @ + 1]

\* write_all returned Ok: the socket took every byte.
SendOk(r) ==
    /\ At(r, "send")
    /\ Deliver(handler[r].job.label)
    /\ Sent(r, TRUE)
    /\ UNCHANGED <<store, settings, disk, nextId, acked, evicted>>

\* Refused, reset, or one of the two timeouts before the label was out.
SendErr(r) ==
    /\ At(r, "send")
    /\ Sent(r, FALSE)
    /\ UNCHANGED <<store, settings, disk, nextId, ghosts>>

\* A timeout or a reset reported after the printer had the whole label.
SendLateErr(r) ==
    /\ "late_error" \in Faults
    /\ At(r, "send")
    /\ Deliver(handler[r].job.label)
    /\ Sent(r, FALSE)
    /\ UNCHANGED <<store, settings, disk, nextId, acked, evicted>>

-----------------------------------------------------------------------------
(* The critical section after the send *)

\* Mutant of RecordInbound: the result of the send is ignored.
RecordInboundUnchecked(r) ==
    LET j == [handler[r].job EXCEPT !.status = "printed"]
    IN  /\ At(r, "record")
        /\ handler[r].kind = "inbound"
        /\ history' = <<j>> \o history
        /\ handler' = [handler EXCEPT ![r].pc = "save", ![r].job = j]
        /\ UNCHANGED <<pending, settings, disk, nextId, ghosts>>

RecordInbound(r) ==
    LET j == [handler[r].job EXCEPT !.status =
                IF handler[r].sent THEN "printed" ELSE "failed"]
    IN  /\ At(r, "record")
        /\ handler[r].kind = "inbound"
        /\ history' = <<j>> \o history
        /\ handler' = [handler EXCEPT ![r].pc = "save", ![r].job = j]
        /\ UNCHANGED <<pending, settings, disk, nextId, ghosts>>

\* Mutant of RecordRelease: the job is copied to history, not moved.
RecordReleaseCopies(r) ==
    LET j == [handler[r].job EXCEPT !.status = "printed",
                                    !.printer = handler[r].target]
    IN  /\ At(r, "record")
        /\ handler[r].kind = "release"
        /\ handler[r].sent
        /\ history' = <<j>> \o history
        /\ handler' = [handler EXCEPT ![r].pc = "save", ![r].job = j]
        /\ UNCHANGED <<pending, settings, disk, nextId, ghosts>>

RecordRelease(r) ==
    LET j == [handler[r].job EXCEPT !.status = "printed",
                                    !.printer = handler[r].target]
    IN  /\ At(r, "record")
        /\ handler[r].kind = "release"
        /\ handler[r].sent
        /\ pending' = Without(pending, j.id)
        /\ history' = <<j>> \o history
        /\ handler' = [handler EXCEPT ![r].pc = "save", ![r].job = j]
        /\ UNCHANGED <<settings, disk, nextId, ghosts>>

\* Mutant of RecordReprint: a reprint leaves no entry of its own.
RecordReprintForgets(r) ==
    /\ At(r, "record")
    /\ handler[r].kind = "reprint"
    /\ handler[r].sent
    /\ Goto(r, "save")
    /\ UNCHANGED <<store, settings, disk, nextId, ghosts>>

RecordReprint(r) ==
    /\ At(r, "record")
    /\ handler[r].kind = "reprint"
    /\ handler[r].sent
    /\ history' = <<handler[r].job>> \o history
    /\ Goto(r, "save")
    /\ UNCHANGED <<pending, settings, disk, nextId, ghosts>>

\* Mutant of RecordFailure: the failed job is put back at the head of the queue,
\* whether it is still there or not.
RecordFailureRequeues(r) ==
    LET j == [handler[r].job EXCEPT !.status = "failed"]
    IN  /\ At(r, "record")
        /\ handler[r].kind \in {"release", "reprint"}
        /\ ~handler[r].sent
        /\ pending' = IF handler[r].kind = "release"
                      THEN <<j>> \o Without(pending, j.id) ELSE pending
        /\ Goto(r, "save")
        /\ UNCHANGED <<history, settings, disk, nextId, ghosts>>

\* Mutant of RecordFailure: the failed job leaves the queue.
RecordFailureDrops(r) ==
    /\ At(r, "record")
    /\ handler[r].kind \in {"release", "reprint"}
    /\ ~handler[r].sent
    /\ pending' = Without(pending, handler[r].job.id)
    /\ Goto(r, "save")
    /\ UNCHANGED <<history, settings, disk, nextId, ghosts>>

\* A failed release stays queued for a retry; a failed reprint leaves no trace.
RecordFailure(r) ==
    /\ At(r, "record")
    /\ handler[r].kind \in {"release", "reprint"}
    /\ ~handler[r].sent
    /\ pending' = IF handler[r].kind = "release"
                  THEN MarkFailed(pending, handler[r].job.id) ELSE pending
    /\ Goto(r, "save")
    /\ UNCHANGED <<history, settings, disk, nextId, ghosts>>

-----------------------------------------------------------------------------
\* Mutant of Dismiss: the entry of history keeps the status it was queued with.
DismissKeepsStatus(r, id) ==
    LET j == pending[PositionOf(pending, id)]
    IN  /\ At(r, "idle")
        /\ id \in Ids(pending)
        /\ pending' = Without(pending, id)
        /\ history' = <<j>> \o history
        /\ handler' = [handler EXCEPT ![r] =
                [pc |-> "save", kind |-> "dismiss", job |-> j,
                 target |-> j.printer, sent |-> FALSE]]
        /\ UNCHANGED <<settings, disk, nextId, ghosts>>

\* dismiss_job: one critical section moves the job to history; 404 when it is
\* not queued.
Dismiss(r, id) ==
    LET j == [pending[PositionOf(pending, id)] EXCEPT !.status = "dismissed"]
    IN  /\ At(r, "idle")
        /\ id \in Ids(pending)
        /\ pending' = Without(pending, id)
        /\ history' = <<j>> \o history
        /\ handler' = [handler EXCEPT ![r] =
                [pc |-> "save", kind |-> "dismiss", job |-> j,
                 target |-> j.printer, sent |-> FALSE]]
        /\ UNCHANGED <<settings, disk, nextId, ghosts>>

-----------------------------------------------------------------------------
(* save_jobs: truncate both lists and write jobs.json, under the lock.  A write *)
(* that fails is logged and the handler goes on.                                *)

Save(r) ==
    /\ At(r, "save")
    /\ pending' = Truncate(pending, MaxPending)
    /\ history' = Truncate(history, MaxHistory)
    /\ evicted' = evicted \cup (MemIds \ (Ids(pending') \cup Ids(history')))
    /\ \/ disk' = [pending |-> pending', history |-> history']
       \/ "disk" \in Faults /\ disk' = disk
    /\ Goto(r, "reply")
    /\ UNCHANGED <<settings, nextId, delivered, acked>>

\* The handler answers: 422 to a rejected label, 502 to a failed release or
\* reprint, 200 to everything else.
AnswersOk(h) == \/ h.kind \in {"inbound", "dismiss"}
                \/ h.kind \in {"release", "reprint"} /\ h.sent

Reply(r) ==
    /\ At(r, "reply")
    /\ acked' = IF AnswersOk(handler[r])
                THEN acked \cup {<<handler[r].job.id, handler[r].job.status>>}
                ELSE acked
    /\ handler' = [handler EXCEPT ![r] = Idle]
    /\ UNCHANGED <<store, settings, disk, nextId, delivered, evicted>>

-----------------------------------------------------------------------------
(* The surroundings *)

\* The client goes away and the server drops the handler's future where it
\* waits; nothing that it did is undone.
Hangup(r) ==
    /\ "hangup" \in Faults
    /\ handler[r] # Idle
    /\ handler' = [handler EXCEPT ![r] = Idle]
    /\ UNCHANGED <<store, settings, disk, nextId, ghosts>>

\* The process stops at any point and AppState::new reads jobs.json back; a
\* file it cannot read counts as empty.  Printers and settings come from their
\* own files; Reconfigure stands for what they hold.
Restart ==
    /\ "crash" \in Faults
    /\ \/ pending' = disk.pending /\ history' = disk.history
       \/ "disk" \in Faults /\ pending' = << >> /\ history' = << >>
    /\ handler' = [r \in Req |-> Idle]
    /\ UNCHANGED <<settings, disk, nextId, ghosts>>

\* Printer profiles and settings edited on the console or replaced by the
\* control plane (modelled in ConfigSync).
Reconfigure ==
    /\ printers' \in SUBSET Printer
    /\ auto_print' \in BOOLEAN
    /\ UNCHANGED <<store, disk, handler, nextId, ghosts>>

-----------------------------------------------------------------------------
Accept(r) == \E p \in Printer : InboundReceive(r, p)

Operate(r) == \E id \in JobId : \/ \E p \in Printer : \/ ReleaseFind(r, id, p)
                                                      \/ ReprintFind(r, id, p)
                                \/ Dismiss(r, id)

\* What a handler does once its request is in.
Advance(r) ==
    \/ InboundReject(r) \/ InboundMode(r) \/ InboundHold(r)
    \/ Resolve(r)
    \/ SendOk(r) \/ SendErr(r) \/ SendLateErr(r)
    \/ RecordInbound(r) \/ RecordRelease(r) \/ RecordReprint(r) \/ RecordFailure(r)
    \/ Save(r) \/ Reply(r)

Next ==
    \/ \E r \in Req : Accept(r) \/ Operate(r) \/ Advance(r) \/ Hangup(r)
    \/ Restart
    \/ Reconfigure

Spec == Init /\ [][Next]_vars

\* Tokio runs every ready task, the mutex is handed over in order and both
\* halves of a send have a timeout: a handler that has started keeps going.
FairSpec == Spec /\ \A r \in Req : WF_vars(Advance(r))
-----------------------------------------------------------------------------
(* Properties *)

JobsDoc == [pending : Seq(Job), history : Seq(Job)]

\* Every variable keeps its type; a queued job is queued or failed, and an
\* entry of history is never queued (state.rs, JobStatus).
TypeOK ==
    /\ pending \in Seq(Job) /\ history \in Seq(Job)
    /\ \A i \in DOMAIN pending : pending[i].status \in {"queued", "failed"}
    /\ \A i \in DOMAIN history : history[i].status # "queued"
    /\ printers \in SUBSET Printer
    /\ auto_print \in BOOLEAN
    /\ disk \in JobsDoc
    /\ handler \in [Req -> Handler \cup {Idle}]
    /\ nextId \in 1..(MaxJobs + 1)
    /\ delivered \in [JobId -> 0..MaxCopies]
    /\ acked \in SUBSET (JobId \X JobStatus)
    /\ evicted \in SUBSET JobId

DistinctIds(s) == \A i, j \in DOMAIN s : s[i].id = s[j].id => i = j

OneList(p, h) == DistinctIds(p) /\ Ids(p) \cap Ids(h) = {}

\* A job is in the queue at most once, and never in the queue and in history at
\* the same time, in memory and in jobs.json: a label that has been printed or
\* dismissed is not offered for release again, whatever handlers overlap and
\* wherever the process stops.
OneListOnly == OneList(pending, history) /\ OneList(disk.pending, disk.history)

\* What a 200 promised is in jobs.json: a job answered as closed is in its
\* history, a job answered as queued is in its queue or has been closed since,
\* unless a truncation dropped it.  Without disk faults no crash loses an
\* acknowledged label.
AckedDurable ==
    \A a \in acked : \/ a[1] \in evicted
                     \/ a[1] \in Ids(disk.history)
                     \/ a[2] = "queued" /\ a[1] \in Ids(disk.pending)

PrintedEntries(s, l) ==
    Cardinality({i \in DOMAIN s : s[i].label = l /\ s[i].status = "printed"})

\* Sends that succeeded and are not in history yet.
Unrecorded(l) ==
    Cardinality({r \in Req : /\ At(r, "record")
                             /\ handler[r].sent
                             /\ handler[r].job.label = l})

\* History never claims a print that did not happen: every printed entry of a
\* label, reprints and concurrent releases included, has a delivery of its own.
TruthfulHistory ==
    \A l \in JobId : PrintedEntries(history, l) + Unrecorded(l) <= delivered[l]

\* Without faults the converse holds too: each delivery has its entry as long
\* as history has not been truncated, two operators releasing the same job
\* included.
EveryPrintRecorded ==
    Len(history) < MaxHistory =>
        \A l \in JobId : delivered[l] = PrintedEntries(history, l) + Unrecorded(l)

\* A job leaves the queue for history in one step (a save of another handler can
\* never catch it in neither list), is dropped by a truncation, or goes back to
\* what jobs.json says in a restart; a failed release does not remove it.
LeavesQueueForCause ==
    [][ \A id \in Ids(pending) \ Ids(pending') :
            \/ \E j \in ToSet(history') :
                    j.id = id /\ j.status \in {"printed", "dismissed"}
            \/ id \in evicted'
            \/ <<pending', history'>> = <<disk.pending, disk.history>> ]_vars

\* jobs.rs: "remove a queued job without printing".  No job is both dismissed
\* and printed in history.
DismissedNeverPrinted ==
    \A i, j \in DOMAIN history :
        history[i].status = "dismissed" /\ history[j].status = "printed"
            => history[i].id # history[j].id

\* Every request is answered: no handler waits for ever on a printer that
\* accepts nothing, on the mutex or on another handler.
RequestsAnswered == \A r \in Req : handler[r] # Idle ~> handler[r] = Idle
=============================================================================
