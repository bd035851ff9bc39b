------------------------------ MODULE Console ------------------------------
(***************************************************************************)
(* The live queue of the operator's page, composed with the print queue as *)
(* QueueChanges has it: the event stream (jobs.rs, events), the broadcast  *)
(* channel behind it, and what receiving-labels.html does with an event or *)
(* a reloaded list.                                                        *)
(*                                                                         *)
(* A page has two ways to learn the queue, the stream and GET /api/jobs,   *)
(* and nothing orders one against the other.  A handler announces a change *)
(* after it has saved it, when the queue may have changed again.           *)
(***************************************************************************)
EXTENDS QueueChanges, Naturals, SequencesExt

CONSTANTS
    Page,      \* browser pages showing the queue
    Capacity,  \* of the broadcast channel
    Fetch      \* bound: the reloads that one page can have under way

ASSUME PageAssumption == Capacity \in Nat \ {0}

VARIABLES
    conn,    \* of every page: its event stream
    stream,  \* messages it has not received yet, oldest first
    load,    \* its requests for /api/jobs under way
    rows,    \* the ids in queueJobs
    doubt    \* ids it may have wrong; no action reads it

pvars == <<conn, stream, load, rows, doubt>>

vars == <<qvars, pvars>>

Conn == {"closed", "connecting", "subscribing", "open"}

\* Messages about settings do not touch the list.
Message == [type : {"backlog"}, jobs : SUBSET JobId] \cup Announcement

Load == [at : {"none", "asked"}] \cup [at : {"served"}, jobs : SUBSET JobId]

NoLoad == [at |-> "none"]
Asked  == [at |-> "asked"]

Init ==
    /\ QInit
    /\ conn = [c \in Page |-> "closed"]
    /\ stream = [c \in Page |-> << >>]
    /\ load = [c \in Page |-> [f \in Fetch |-> NoLoad]]
    /\ rows = [c \in Page |-> {}]
    /\ doubt = [c \in Page |-> {}]

-----------------------------------------------------------------------------
(* Announcing a change *)

\* Mutant of Applied: a backlog adds to the list.
AppliedAdds(m, list) ==
    CASE m.type = "backlog" -> list \cup m.jobs
      [] m.type = "new_job" -> list \cup {m.id}
      [] m.type = "gone"    -> list \ {m.id}
      [] OTHER              -> list

\* The list that the message leaves a page with.
Applied(m, list) ==
    CASE m.type = "backlog" -> m.jobs
      [] m.type = "new_job" -> list \cup {m.id}
      [] m.type = "gone"    -> list \ {m.id}
      [] OTHER              -> list

\* A full channel forgets its oldest message; the receiver skips the gap.  The
\* backlog is the head of the response and not in the channel.
FirstLive(s) == IF s # << >> /\ Head(s).type = "backlog" THEN 2 ELSE 1

Full(s) == Len(s) - FirstLive(s) + 1 = Capacity

\* Mutant of Push: an unbounded channel.
PushUnbounded(s, m) == Append(s, m)

Push(s, m) == Append(IF Full(s) THEN RemoveAt(s, FirstLive(s)) ELSE s, m)

\* Ids that a message is about, as far as the list of the queue goes.
About(m) == IF m.type \in {"new_job", "gone"} THEN {m.id} ELSE {}

\* Why a page can have a job wrong, as far as an announcement is concerned: it
\* had taken its backlog and not subscribed yet, ...
Unheard(c, m) ==
    IF conn[c] = "subscribing" /\ Applied(m, Head(stream[c]).jobs) # Head(stream[c]).jobs
    THEN About(m) ELSE {}

\* ... its receiver had to skip an older message, ...
Skipped(c) ==
    IF conn[c] = "open" /\ Full(stream[c])
    THEN About(stream[c][FirstLive(stream[c])]) ELSE {}

\* ... or the label was announced as new after it had left the queue.
TooLate(m) == IF m.type = "new_job" THEN {m.id} \ queue ELSE {}

Broadcast(m) ==
    /\ stream' = [c \in Page |-> IF conn[c] = "open" THEN Push(stream[c], m)
                                 ELSE stream[c]]
    /\ doubt' = [c \in Page |-> doubt[c] \cup Unheard(c, m) \cup Skipped(c)
                                                 \cup TooLate(m)]
    /\ UNCHANGED <<conn, load, rows>>

-----------------------------------------------------------------------------
(* The handlers, seen by the pages *)

AnnounceToPages(r) == Announce(r) /\ Broadcast(task[r].about)

\* A truncation is not announced.
SaveUnannounced(r) ==
    /\ Save(r)
    /\ doubt' = [c \in Page |-> doubt[c] \cup (queue \ queue')]
    /\ UNCHANGED <<conn, stream, load, rows>>

\* Nor is a change whose handler is cancelled before it has saved it.
CancelUnannounced(r) ==
    /\ Cancel(r)
    /\ doubt' = [c \in Page |-> doubt[c] \cup About(task[r].about)]
    /\ UNCHANGED <<conn, stream, load, rows>>

\* Connections and requests end with the process; answers on their way arrive.
RestartAndDisconnect ==
    /\ Recover
    /\ conn' = [c \in Page |-> IF conn[c] = "closed" THEN "closed" ELSE "connecting"]
    /\ stream' = [c \in Page |-> << >>]
    /\ load' = [c \in Page |-> [f \in Fetch |->
                  IF load[c][f] = Asked THEN NoLoad ELSE load[c][f]]]
    /\ UNCHANGED <<rows, doubt>>

QueueStep ==
    \/ \E r \in Req : \/ Change(r) /\ UNCHANGED pvars
                      \/ SaveUnannounced(r)
                      \/ AnnounceToPages(r)
                      \/ CancelUnannounced(r)
    \/ RestartAndDisconnect

-----------------------------------------------------------------------------
(* The page *)

Ask(c, f) == load[c][f] = NoLoad /\ load' = [load EXCEPT ![c][f] = Asked]

\* DOMContentLoaded: loadQueue() and connectSSE().
Open(c, f) ==
    /\ conn[c] = "closed"
    /\ conn' = [conn EXCEPT ![c] = "connecting"]
    /\ Ask(c, f)
    /\ UNCHANGED <<qvars, stream, rows, doubt>>

\* events: the backlog is copied under the lock ...
EventsBacklog(c) ==
    /\ conn[c] = "connecting"
    /\ conn' = [conn EXCEPT ![c] = "subscribing"]
    /\ stream' = [stream EXCEPT ![c] = <<[type |-> "backlog", jobs |-> queue]>>]
    /\ doubt' = [doubt EXCEPT ![c] = {}]
    /\ UNCHANGED <<qvars, load, rows>>

\* ... and the channel subscribed to after the lock is released.
EventsSubscribe(c) ==
    /\ conn[c] = "subscribing"
    /\ conn' = [conn EXCEPT ![c] = "open"]
    /\ UNCHANGED <<qvars, stream, load, rows, doubt>>

\* The network drops the stream; the browser's EventSource connects again.
Disconnect(c) ==
    /\ conn[c] \in {"subscribing", "open"}
    /\ conn' = [conn EXCEPT ![c] = "connecting"]
    /\ stream' = [stream EXCEPT ![c] = << >>]
    /\ UNCHANGED <<qvars, load, rows, doubt>>

Differ(s, t) == (s \ t) \cup (t \ s)

\* Where an answer of /api/jobs that is on its way contradicts the message.
Contradicted(c, m) ==
    LET answers == {load[c][f].jobs : f \in {g \in Fetch : load[c][g].at = "served"}}
        about   == IF m.type = "backlog" THEN JobId ELSE About(m)
    IN  UNION {about \cap Differ(s, Applied(m, rows[c])) : s \in answers}

\* es.onmessage: an error reloads the list.
Receive(c) ==
    LET m == Head(stream[c])
    IN  /\ conn[c] = "open"
        /\ stream[c] # << >>
        /\ stream' = [stream EXCEPT ![c] = Tail(@)]
        /\ rows' = [rows EXCEPT ![c] = Applied(m, @)]
        /\ IF m.type = "job_error" THEN \E f \in Fetch : Ask(c, f) ELSE UNCHANGED load
        /\ doubt' = [doubt EXCEPT ![c] = @ \cup Contradicted(c, m)]
        /\ UNCHANGED <<qvars, conn>>

\* The Refresh button.
Refresh(c, f) ==
    /\ conn[c] # "closed"
    /\ Ask(c, f)
    /\ UNCHANGED <<qvars, conn, stream, rows, doubt>>

\* list_pending copies the queue under the lock.
LoadServed(c, f) ==
    /\ load[c][f] = Asked
    /\ load' = [load EXCEPT ![c][f] = [at |-> "served", jobs |-> queue]]
    /\ UNCHANGED <<qvars, conn, stream, rows, doubt>>

\* loadQueue: the answer replaces the list; answers may arrive in any order.
LoadArrives(c, f) ==
    /\ load[c][f].at = "served"
    /\ rows' = [rows EXCEPT ![c] = load[c][f].jobs]
    /\ load' = [load EXCEPT ![c][f] = NoLoad]
    /\ UNCHANGED <<qvars, conn, stream, doubt>>

LoadFails(c, f) ==
    /\ load[c][f] # NoLoad
    /\ load' = [load EXCEPT ![c][f] = NoLoad]
    /\ UNCHANGED <<qvars, conn, stream, rows, doubt>>

PageStep(c) ==
    \/ EventsBacklog(c) \/ EventsSubscribe(c) \/ Disconnect(c) \/ Receive(c)
    \/ \E f \in Fetch : \/ Open(c, f) \/ Refresh(c, f)
                        \/ LoadServed(c, f) \/ LoadArrives(c, f) \/ LoadFails(c, f)

Next == QueueStep \/ \E c \in Page : PageStep(c)

Spec == Init /\ [][Next]_vars

-----------------------------------------------------------------------------
(* Properties *)

TypeOK ==
    /\ queue \in SUBSET JobId
    /\ task \in [Req -> Task]
    /\ conn \in [Page -> Conn]
    /\ stream \in [Page -> Seq(Message)]
    /\ load \in [Page -> [Fetch -> Load]]
    /\ \A c \in Page : Len(stream[c]) <= Capacity + 1
    /\ rows \in [Page -> SUBSET JobId]
    /\ doubt \in [Page -> SUBSET JobId]

\* Nothing is on its way to the page and no request is being handled.
Settled(c) == /\ conn[c] = "open" /\ stream[c] = << >>
              /\ \A f \in Fetch : load[c][f] = NoLoad
              /\ \A r \in Req : task[r] = Free

\* A settled page is wrong about a job only if, since its stream was opened, the
\* job was dropped by a truncation, announced as new after it had left the
\* queue, announced between backlog and subscription, skipped by a full
\* channel, or contradicted by a reload that overtook its announcement: no
\* other interleaving of handlers, reloads and messages loses a row or leaves
\* one behind, and a new stream repairs all of them.
WrongForCause ==
    \A c \in Page : Settled(c) => Differ(rows[c], queue) \subseteq doubt[c]
=============================================================================
