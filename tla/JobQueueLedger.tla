--------------------------- MODULE JobQueueLedger ---------------------------
(***************************************************************************)
(* JobQueue implements JobLedger: the stage of a job is read off the list  *)
(* that holds it.                                                          *)
(***************************************************************************)
EXTENDS JobQueue

StageIn(p, h) ==
    LET queued == Ids(p)
        closed == Ids(h)
    IN  [i \in JobId |-> CASE i \in queued -> "queued"
                           [] i \in closed \ queued -> "closed"
                           [] i \in evicted \ (queued \cup closed) -> "gone"
                           [] OTHER -> "none"]

Ledger == INSTANCE JobLedger WITH
    stage    <- StageIn(pending, history),
    durable  <- StageIn(disk.pending, disk.history),
    promised <- {a[1] : a \in acked}

\* Every behaviour of the queue, with handlers overlapping, hanging up and
\* restarting anywhere, is one of the ledger (save_jobs before every answer).
ImplementsLedger == Ledger!LSpec

\* A job that jobs.json has in its history never returns to the queue.
LedgerClosedStaysClosed == Ledger!ClosedStaysClosed
=============================================================================
