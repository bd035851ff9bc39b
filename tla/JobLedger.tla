------------------------------ MODULE JobLedger ------------------------------
(***************************************************************************)
(* What the print queue promises its callers, without lists, handlers or   *)
(* locks: a write-behind ledger of job stages.  Memory runs ahead of the   *)
(* disk, a restart falls back to the disk, and an answer is only given for *)
(* what the disk has.  JobQueueLedger shows that JobQueue implements it.   *)
(***************************************************************************)
EXTENDS Naturals

CONSTANT JobId

\* "none": not accepted yet; "gone": dropped by a truncation.
Stage == {"none", "queued", "closed", "gone"}

VARIABLES
    stage,    \* of every job, in memory
    durable,  \* of every job, on disk
    promised  \* jobs whose caller has a 200

lvars == <<stage, durable, promised>>

LInit == /\ stage = [i \in JobId |-> "none"]
         /\ durable = [i \in JobId |-> "none"]
         /\ promised = {}

\* A new label is held, or printed at once, or refused and remembered.
Enter(i) == /\ stage[i] = "none"
            /\ \E s \in {"queued", "closed"} : stage' = [stage EXCEPT ![i] = s]
            /\ UNCHANGED <<durable, promised>>

\* A job is closed once printed or dismissed.  A release that was under way when
\* the job was dropped still files it.
Close(i) == /\ stage[i] \in {"queued", "gone"}
            /\ stage' = [stage EXCEPT ![i] = "closed"]
            /\ UNCHANGED <<durable, promised>>

\* Drop what no longer fits and write the rest.
Flush == \E dropped \in SUBSET {i \in JobId : stage[i] \in {"queued", "closed"}} :
            /\ stage' = [i \in JobId |-> IF i \in dropped THEN "gone" ELSE stage[i]]
            /\ durable' = stage'
            /\ UNCHANGED promised

Promise(i) == /\ durable[i] # "none"
              /\ promised' = promised \cup {i}
              /\ UNCHANGED <<stage, durable>>

Recover == /\ stage' = durable
           /\ UNCHANGED <<durable, promised>>

LNext == \/ \E i \in JobId : Enter(i) \/ Close(i) \/ Promise(i)
         \/ Flush
         \/ Recover

LSpec == LInit /\ [][LNext]_lvars

-----------------------------------------------------------------------------
\* A closed job never goes back to the queue once its closing is on disk.
ClosedStaysClosed ==
    [][ \A i \in JobId : durable[i] = "closed" => durable'[i] \in {"closed", "gone"}
                                                  /\ stage'[i] # "queued" ]_lvars
=============================================================================
