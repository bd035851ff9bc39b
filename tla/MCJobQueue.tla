----------------------------- MODULE MCJobQueue -----------------------------
(* Small instances of JobQueue for TLC. *)
EXTENDS JobQueueChanges

CONSTANTS r1, r2, p1

TwoSlots == {r1, r2}
OneName  == {p1}

\* Handlers are interchangeable.
HandlerSymmetry == Permutations(TwoSlots)

NoFaults  == {}
\* A crash and a failing disk: the faults that jobs.json has to survive.
CrashDisk == {"crash", "disk"}
=============================================================================
