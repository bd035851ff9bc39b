-------------------------- MODULE MCJobQueueLedger --------------------------
(* Small instances of JobQueueLedger for TLC. *)
EXTENDS JobQueueLedger

CONSTANTS r1, r2, p1

TwoSlots == {r1, r2}
OneName  == {p1}

HandlerSymmetry == Permutations(TwoSlots)

NoDiskFault == AllFaults \ {"disk"}
=============================================================================
