----------------------------- MODULE MCConsole -----------------------------
(* Small instances of Console for TLC. *)
EXTENDS Console

CONSTANTS r1, r2, j1, j2, c1, f1, f2

TwoSlots == {r1, r2}
TwoJobs  == {j1, j2}
OnePage  == {c1}
TwoLoads == {f1, f2}

\* Handlers, jobs and requests are interchangeable.
Symmetry == Permutations(TwoSlots) \cup Permutations(TwoJobs) \cup Permutations(TwoLoads)
=============================================================================
