---------------------------- MODULE MCLifecycle ----------------------------
(* Small instances of Lifecycle for TLC. *)
EXTENDS Lifecycle

CONSTANTS s1, s2, s3

ThreeSlots == {s1, s2, s3}
=============================================================================
