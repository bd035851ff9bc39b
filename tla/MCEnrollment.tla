---------------------------- MODULE MCEnrollment ----------------------------
(* Small instances of Enrollment for TLC. *)
EXTENDS Enrollment, TLC

CONSTANTS h1, h2, t1, t2

TwoHubs   == {h1, h2}
Tokens    == {t1, t2}
SharedOne == [h \in Hub |-> t1]
=============================================================================
