---------------------------- MODULE MCEnvEditor ----------------------------
(* Small instances of EnvEditor for TLC. *)
EXTENDS EnvEditor

TwoPages   == {"p1", "p2"}
OneSecret  == {"s1"}
OnePrinter == {"LP1"}
OnePort    == {"8080"}
=============================================================================
