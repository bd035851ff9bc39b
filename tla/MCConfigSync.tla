---------------------------- MODULE MCConfigSync ----------------------------
(* Small instances of ConfigSync for TLC. *)
EXTENDS ConfigSync

CONSTANTS agent_loop, r1

OneRefresh == {r1}
=============================================================================
