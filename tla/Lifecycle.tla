----------------------------- MODULE Lifecycle -----------------------------
(***************************************************************************)
(* Restarting and updating a node from its console (settings.rs, restart   *)
(* and update): the flag that admits one of them at a time, the tasks they *)
(* spawn, update.sh, the process's graceful shutdown, and systemd, which   *)
(* stops and starts the unit.                                              *)
(*                                                                         *)
(* systemd is external.  Stopping the unit terminates every process in its *)
(* control group, and so does cleaning up after a crash.  update.sh is a   *)
(* child of the service: it is in that group unless sudo opens a session   *)
(* for it.                                                                 *)
(***************************************************************************)
CONSTANT Slot  \* for requests whose task or script is still there

VARIABLES
    scope,           \* where update.sh runs on this host; never changes
    unit,            \* the unit as systemd has it
    again,           \* whether systemd starts the unit when it has stopped it
    proc,            \* the process
    update_running,  \* AppState.update_running
    task,            \* what the spawned tasks wait for
    script           \* where each update.sh is

nodeVars == <<scope, unit, again, proc, update_running, task, script>>

Step == {"none", "pull", "pause", "stopping", "install", "start"}

NodeInit ==
    /\ scope \in {"service", "session"}
    /\ unit = "active"
    /\ again = FALSE
    /\ proc = "up"
    /\ update_running = FALSE
    /\ task = [s \in Slot |-> "none"]
    /\ script = [s \in Slot |-> "none"]

Free(s) == task[s] = "none" /\ script[s] = "none"

-----------------------------------------------------------------------------
(* The handlers.  update_running.swap(true) admits one; the other gets a 409. *)

RestartRequest(s) ==
    /\ proc = "up" /\ Free(s)
    /\ ~update_running
    /\ update_running' = TRUE
    /\ task' = [task EXCEPT ![s] = "sleep"]
    /\ UNCHANGED <<scope, unit, again, proc, script>>

\* Mutant of UpdateRequest: the flag is set and not looked at.
UpdateUnguarded(s) ==
    /\ proc = "up" /\ Free(s)
    /\ update_running' = TRUE
    /\ task' = [task EXCEPT ![s] = "script"]
    /\ script' = [script EXCEPT ![s] = "pull"]
    /\ UNCHANGED <<scope, unit, again, proc>>

UpdateRequest(s) ==
    /\ proc = "up" /\ Free(s)
    /\ ~update_running
    /\ update_running' = TRUE
    /\ task' = [task EXCEPT ![s] = "script"]
    /\ script' = [script EXCEPT ![s] = "pull"]
    /\ UNCHANGED <<scope, unit, again, proc>>

-----------------------------------------------------------------------------
(* The spawned tasks, which live as long as the process *)

\* A stop job that a later job replaces, or that is done, lets its script go on.
StopReturns == [s \in Slot |-> IF script[s] = "stopping" THEN "install" ELSE script[s]]

\* After 2 s, sudo systemctl restart: systemd stops the unit and starts it.
RestartFires(s) ==
    /\ task[s] = "sleep"
    /\ unit' = "stopping"
    /\ again' = TRUE
    /\ task' = [task EXCEPT ![s] = "systemctl"]
    /\ script' = StopReturns
    /\ UNCHANGED <<scope, proc, update_running>>

\* Mutant of RestartRefused: the flag stays set.
RestartForgotten(s) ==
    /\ task[s] = "sleep"
    /\ task' = [task EXCEPT ![s] = "none"]
    /\ UNCHANGED <<scope, unit, again, proc, update_running, script>>

\* sudo cannot be spawned, or may not run systemctl.
RestartRefused(s) ==
    /\ task[s] = "sleep"
    /\ task' = [task EXCEPT ![s] = "none"]
    /\ update_running' = FALSE
    /\ UNCHANGED <<scope, unit, again, proc, script>>

\* output() returns: systemctl was terminated with the unit, or the script is over.
CommandReturns(s) ==
    /\ \/ task[s] = "systemctl" /\ proc = "draining"
       \/ task[s] = "script" /\ script[s] = "none"
    /\ task' = [task EXCEPT ![s] = "none"]
    /\ update_running' = FALSE
    /\ UNCHANGED <<scope, unit, again, proc, script>>

-----------------------------------------------------------------------------
(* update.sh *)

\* Source, web files and release are there.
ScriptReady(s) ==
    /\ script[s] = "pull"
    /\ script' = [script EXCEPT ![s] = "pause"]
    /\ UNCHANGED <<scope, unit, again, proc, update_running, task>>

\* set -e: sudo refuses, git or curl fails, the download is no binary.
ScriptFails(s) ==
    /\ script[s] = "pull"
    /\ script' = [script EXCEPT ![s] = "none"]
    /\ UNCHANGED <<scope, unit, again, proc, update_running, task>>

\* systemctl stop, which returns when the unit has stopped.
ScriptStop(s) ==
    /\ script[s] = "pause"
    /\ script' = [script EXCEPT ![s] = IF unit = "inactive" THEN "install" ELSE "stopping"]
    /\ unit' = IF unit = "inactive" THEN "inactive" ELSE "stopping"
    /\ again' = FALSE
    /\ UNCHANGED <<scope, proc, update_running, task>>

\* install replaces the binary, or fails and ends the script where it stands.
ScriptInstall(s) ==
    /\ script[s] = "install"
    /\ \E next \in {"start", "none"} : script' = [script EXCEPT ![s] = next]
    /\ UNCHANGED <<scope, unit, again, proc, update_running, task>>

\* Mutant of ScriptStart: try-restart, which does not start a unit that is stopped.
ScriptTryRestart(s) ==
    /\ script[s] = "start"
    /\ script' = [script EXCEPT ![s] = "none"]
    /\ unit' = IF unit = "inactive" THEN "inactive" ELSE "stopping"
    /\ again' = (unit # "inactive")
    /\ UNCHANGED <<scope, proc, update_running, task>>

\* systemctl start: nothing to do when the unit is active, and after the stop
\* when it is stopping.
ScriptStart(s) ==
    /\ script[s] = "start"
    /\ script' = [script EXCEPT ![s] = "none"]
    /\ unit' = IF unit = "inactive" THEN "active" ELSE unit
    /\ again' = IF unit = "stopping" THEN TRUE ELSE again
    /\ proc' = IF unit = "inactive" THEN "up" ELSE proc
    /\ UNCHANGED <<scope, update_running, task>>

-----------------------------------------------------------------------------
(* The process and systemd *)

\* Where processes are terminated with the unit, the scripts in its group go too.
WithGroup(scripts) ==
    IF scope = "service" THEN [s \in Slot |-> "none"] ELSE scripts

\* What the process had in memory is gone with it.
Forget == task' = [s \in Slot |-> "none"] /\ update_running' = FALSE

\* SIGTERM: shutdown_signal ends the accept loops; open event streams are waited for.
Terminate ==
    /\ unit = "stopping" /\ proc = "up"
    /\ proc' = "draining"
    /\ script' = WithGroup(script)
    /\ UNCHANGED <<scope, unit, again, update_running, task>>

\* Mutant of Exit: the flag is a lock file, which outlives the process.
ExitLeavesLock ==
    /\ proc = "draining"
    /\ proc' = "gone"
    /\ task' = [s \in Slot |-> "none"]
    /\ script' = WithGroup(script)
    /\ UNCHANGED <<scope, unit, again, update_running>>

\* The last connection is closed, or systemd's patience is over (SIGKILL).
Exit ==
    /\ proc = "draining"
    /\ proc' = "gone"
    /\ Forget
    /\ script' = WithGroup(script)
    /\ UNCHANGED <<scope, unit, again>>

\* Mutant of Stopped: a restart does not start.
StoppedForGood ==
    /\ unit = "stopping" /\ proc = "gone"
    /\ unit' = "inactive"
    /\ again' = FALSE
    /\ script' = StopReturns
    /\ UNCHANGED <<scope, proc, update_running, task>>

Stopped ==
    /\ unit = "stopping" /\ proc = "gone"
    /\ unit' = IF again THEN "active" ELSE "inactive"
    /\ proc' = IF again THEN "up" ELSE "gone"
    /\ again' = FALSE
    /\ script' = StopReturns
    /\ UNCHANGED <<scope, update_running, task>>

\* The process dies by itself.
Crash ==
    /\ unit = "active" /\ proc = "up"
    /\ proc' = "gone"
    /\ Forget
    /\ script' = WithGroup(script)
    /\ UNCHANGED <<scope, unit, again>>

\* Restart=on-failure.
AutoRestart ==
    /\ unit = "active" /\ proc = "gone"
    /\ proc' = "up"
    /\ UNCHANGED <<scope, unit, again, update_running, task, script>>

\* Somebody with a shell on the host.
StartByHand ==
    /\ unit = "inactive"
    /\ unit' = "active"
    /\ proc' = "up"
    /\ UNCHANGED <<scope, again, update_running, task, script>>

-----------------------------------------------------------------------------
Goes(s) ==
    \/ RestartFires(s) \/ RestartRefused(s) \/ CommandReturns(s)
    \/ ScriptReady(s) \/ ScriptFails(s) \/ ScriptStop(s)
    \/ ScriptInstall(s) \/ ScriptStart(s)

Systemd == Terminate \/ Exit \/ Stopped \/ AutoRestart

NodeNext ==
    \/ \E s \in Slot : RestartRequest(s) \/ UpdateRequest(s) \/ Goes(s)
    \/ Systemd
    \/ Crash \/ StartByHand

NodeSpec == NodeInit /\ [][NodeNext]_nodeVars

\* The spawned tasks, the script's commands and systemd get on with it; nobody
\* needs to send a request, and nobody starts the unit by hand.
NodeFairSpec ==
    /\ NodeSpec
    /\ WF_nodeVars(Systemd)
    /\ \A s \in Slot : WF_nodeVars(Goes(s))

-----------------------------------------------------------------------------
(* Properties *)

NodeTypeOK ==
    /\ scope \in {"service", "session"}
    /\ unit \in {"active", "stopping", "inactive"}
    /\ again \in BOOLEAN
    /\ proc \in {"up", "draining", "gone"}
    /\ update_running \in BOOLEAN
    /\ task \in [Slot -> {"none", "sleep", "systemctl", "script"}]
    /\ script \in [Slot -> Step]
    /\ unit = "inactive" => proc = "gone"
    /\ proc = "gone" => ~update_running /\ \A s \in Slot : task[s] = "none"

\* "update already in progress": one restart or update at a time.  Where the
\* script dies with the service, that holds across crashes and restarts too,
\* although the flag does not outlive the process; a script with a session of
\* its own survives a crash, and the new process does not know of it.
OneAtATime ==
    scope = "service" => \A s, t \in Slot : ~Free(s) /\ ~Free(t) => s = t

\* The flag is released, whatever fails: no operator is refused for ever.
FlagReleased == update_running ~> ~update_running

\* The node is up, or another update has stopped it and goes on from there.
BackBut(s) ==
    \/ unit = "active" /\ proc = "up"
    \/ \E t \in Slot \ {s} : script[t] = "install"

\* restart(): a restart that was accepted ends with the node up, whether or not
\* sudo refuses, the process drains slowly or crashes first, or a script that
\* outlived a crash stops the unit at the same time.
RestartReturns == \A s \in Slot : task[s] = "sleep" ~> BackBut(s) /\ task[s] = "none"

\* update.sh, "updated and running": once the binary is installed the node comes
\* up, in whatever state the script's systemctl start finds the unit.
InstalledReturns == \A s \in Slot : script[s] = "start" ~> BackBut(s)
=============================================================================
