----------------------------- MODULE ConfigSync -----------------------------
(***************************************************************************)
(* Desired configuration: from the control plane's node_config row to the  *)
(* memory and the files of one enrolled node.                              *)
(*                                                                         *)
(* The agent's loop pulls after each heartbeat; every POST of the refresh  *)
(* route pulls as well, in a task of its own.  They meet in apply_config,  *)
(* which compares versions and changes memory in one critical section and  *)
(* writes config.json after it, with no lock held.  A file that cannot be  *)
(* written is logged and the handler goes on; one that cannot be read back *)
(* counts as none.                                                         *)
(*                                                                         *)
(* What a configuration contains is told apart by the version that brought *)
(* it: printers, settings, a secret or a public URL with the number v were *)
(* sent with version v, and 0 stands for the node's own value: of `.env`,  *)
(* or edited on the console.  In a configuration, a secret or URL of 0 is  *)
(* one that the control plane left empty.                                  *)
(***************************************************************************)
EXTENDS Naturals, Sequences

CONSTANTS
    Refresh,      \* slots for refresh requests handled at the same time
    Agent,        \* the agent's loop
    MaxVersion,   \* bound: versions issued in a behaviour
    MaxRestarts,  \* bound: restarts in a behaviour
    MaxEdits,     \* bound: console edits in a behaviour
    MaxErrors     \* bound: writes and reads of files that fail in a behaviour

ASSUME ConfigAssumption ==
    /\ Agent \notin Refresh
    /\ MaxVersion \in Nat \ {0}
    /\ MaxRestarts \in Nat
    /\ MaxEdits \in Nat
    /\ MaxErrors \in Nat

Puller == Refresh \cup {Agent}

Version == 0..MaxVersion

NodeConfig == [version : 1..MaxVersion, secret : Version, public_url : Version]

\* printers.json, settings.json
File == {"printers", "settings"}

Memory == [config_version : Version, printers : Version, settings : Version,
           secret : Version, public_url : Version]

None == [version |-> 0]

\* A file that does not parse: cut short, or two contents over each other.
Torn == [version |-> 0, torn |-> TRUE]

VARIABLES
    issued,    \* what node_config was at each version; the row is the last
    mem,       \* the part of Store that a configuration sets
    cache,     \* config.json
    tmp,       \* config.tmp
    files,     \* printers.json and settings.json
    unsaved,   \* console edits in memory whose handler has not saved yet
    pc,        \* per puller
    resp,      \* per puller: the configuration it was sent and has yet to write
    beat,      \* the version in the heartbeat on its way
    reported,  \* nodes.config_version
    restarts, edits, errors,
    \* Why config.json need not have the configuration in force; no action reads
    \* these.
    raced,     \* it was applied while another was still being written
    failed     \* a write since it was applied, or the read at the start, failed

ghosts == <<raced, failed>>
bounds == <<restarts, edits, errors>>

vars == <<issued, mem, cache, tmp, files, unsaved, pc, resp, beat, reported, bounds, ghosts>>

control == <<issued, reported>>
node    == <<mem, cache, tmp, files, unsaved, ghosts>>
agent   == <<pc, resp, beat>>

node_config == issued[Len(issued)]

Goto(p, l) == pc' = [pc EXCEPT ![p] = l]

\* The pull is over; its answer, if there is one, is dropped.
Finish(p) == Goto(p, "idle") /\ resp' = [resp EXCEPT ![p] = None]

-----------------------------------------------------------------------------
\* Mutant of Init: the row starts at the default version.
InitVersionZero ==
    /\ issued = <<[version |-> 0, secret |-> 1, public_url |-> 0]>>
    /\ mem = [config_version |-> 0, printers |-> 0, settings |-> 0,
              secret |-> 0, public_url |-> 0]
    /\ cache = None
    /\ tmp = None
    /\ files = [f \in File |-> 0]
    /\ unsaved = {}
    /\ pc = [p \in Puller |-> "idle"]
    /\ resp = [p \in Puller |-> None]
    /\ beat = 0
    /\ reported = 0
    /\ restarts = 0
    /\ edits = 0
    /\ errors = 0
    /\ raced = FALSE
    /\ failed = FALSE

\* Enrollment leaves version 1: no printers, the default settings, a secret of
\* its own and no URL.  The node has its credentials and no configuration yet.
Init ==
    /\ issued = <<[version |-> 1, secret |-> 1, public_url |-> 0]>>
    /\ mem = [config_version |-> 0, printers |-> 0, settings |-> 0,
              secret |-> 0, public_url |-> 0]
    /\ cache = None
    /\ tmp = None
    /\ files = [f \in File |-> 0]
    /\ unsaved = {}
    /\ pc = [p \in Puller |-> "idle"]
    /\ resp = [p \in Puller |-> None]
    /\ beat = 0
    /\ reported = 0
    /\ restarts = 0
    /\ edits = 0
    /\ errors = 0
    /\ raced = FALSE
    /\ failed = FALSE

-----------------------------------------------------------------------------
(* The control plane *)

\* update_config: one UPDATE raises the version, replaces printers, settings and
\* URL, and keeps the secret, rotates it or sets it, to the empty one as well.
UpdateConfig(secret, public_url) ==
    LET v == Len(issued) + 1
    IN  /\ v <= MaxVersion
        /\ secret \in {0, node_config.secret, v}
        /\ public_url \in {0, v}
        /\ issued' = Append(issued, [version    |-> v,
                                     secret     |-> secret,
                                     public_url |-> public_url])
        /\ UNCHANGED <<node, agent, reported, bounds>>

-----------------------------------------------------------------------------
(* heartbeat_and_sync and refresh_now *)

\* The heartbeat carries the version that memory has now.
HeartbeatSend ==
    /\ pc[Agent] = "idle"
    /\ beat' = mem.config_version
    /\ Goto(Agent, "beat")
    /\ UNCHANGED <<control, node, resp, bounds>>

\* The row of the node is updated; the pull follows.
HeartbeatServed ==
    /\ pc[Agent] = "beat"
    /\ reported' = beat
    /\ beat' = 0
    /\ Goto(Agent, "pull")
    /\ UNCHANGED <<issued, node, resp, bounds>>

\* No answer, or 401: the loop sleeps.  Any other answer lets the pull follow.
HeartbeatFails ==
    /\ pc[Agent] = "beat"
    /\ \E l \in {"idle", "pull"} : Goto(Agent, l)
    /\ beat' = 0
    /\ UNCHANGED <<control, node, resp, bounds>>

RefreshNow(p) ==
    /\ pc[p] = "idle"
    /\ Goto(p, "pull")
    /\ UNCHANGED <<control, node, resp, beat, bounds>>

\* get_config reads the row as it is now.
PullServed(p) ==
    /\ pc[p] = "pull"
    /\ resp' = [resp EXCEPT ![p] = node_config]
    /\ Goto(p, "apply")
    /\ UNCHANGED <<control, node, beat, bounds>>

PullFails(p) ==
    /\ pc[p] = "pull"
    /\ Goto(p, "idle")
    /\ UNCHANGED <<control, node, resp, beat, bounds>>

-----------------------------------------------------------------------------
(* apply_config *)

\* apply_config_to_store: empty values leave what is there.
Overlay(m, cfg) ==
    [config_version |-> cfg.version,
     printers       |-> cfg.version,
     settings       |-> cfg.version,
     secret         |-> IF cfg.secret # 0 THEN cfg.secret ELSE m.secret,
     public_url     |-> IF cfg.public_url # 0 THEN cfg.public_url ELSE m.public_url]

NotNewer(p) == resp[p].version <= mem.config_version /\ mem.config_version # 0

OtherWrites(p) == \E q \in Puller \ {p} : pc[q] \in {"stage", "rename"}

\* Mutant of Apply: versions are not compared.
ApplyAny(p) ==
    /\ pc[p] = "apply"
    /\ mem' = Overlay(mem, resp[p])
    /\ raced' = OtherWrites(p)
    /\ failed' = FALSE
    /\ Goto(p, "stage")
    /\ UNCHANGED <<control, cache, tmp, files, unsaved, resp, beat, bounds>>

\* Mutant of Apply: the next version counts as the current one.
ApplySkipsNext(p) ==
    /\ pc[p] = "apply"
    /\ IF resp[p].version <= mem.config_version + 1 /\ mem.config_version # 0
       THEN Finish(p) /\ UNCHANGED <<mem, ghosts>>
       ELSE /\ mem' = Overlay(mem, resp[p])
            /\ raced' = OtherWrites(p)
            /\ failed' = FALSE
            /\ Goto(p, "stage")
            /\ UNCHANGED resp
    /\ UNCHANGED <<control, cache, tmp, files, unsaved, beat, bounds>>

\* The critical section: compare, then change memory.
Apply(p) ==
    /\ pc[p] = "apply"
    /\ IF NotNewer(p)
       THEN Finish(p) /\ UNCHANGED <<mem, ghosts>>
       ELSE /\ mem' = Overlay(mem, resp[p])
            /\ raced' = OtherWrites(p)
            /\ failed' = FALSE
            /\ Goto(p, "stage")
            /\ UNCHANGED resp
    /\ UNCHANGED <<control, cache, tmp, files, unsaved, beat, bounds>>

\* A write or a read of a file fails.
DiskError ==
    /\ errors < MaxErrors
    /\ errors' = errors + 1

\* write_json, first half: config.tmp, shared by all writers, whose bytes may end
\* up over each other.  When it cannot be opened or only a part is written, the
\* rename is left out.
StageCache(p) ==
    /\ pc[p] = "stage"
    /\ \/ /\ tmp' = resp[p] \/ (OtherWrites(p) /\ tmp' = Torn)
          /\ Goto(p, "rename")
          /\ UNCHANGED <<failed, errors>>
       \/ /\ tmp' \in {tmp, Torn}
          /\ Goto(p, "printers")
          /\ DiskError
          /\ failed' = TRUE
    /\ resp' = [resp EXCEPT ![p] = None]
    /\ UNCHANGED <<control, mem, cache, files, unsaved, beat, restarts, edits, raced>>

\* write_json, second half.  The rename fails with config.tmp already renamed by
\* another writer, or for a reason of the disk's.
RenameCache(p) ==
    /\ pc[p] = "rename"
    /\ \/ /\ tmp # None
          /\ cache' = IF tmp = Torn THEN None ELSE tmp
          /\ tmp' = None
          /\ UNCHANGED <<failed, errors>>
       \/ /\ (tmp = None /\ UNCHANGED errors) \/ DiskError
          /\ failed' = TRUE
          /\ UNCHANGED <<cache, tmp>>
    /\ Goto(p, "printers")
    /\ UNCHANGED <<control, mem, files, unsaved, resp, beat, restarts, edits, raced>>

\* write_json under the lock writes what memory has by now, or fails.
WriteFile(f) ==
    \/ files' = [files EXCEPT ![f] = mem[f]] /\ UNCHANGED errors
    \/ DiskError /\ UNCHANGED files

\* save_printers, save_settings.
SaveFile(p, f) ==
    /\ pc[p] = f
    /\ WriteFile(f)
    /\ Goto(p, IF f = "printers" THEN "settings" ELSE "idle")
    /\ UNCHANGED <<control, mem, cache, tmp, unsaved, resp, beat, restarts, edits, ghosts>>

-----------------------------------------------------------------------------
(* The console and the process *)

\* printers::upsert and remove, settings::put: the change in memory ...
ConsoleEdit(f) ==
    /\ edits < MaxEdits
    /\ edits' = edits + 1
    /\ mem' = [mem EXCEPT ![f] = 0]
    /\ unsaved' = unsaved \cup {f}
    /\ UNCHANGED <<control, cache, tmp, files, agent, restarts, errors, ghosts>>

\* ... and the save after it.
ConsoleSave(f) ==
    /\ f \in unsaved
    /\ WriteFile(f)
    /\ unsaved' = unsaved \ {f}
    /\ UNCHANGED <<control, mem, cache, tmp, agent, restarts, edits, ghosts>>

\* Mutant of HangupRefresh: writing config.json is something that it can wait for.
HangupAnywhere(p) ==
    /\ pc[p] # "idle"
    /\ Finish(p)
    /\ UNCHANGED <<control, node, beat, bounds>>

\* The client of a refresh or of an edit goes away where its handler waits.
HangupRefresh(p) ==
    /\ pc[p] \in {"pull", "apply", "printers", "settings"}
    /\ Finish(p)
    /\ UNCHANGED <<control, node, beat, bounds>>

HangupEdit(f) ==
    /\ f \in unsaved
    /\ unsaved' = unsaved \ {f}
    /\ UNCHANGED <<control, mem, cache, tmp, files, agent, bounds, ghosts>>

\* AppState::new: `.env` and the two files ...
FromDisk ==
    [config_version |-> 0, printers |-> files["printers"],
     settings |-> files["settings"], secret |-> 0, public_url |-> 0]

\* Mutant of Restart: the version of config.json is taken over without the rest.
RestartVersionOnly ==
    /\ restarts < MaxRestarts
    /\ restarts' = restarts + 1
    /\ mem' = [FromDisk EXCEPT !.config_version = cache.version]
    /\ unsaved' = {}
    /\ pc' = [p \in Puller |-> "idle"]
    /\ resp' = [p \in Puller |-> None]
    /\ beat' = 0
    /\ raced' = FALSE
    /\ failed' = FALSE
    /\ UNCHANGED <<control, cache, tmp, files, edits, errors>>

\* ... then the cached configuration over them.  One that cannot be read counts as
\* none, and any other file as the defaults.
Restart ==
    /\ restarts < MaxRestarts
    /\ restarts' = restarts + 1
    /\ \/ /\ mem' = IF cache # None THEN Overlay(FromDisk, cache) ELSE FromDisk
          /\ failed' = FALSE
          /\ UNCHANGED errors
       \/ /\ mem' = FromDisk
          /\ failed' = TRUE
          /\ DiskError
       \/ /\ cache = None
          /\ \E f \in File : mem' = [FromDisk EXCEPT ![f] = 0]
          /\ failed' = FALSE
          /\ DiskError
    /\ unsaved' = {}
    /\ pc' = [p \in Puller |-> "idle"]
    /\ resp' = [p \in Puller |-> None]
    /\ beat' = 0
    /\ raced' = FALSE
    /\ UNCHANGED <<control, cache, tmp, files, edits>>

-----------------------------------------------------------------------------
\* What a pull does once it has an answer.
Continue(p) == \/ Apply(p)
               \/ StageCache(p)
               \/ RenameCache(p)
               \/ \E f \in File : SaveFile(p, f)

Pull(p) == PullServed(p) \/ PullFails(p) \/ Continue(p)

Next ==
    \/ \E s, u \in Version : UpdateConfig(s, u)
    \/ HeartbeatSend \/ HeartbeatServed \/ HeartbeatFails
    \/ \E p \in Puller : Pull(p)
    \/ \E p \in Refresh : RefreshNow(p) \/ HangupRefresh(p)
    \/ \E f \in File : ConsoleEdit(f) \/ ConsoleSave(f) \/ HangupEdit(f)
    \/ Restart

Spec == Init /\ [][Next]_vars

\* The agent's loop never ends, and the control plane answers again and again
\* (not always): strong fairness of the two exchanges, weak of everything local.
FairSpec ==
    /\ Spec
    /\ WF_vars(HeartbeatSend)
    /\ SF_vars(HeartbeatServed)
    /\ SF_vars(PullServed(Agent))
    /\ WF_vars(Continue(Agent))

-----------------------------------------------------------------------------
(* Properties *)

TypeOK ==
    /\ issued \in Seq(NodeConfig)
    /\ Len(issued) \in 1..MaxVersion
    /\ mem \in Memory
    /\ cache \in NodeConfig \cup {None}
    /\ tmp \in NodeConfig \cup {None, Torn}
    /\ files \in [File -> Version]
    /\ unsaved \in SUBSET File
    /\ pc \in [Puller -> {"idle", "beat", "pull", "apply", "stage", "rename"} \cup File]
    /\ resp \in [Puller -> NodeConfig \cup {None}]
    /\ beat \in Version
    /\ reported \in Version
    /\ restarts \in 0..MaxRestarts
    /\ edits \in 0..MaxEdits
    /\ errors \in 0..MaxErrors
    /\ raced \in BOOLEAN
    /\ failed \in BOOLEAN

\* A node that says it runs version v runs v whole: printers and settings of v
\* unless the console edited them, and the secret and URL of v where v has any.
\* It is never a mixture of versions, whichever pulls overlap, whatever the files
\* held and wherever the process stopped.
RunsOneVersion ==
    mem.config_version # 0 =>
        LET cfg == issued[mem.config_version]
        IN  /\ mem.printers \in {0, cfg.version}
            /\ mem.settings \in {0, cfg.version}
            /\ cfg.secret # 0 => mem.secret = cfg.secret
            /\ cfg.public_url # 0 => mem.public_url = cfg.public_url

\* proto: "Monotonic version; the node applies a config only when this
\* increases."  A late answer never takes a running node back.
OnlyForward ==
    [][mem'.config_version >= mem.config_version \/ restarts' # restarts]_vars

\* state.rs: "so the node restarts with last-known state".  With nobody about to
\* write it, config.json has the version that the node runs, whichever handlers
\* hang up and wherever the process stopped, but for three causes that nothing
\* tells the control plane of: the last configuration was applied while another
\* was still being written (apply_config writes with no lock held, and the older
\* one may reach the disk last), the write of it failed, which is only logged, or
\* the start could not read the file.  The next configuration repairs all of
\* them, and after a start without one so does the next pull.
CacheFollows ==
    ~raced /\ ~failed /\ (\A p \in Puller : pc[p] \notin {"stage", "rename"})
        => cache.version = mem.config_version

\* Once nobody edits the configuration and the process stays up, the node ends up
\* with the desired version and the dashboard without drift, through failed
\* pulls, refreshes that hang up and answers that overtake each other.
Converges ==
    <>[](mem.config_version = Len(issued) /\ reported = Len(issued))
=============================================================================
