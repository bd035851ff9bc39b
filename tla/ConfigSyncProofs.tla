-------------------------- MODULE ConfigSyncProofs --------------------------
(***************************************************************************)
(* For any number of overlapping pulls: a node runs one version whole and  *)
(* never goes back, and config.json follows memory unless two              *)
(* configurations are written at a time or the disk fails.                 *)
(***************************************************************************)
EXTENDS ConfigSync, TLAPS

\* A configuration that is held anywhere is one that was issued.
Issued(c) == c.version \in 1..Len(issued) /\ c = issued[c.version]

IssuedInOrder == \A v \in 1..Len(issued) : issued[v].version = v

OnlyIssued ==
    /\ cache # None => Issued(cache)
    /\ tmp \in NodeConfig => Issued(tmp)
    /\ \A p \in Puller : resp[p] # None => Issued(resp[p])

Answered == \A p \in Puller : pc[p] \in {"apply", "stage"} => resp[p] # None

SyncInv ==
    /\ TypeOK
    /\ IssuedInOrder
    /\ OnlyIssued
    /\ Answered
    /\ mem.config_version <= Len(issued)
    /\ RunsOneVersion

-----------------------------------------------------------------------------
\* A configuration is never the empty value.
LEMMA ConfigIsSome == \A c \in NodeConfig : c # None /\ c # Torn /\ c.version # 0
BY ConfigAssumption DEF NodeConfig, None, Torn

\* The two contents that are no configuration.
LEMMA NoConfig == None \notin NodeConfig /\ Torn \notin NodeConfig /\ Torn # None
BY ConfigAssumption DEF NodeConfig, None, Torn

\* The initial state satisfies the invariant.
LEMMA SyncInvInit == Init => SyncInv
<1> SUFFICES ASSUME Init PROVE SyncInv
  OBVIOUS
<1>1. Len(issued) = 1 /\ issued \in Seq(NodeConfig) /\ issued[1].version = 1
  BY ConfigAssumption DEF Init, NodeConfig, Version
<1>2. TypeOK
  <2>1. /\ mem \in Memory /\ cache = None /\ tmp = None /\ unsaved = {}
        /\ beat \in Version /\ reported \in Version /\ restarts \in 0..MaxRestarts
        /\ edits \in 0..MaxEdits /\ errors \in 0..MaxErrors
        /\ files \in [File -> Version]
    BY ConfigAssumption DEF Init, Memory, Version
  <2>2. pc = [p \in Puller |-> "idle"] /\ resp = [p \in Puller |-> None]
        /\ raced \in BOOLEAN /\ failed \in BOOLEAN
    BY DEF Init
  <2>. QED BY <1>1, <2>1, <2>2, ConfigAssumption DEF TypeOK
<1>3. IssuedInOrder
  BY <1>1 DEF IssuedInOrder
<1>4. OnlyIssued /\ Answered
  BY NoConfig DEF Init, OnlyIssued, Answered
<1>5. mem.config_version = 0 /\ RunsOneVersion
  BY DEF Init, RunsOneVersion
<1>. QED BY <1>1, <1>2, <1>3, <1>4, <1>5 DEF SyncInv

\* What a configuration brings is well typed and whole.
LEMMA OverlayIsWhole ==
    ASSUME TypeOK, IssuedInOrder, NEW c \in NodeConfig, Issued(c),
           NEW m \in Memory, mem' = Overlay(m, c), issued' = issued
    PROVE  /\ mem' \in Memory
           /\ mem'.config_version = c.version
           /\ mem'.config_version <= Len(issued)
           /\ RunsOneVersion'
<1>1. /\ c.version \in 1..MaxVersion /\ c.secret \in Version
      /\ c.public_url \in Version /\ c.version \in Version
  BY ConfigAssumption DEF NodeConfig, Version
<1>2. mem' \in Memory /\ mem'.config_version = c.version
  BY <1>1 DEF Overlay, Memory
<1>3. c = issued[c.version] /\ c.version <= Len(issued)
  BY <1>1, ConfigAssumption DEF Issued, TypeOK
<1>4. RunsOneVersion'
  BY <1>1, <1>2, <1>3 DEF RunsOneVersion, Overlay
<1>. QED BY <1>2, <1>3, <1>4

\* A failure is counted within its bound.
LEMMA ErrorsCounted ==
    ASSUME TypeOK, errors' = errors \/ DiskError
    PROVE  errors' \in 0..MaxErrors
BY ConfigAssumption DEF DiskError, TypeOK

\* A file of the console has what memory had, or what it had before.
LEMMA FileWritten ==
    ASSUME TypeOK, NEW f \in File, WriteFile(f)
    PROVE  files' \in [File -> Version] /\ errors' \in 0..MaxErrors
<1>1. mem[f] \in Version
  BY DEF TypeOK, Memory, File
<1>2. errors' = errors \/ DiskError
  BY DEF WriteFile
<1>. QED BY <1>1, <1>2, ErrorsCounted DEF WriteFile, TypeOK

\* Every step keeps the invariant.
LEMMA SyncInvNext == SyncInv /\ [Next]_vars => SyncInv'
<1> SUFFICES ASSUME SyncInv, [Next]_vars PROVE SyncInv'
  OBVIOUS
<1> USE DEF SyncInv
<1>a. /\ \A p \in Puller : pc[p] = "apply" \/ pc[p] = "stage" =>
             resp[p] \in NodeConfig /\ Issued(resp[p])
      /\ mem \in Memory /\ Len(issued) \in 1..MaxVersion
  BY DEF TypeOK, OnlyIssued, Answered
<1>1. ASSUME NEW s \in Version, NEW u \in Version, UpdateConfig(s, u) PROVE SyncInv'
  <2> DEFINE v == Len(issued) + 1
             c == [version |-> v, secret |-> s, public_url |-> u]
  <2>1. c \in NodeConfig /\ issued' = Append(issued, c) /\ v <= MaxVersion
    BY <1>1, <1>a, ConfigAssumption DEF UpdateConfig, NodeConfig
  <2>2. /\ issued' \in Seq(NodeConfig) /\ Len(issued') = v
        /\ \A i \in 1..Len(issued) : issued'[i] = issued[i]
        /\ issued'[v] = c
    BY <2>1 DEF TypeOK
  <2>3. UNCHANGED <<mem, cache, tmp, files, unsaved, pc, resp, beat, reported, restarts, edits, errors, raced, failed>>
    BY <1>1 DEF UpdateConfig, node, agent, bounds, ghosts
  <2>4. TypeOK'
    BY <2>1, <2>2, <2>3, <1>a, ConfigAssumption DEF TypeOK
  <2>5. IssuedInOrder'
    BY <2>2, <1>a DEF IssuedInOrder
  <2>6. OnlyIssued' /\ Answered'
    BY <2>2, <2>3, <1>a DEF OnlyIssued, Answered, Issued
  <2>7. RunsOneVersion' /\ (mem.config_version <= Len(issued))'
    BY <2>2, <2>3, <1>a DEF RunsOneVersion, Memory, Version
  <2>. QED BY <2>4, <2>5, <2>6, <2>7
<1>2. CASE HeartbeatSend \/ HeartbeatServed \/ HeartbeatFails
  <2>1. /\ UNCHANGED <<issued, mem, cache, tmp, files, unsaved, resp, restarts, edits, errors, raced, failed>>
        /\ \E l \in {"idle", "beat", "pull"} : pc' = [pc EXCEPT ![Agent] = l]
        /\ beat' \in Version /\ reported' \in Version
    BY <1>2, ConfigAssumption
       DEF HeartbeatSend, HeartbeatServed, HeartbeatFails, Goto, TypeOK, Memory, Version,
           control, node, bounds, ghosts
  <2>2. TypeOK' /\ Answered'
    BY <2>1 DEF TypeOK, Answered, Puller
  <2>. QED BY <2>1, <2>2 DEF IssuedInOrder, OnlyIssued, Issued, RunsOneVersion
<1>3. ASSUME NEW p \in Puller,
             RefreshNow(p) \/ PullFails(p) \/ HangupRefresh(p)
      PROVE  SyncInv'
  <2>1. /\ UNCHANGED <<issued, reported, mem, cache, tmp, files, unsaved, beat, restarts, edits, errors, raced, failed>>
        /\ \E l \in {"idle", "pull"} : pc' = [pc EXCEPT ![p] = l]
        /\ resp' = resp \/ resp' = [resp EXCEPT ![p] = None]
    BY <1>3 DEF RefreshNow, PullFails, HangupRefresh, Finish, Goto, control, node, bounds, ghosts
  <2>2. TypeOK' /\ Answered' /\ OnlyIssued'
    BY <2>1 DEF TypeOK, Answered, OnlyIssued, Issued
  <2>. QED BY <2>1, <2>2 DEF IssuedInOrder, RunsOneVersion
<1>4. ASSUME NEW p \in Puller, PullServed(p) PROVE SyncInv'
  <2>1. /\ UNCHANGED <<issued, reported, mem, cache, tmp, files, unsaved, beat, restarts, edits, errors, raced, failed>>
        /\ pc' = [pc EXCEPT ![p] = "apply"]
        /\ resp' = [resp EXCEPT ![p] = node_config]
    BY <1>4 DEF PullServed, Goto, control, node, bounds, ghosts
  <2>2. node_config \in NodeConfig /\ Issued(node_config)
    BY <1>a DEF node_config, TypeOK, Issued, IssuedInOrder
  <2>3. TypeOK' /\ Answered' /\ OnlyIssued'
    BY <2>1, <2>2, ConfigIsSome DEF TypeOK, Answered, OnlyIssued, Issued
  <2>. QED BY <2>1, <2>3 DEF IssuedInOrder, RunsOneVersion
<1>5. ASSUME NEW p \in Puller, Apply(p) PROVE SyncInv'
  <2>1. UNCHANGED <<issued, reported, cache, tmp, files, unsaved, beat, restarts, edits, errors>>
    BY <1>5 DEF Apply, control, bounds
  <2>2. CASE NotNewer(p)
    <3>1. UNCHANGED <<mem, raced, failed>> /\ pc' = [pc EXCEPT ![p] = "idle"]
          /\ resp' = [resp EXCEPT ![p] = None]
      BY <1>5, <2>2 DEF Apply, Finish, Goto, ghosts
    <3>2. TypeOK' /\ Answered' /\ OnlyIssued'
      BY <2>1, <3>1 DEF TypeOK, Answered, OnlyIssued, Issued
    <3>. QED BY <2>1, <3>1, <3>2 DEF IssuedInOrder, RunsOneVersion
  <2>3. CASE ~NotNewer(p)
    <3>1. mem' = Overlay(mem, resp[p]) /\ UNCHANGED resp
          /\ pc' = [pc EXCEPT ![p] = "stage"] /\ raced' \in BOOLEAN /\ failed' \in BOOLEAN
      BY <1>5, <2>3 DEF Apply, Goto, OtherWrites
    <3>2. resp[p] \in NodeConfig /\ Issued(resp[p]) /\ pc[p] = "apply"
      BY <1>5, <1>a DEF Apply
    <3>3. /\ mem' \in Memory /\ mem'.config_version <= Len(issued)
          /\ RunsOneVersion'
      BY <1>a, <2>1, <3>1, <3>2, OverlayIsWhole
    <3>4. TypeOK' /\ Answered' /\ OnlyIssued'
      BY <2>1, <3>1, <3>2, <3>3, ConfigIsSome DEF TypeOK, Answered, OnlyIssued, Issued
    <3>. QED BY <2>1, <3>3, <3>4 DEF IssuedInOrder
  <2>. QED BY <2>2, <2>3
<1>6. ASSUME NEW p \in Puller, StageCache(p) \/ RenameCache(p) PROVE SyncInv'
  <2>1. /\ UNCHANGED <<issued, reported, mem, files, unsaved, beat, restarts, edits, raced>>
        /\ \E l \in {"rename", "printers"} : pc' = [pc EXCEPT ![p] = l]
        /\ resp' = resp \/ resp' = [resp EXCEPT ![p] = None]
    BY <1>6 DEF StageCache, RenameCache, Goto, control
  <2>2. cache' \in {cache, None} \/ (tmp \in NodeConfig /\ cache' = tmp)
    BY <1>6 DEF StageCache, RenameCache, TypeOK
  <2>3. tmp' \in {None, Torn, tmp, resp[p]}
    BY <1>6 DEF StageCache, RenameCache
  <2>4. failed' \in BOOLEAN /\ errors' \in 0..MaxErrors
    <3>1. failed' = failed \/ failed' = TRUE
      BY <1>6 DEF StageCache, RenameCache
    <3>2. errors' = errors \/ DiskError
      BY <1>6 DEF StageCache, RenameCache
    <3>. QED BY <3>1, <3>2, ErrorsCounted DEF TypeOK
  <2>5. TypeOK'
    BY <2>1, <2>2, <2>3, <2>4 DEF TypeOK, File
  <2>6. OnlyIssued' /\ Answered'
    BY <2>1, <2>2, <2>3, NoConfig DEF TypeOK, Answered, OnlyIssued, Issued, File
  <2>. QED BY <2>1, <2>5, <2>6 DEF IssuedInOrder, RunsOneVersion
<1>7. ASSUME NEW p \in Puller, NEW f \in File, SaveFile(p, f) PROVE SyncInv'
  <2>1. /\ UNCHANGED <<issued, reported, mem, cache, tmp, unsaved, resp, beat, restarts, edits,
                       raced, failed>>
        /\ \E l \in {"idle", "settings"} : pc' = [pc EXCEPT ![p] = l]
    BY <1>7 DEF SaveFile, Goto, control, File, ghosts
  <2>2. files' \in [File -> Version] /\ errors' \in 0..MaxErrors
    BY <1>7, FileWritten DEF SaveFile
  <2>3. TypeOK' /\ Answered' /\ OnlyIssued'
    BY <2>1, <2>2 DEF TypeOK, Answered, OnlyIssued, Issued, File
  <2>. QED BY <2>1, <2>3 DEF IssuedInOrder, RunsOneVersion
<1>8. ASSUME NEW f \in File, ConsoleEdit(f) PROVE SyncInv'
  <2>1. /\ UNCHANGED <<issued, reported, cache, tmp, files, pc, resp, beat, restarts, errors,
                       raced, failed>>
        /\ mem' = [mem EXCEPT ![f] = 0] /\ unsaved' \in SUBSET File
        /\ edits' \in 0..MaxEdits
    BY <1>8, ConfigAssumption DEF ConsoleEdit, TypeOK, control, agent, ghosts
  <2>2. /\ mem' \in Memory
        /\ mem'.config_version = mem.config_version
        /\ mem'.secret = mem.secret /\ mem'.public_url = mem.public_url
        /\ mem'.printers \in {0, mem.printers} /\ mem'.settings \in {0, mem.settings}
    <3>1. CASE f = "printers"
      <4>1. mem' = [mem EXCEPT !.printers = 0]
        BY <2>1, <3>1
      <4>. QED BY <4>1, <1>a, ConfigAssumption DEF Memory, Version
    <3>2. CASE f = "settings"
      <4>1. mem' = [mem EXCEPT !.settings = 0]
        BY <2>1, <3>2
      <4>. QED BY <4>1, <1>a, ConfigAssumption DEF Memory, Version
    <3>. QED BY <3>1, <3>2 DEF File
  <2>3. TypeOK' /\ Answered' /\ OnlyIssued' /\ IssuedInOrder'
    BY <2>1, <2>2 DEF TypeOK, Answered, OnlyIssued, Issued, IssuedInOrder
  <2>4. RunsOneVersion' /\ (mem.config_version <= Len(issued))'
    BY <2>1, <2>2 DEF RunsOneVersion
  <2>. QED BY <2>3, <2>4
<1>9. ASSUME NEW f \in File, ConsoleSave(f) \/ HangupEdit(f) PROVE SyncInv'
  <2>1. /\ UNCHANGED <<issued, reported, mem, cache, tmp, pc, resp, beat, restarts, edits,
                       raced, failed>>
        /\ unsaved' \in SUBSET File
    BY <1>9 DEF ConsoleSave, HangupEdit, TypeOK, control, agent, bounds, ghosts
  <2>2. files' \in [File -> Version] /\ errors' \in 0..MaxErrors
    BY <1>9, FileWritten DEF ConsoleSave, HangupEdit, TypeOK, bounds
  <2>3. TypeOK' /\ Answered' /\ OnlyIssued' /\ IssuedInOrder'
    BY <2>1, <2>2 DEF TypeOK, Answered, OnlyIssued, Issued, IssuedInOrder
  <2>. QED BY <2>1, <2>3 DEF RunsOneVersion
<1>10. CASE Restart
  <2>1. /\ UNCHANGED <<issued, reported, cache, tmp, files, edits>>
        /\ beat' = 0 /\ unsaved' = {} /\ raced' = FALSE
        /\ pc' = [p \in Puller |-> "idle"] /\ resp' = [p \in Puller |-> None]
    BY <1>10 DEF Restart, control
  <2>2. restarts' \in 0..MaxRestarts
    BY <1>10, ConfigAssumption DEF Restart, TypeOK
  <2>3. errors' \in 0..MaxErrors /\ failed' \in BOOLEAN
    <3>1. failed' = FALSE \/ failed' = TRUE
      BY <1>10 DEF Restart
    <3>2. errors' = errors \/ DiskError
      BY <1>10 DEF Restart
    <3>. QED BY <3>1, <3>2, ErrorsCounted
  <2>4. \E m \in Memory : /\ m.config_version = 0
                          /\ mem' = m \/ (cache # None /\ mem' = Overlay(m, cache))
    <3>1. FromDisk \in Memory /\ FromDisk.config_version = 0
      BY ConfigAssumption DEF FromDisk, Memory, TypeOK, File, Version
    <3>2. ASSUME NEW f \in File
          PROVE  /\ [FromDisk EXCEPT ![f] = 0] \in Memory
                 /\ [FromDisk EXCEPT ![f] = 0].config_version = 0
      <4>1. CASE f = "printers"
        BY <3>1, <4>1, ConfigAssumption DEF Memory, Version
      <4>2. CASE f = "settings"
        BY <3>1, <4>2, ConfigAssumption DEF Memory, Version
      <4>. QED BY <4>1, <4>2 DEF File
    <3>. QED BY <1>10, <3>1, <3>2 DEF Restart
  <2>5. mem' \in Memory /\ mem'.config_version <= Len(issued) /\ RunsOneVersion'
    <3>1. PICK m \in Memory : /\ m.config_version = 0
                              /\ mem' = m \/ (cache # None /\ mem' = Overlay(m, cache))
      BY <2>4
    <3>2. CASE mem' = m
      <4>1. mem'.config_version = 0 /\ mem' \in Memory
        BY <3>1, <3>2
      <4>2. RunsOneVersion'
        BY <4>1 DEF RunsOneVersion
      <4>. QED BY <4>1, <4>2, <1>a
    <3>3. CASE cache # None /\ mem' = Overlay(m, cache)
      <4>1. cache \in NodeConfig /\ Issued(cache)
        BY <3>3 DEF TypeOK, OnlyIssued
      <4>. QED BY <2>1, <3>1, <3>3, <4>1, OverlayIsWhole
    <3>. QED BY <3>1, <3>2, <3>3
  <2>6. TypeOK'
    <3>1. raced' \in BOOLEAN /\ unsaved' \in SUBSET File
      BY <2>1
    <3>2. 0 \in Version
      BY ConfigAssumption DEF Version
    <3>. QED BY <2>1, <2>2, <2>3, <2>5, <3>1, <3>2 DEF TypeOK
  <2>7. Answered' /\ OnlyIssued' /\ IssuedInOrder'
    BY <2>1 DEF Answered, OnlyIssued, Issued, IssuedInOrder
  <2>. QED BY <2>1, <2>5, <2>6, <2>7
<1>11. CASE UNCHANGED vars
  BY <1>11 DEF vars, bounds, ghosts, TypeOK, Answered, OnlyIssued, Issued, IssuedInOrder, RunsOneVersion
<1>. QED
  BY <1>1, <1>2, <1>3, <1>4, <1>5, <1>6, <1>7, <1>8, <1>9, <1>10, <1>11
     DEF Next, Pull, Continue, Puller

-----------------------------------------------------------------------------
\* Every variable keeps its type.
THEOREM TypeCorrect == Spec => []TypeOK
<1>1. SyncInv => TypeOK
  BY DEF SyncInv
<1>. QED BY SyncInvInit, SyncInvNext, <1>1, PTL DEF Spec

\* A node that says it runs version v runs v whole, for any number of refreshes
\* overlapping the agent, versions and restarts.
THEOREM OneVersionAtATime == Spec => []RunsOneVersion
<1>1. SyncInv => RunsOneVersion
  BY DEF SyncInv
<1>. QED BY SyncInvInit, SyncInvNext, <1>1, PTL DEF Spec

\* While the process is up, no answer takes the node to an older version.
THEOREM NeverBackwards == Spec => OnlyForward
<1>1. SyncInv /\ [Next]_vars =>
          [mem'.config_version >= mem.config_version \/ restarts' # restarts]_vars
  <2> SUFFICES ASSUME SyncInv, Next,
                      mem' # mem, restarts' = restarts
               PROVE  mem'.config_version >= mem.config_version
    BY DEF vars, bounds, ghosts, SyncInv, TypeOK, Memory, Version
  <2>1. mem.config_version \in Nat
    BY DEF SyncInv, TypeOK, Memory, Version
  <2>2. ASSUME NEW p \in Puller, Apply(p) PROVE mem'.config_version >= mem.config_version
    <3>1. ~NotNewer(p) /\ mem' = Overlay(mem, resp[p])
      BY <2>2 DEF Apply
    <3>2. resp[p] \in NodeConfig
      BY <2>2 DEF Apply, SyncInv, Answered, TypeOK
    <3>3. mem'.config_version = resp[p].version /\ resp[p].version \in Nat
      BY <3>1, <3>2 DEF Overlay, NodeConfig
    <3>. QED BY <2>1, <3>1, <3>3 DEF NotNewer
  <2>3. ASSUME NEW f \in File, ConsoleEdit(f) PROVE mem'.config_version >= mem.config_version
    BY <2>1, <2>3 DEF ConsoleEdit, SyncInv, TypeOK, Memory, File
  <2>4. ~Restart
    BY DEF Restart, SyncInv, TypeOK
  <2>. QED
    BY <2>2, <2>3, <2>4
       DEF Next, Pull, Continue, UpdateConfig, HeartbeatSend, HeartbeatServed,
           HeartbeatFails, PullServed, PullFails, StageCache, RenameCache, SaveFile,
           RefreshNow, HangupRefresh, ConsoleSave, HangupEdit, node, bounds, Finish
<1>. QED BY SyncInvInit, SyncInvNext, <1>1, PTL DEF Spec, OnlyForward

-----------------------------------------------------------------------------
Writers == {p \in Puller : pc[p] \in {"stage", "rename"}}

\* Without a race and a failure one puller at most is writing config.json, and
\* what it writes, or else what is there, is the version that memory runs.
CacheInv ==
    ~raced /\ ~failed =>
        /\ \A p, q \in Writers : p = q
        /\ \A p \in Writers :
            /\ pc[p] = "stage" => resp[p].version = mem.config_version
            /\ pc[p] = "rename" => tmp \in NodeConfig /\ tmp.version = mem.config_version
        /\ Writers = {} => cache.version = mem.config_version

\* A step that leaves alone who writes what keeps it.
LEMMA CacheKept ==
    ASSUME CacheInv, Writers' = Writers, raced' = raced, failed' = failed,
           \A p \in Writers : pc'[p] = pc[p] /\ resp'[p] = resp[p],
           mem'.config_version = mem.config_version, UNCHANGED <<cache, tmp>>
    PROVE  CacheInv'
BY DEF CacheInv

\* Every step keeps it.
LEMMA CacheInvNext == SyncInv /\ CacheInv /\ [Next]_vars => CacheInv'
<1> SUFFICES ASSUME SyncInv, CacheInv, [Next]_vars PROVE CacheInv'
  OBVIOUS
<1>0. /\ pc \in [Puller -> {"idle", "beat", "pull", "apply", "stage", "rename"} \cup File]
      /\ resp \in [Puller -> NodeConfig \cup {None}] /\ mem \in Memory
      /\ raced \in BOOLEAN /\ failed \in BOOLEAN
      /\ Agent \in Puller
  BY DEF SyncInv, TypeOK, Puller
<1>1. ASSUME NEW s \in Version, NEW u \in Version, UpdateConfig(s, u) PROVE CacheInv'
  <2>1. UNCHANGED <<pc, resp, mem, cache, tmp, raced, failed>>
    BY <1>1 DEF UpdateConfig, node, agent, bounds, ghosts
  <2> QED BY <2>1, CacheKept DEF Writers
<1>2. ASSUME NEW p \in Puller, pc[p] \notin {"stage", "rename"},
             NEW l \in {"idle", "beat", "pull", "apply", "printers", "settings"},
             pc' = [pc EXCEPT ![p] = l], \A q \in Puller \ {p} : resp'[q] = resp[q],
             UNCHANGED <<mem, cache, tmp, raced, failed>>
      PROVE  CacheInv'
  <2>1. \A q \in Puller : pc'[q] \in {"stage", "rename"} <=> pc[q] \in {"stage", "rename"}
    BY <1>0, <1>2
  <2>2. Writers' = Writers /\ \A q \in Writers : pc'[q] = pc[q] /\ resp'[q] = resp[q]
    BY <1>0, <1>2, <2>1 DEF Writers
  <2> QED BY <1>2, <2>2, CacheKept
<1>3. CASE HeartbeatSend \/ HeartbeatServed \/ HeartbeatFails
  BY <1>0, <1>2, <1>3 DEF HeartbeatSend, HeartbeatServed, HeartbeatFails, Goto, node, ghosts
<1>4. ASSUME NEW p \in Puller,
             RefreshNow(p) \/ PullServed(p) \/ PullFails(p) \/ HangupRefresh(p)
      PROVE  CacheInv'
  BY <1>0, <1>2, <1>4
     DEF RefreshNow, PullServed, PullFails, HangupRefresh, Goto, Finish, node, ghosts, File
<1>5. ASSUME NEW p \in Puller, Apply(p) PROVE CacheInv'
  <2>1. CASE NotNewer(p)
    BY <1>0, <1>2, <1>5, <2>1 DEF Apply, Goto, Finish, ghosts
  <2>2. CASE ~NotNewer(p)
    <3>1. /\ mem' = Overlay(mem, resp[p]) /\ raced' = OtherWrites(p)
          /\ pc' = [pc EXCEPT ![p] = "stage"] /\ resp' = resp
      BY <1>5, <2>2 DEF Apply, Goto
    <3>2. mem'.config_version = resp[p].version
      BY <3>1 DEF Overlay
    <3>3. SUFFICES ASSUME ~OtherWrites(p) PROVE CacheInv'
      BY <3>1 DEF CacheInv
    <3>4. Writers' = {p}
      BY <1>0, <3>1, <3>3 DEF Writers, OtherWrites
    <3> QED BY <1>0, <3>1, <3>2, <3>4 DEF CacheInv
  <2> QED BY <2>1, <2>2
<1>6. ASSUME NEW p \in Puller, StageCache(p) PROVE CacheInv'
  <2>1. SUFFICES ASSUME ~raced', ~failed' PROVE CacheInv'
    BY DEF CacheInv
  <2>2. /\ pc[p] = "stage" /\ pc' = [pc EXCEPT ![p] = "rename"]
        /\ tmp' = resp[p] \/ OtherWrites(p)
        /\ UNCHANGED <<mem, cache, raced, failed>>
    BY <1>6, <2>1 DEF StageCache, Goto
  <2>3. Writers' = Writers /\ p \in Writers
    BY <1>0, <2>2 DEF Writers
  <2>4. Writers = {p} /\ resp[p].version = mem.config_version
    BY <2>1, <2>2, <2>3 DEF CacheInv
  <2>5. resp[p] \in NodeConfig
    BY <2>2 DEF SyncInv, Answered, TypeOK
  <2>6. tmp' = resp[p]
    BY <2>2, <2>4 DEF OtherWrites, Writers
  <2> QED BY <1>0, <2>2, <2>3, <2>4, <2>5, <2>6 DEF CacheInv
<1>7. ASSUME NEW p \in Puller, RenameCache(p) PROVE CacheInv'
  <2>1. SUFFICES ASSUME ~raced', ~failed' PROVE CacheInv'
    BY DEF CacheInv
  <2>2. /\ pc[p] = "rename" /\ pc' = [pc EXCEPT ![p] = "printers"]
        /\ cache' = IF tmp = Torn THEN None ELSE tmp
        /\ UNCHANGED <<mem, raced, failed>>
    BY <1>7, <2>1 DEF RenameCache, Goto
  <2>3. p \in Writers /\ Writers' = Writers \ {p}
    BY <1>0, <2>2 DEF Writers
  <2>4. Writers' = {} /\ tmp \in NodeConfig /\ tmp.version = mem.config_version
    BY <2>1, <2>2, <2>3 DEF CacheInv
  <2> QED BY <2>2, <2>4, ConfigIsSome DEF CacheInv
<1>8. ASSUME NEW p \in Puller, NEW f \in File, SaveFile(p, f) PROVE CacheInv'
  BY <1>0, <1>2, <1>8 DEF SaveFile, Goto, ghosts, File
<1>9. ASSUME NEW f \in File, ConsoleEdit(f) \/ ConsoleSave(f) \/ HangupEdit(f)
      PROVE  CacheInv'
  <2>1. mem'.config_version = mem.config_version
    BY <1>0, <1>9 DEF ConsoleEdit, ConsoleSave, HangupEdit, Memory, File
  <2>2. UNCHANGED <<pc, resp, cache, tmp, raced, failed>>
    BY <1>9 DEF ConsoleEdit, ConsoleSave, HangupEdit, agent, ghosts
  <2> QED BY <2>1, <2>2, CacheKept DEF Writers
<1>10. CASE Restart
  <2>1. SUFFICES ASSUME ~failed' PROVE CacheInv'
    BY DEF CacheInv
  <2>2. pc' = [p \in Puller |-> "idle"] /\ UNCHANGED cache
    BY <1>10 DEF Restart
  <2>3. mem'.config_version = cache.version
    <3>1. CASE mem' = IF cache # None THEN Overlay(FromDisk, cache) ELSE FromDisk
      BY <3>1 DEF Overlay, FromDisk, None
    <3>2. ASSUME NEW f \in File, cache = None, mem' = [FromDisk EXCEPT ![f] = 0]
          PROVE  mem'.config_version = cache.version
      BY <3>2 DEF FromDisk, None, File
    <3>. QED BY <1>10, <2>1, <3>1, <3>2 DEF Restart
  <2>4. Writers' = {}
    BY <2>2 DEF Writers
  <2> QED BY <2>2, <2>3, <2>4 DEF CacheInv
<1>11. CASE UNCHANGED vars
  BY <1>11, CacheKept DEF vars, ghosts, Writers
<1> QED
  BY <1>1, <1>3, <1>4, <1>5, <1>6, <1>7, <1>8, <1>9, <1>10, <1>11
     DEF Next, Pull, Continue, Puller

\* With nobody about to write it, config.json has the version that the node runs
\* unless two configurations were written at a time or a write or read of the file
\* failed, for any number of refreshes, versions, restarts and such failures.
THEOREM CacheFollowsMemory == Spec => []CacheFollows
<1>1. Init => CacheInv
  BY DEF Init, CacheInv, Writers, None
<1>2. CacheInv => CacheFollows
  BY DEF CacheInv, CacheFollows, Writers
<1> QED BY SyncInvInit, SyncInvNext, CacheInvNext, <1>1, <1>2, PTL DEF Spec
=============================================================================
