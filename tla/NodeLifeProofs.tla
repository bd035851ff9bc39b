-------------------------- MODULE NodeLifeProofs --------------------------
(***************************************************************************)
(* Theorems about how a hub comes into its credentials (Enrollment) and    *)
(* how it restarts (Lifecycle).                                            *)
(*                                                                         *)
(* For any hubs and tokens, shared ones included, and any number of broken *)
(* connections, restarts and failing statements, the credentials that a    *)
(* hub holds are those of a node of its own but for one failure, and a     *)
(* token makes one node but for overlapping requests.  For any number of   *)
(* requests, one restart or update is under way at a time where update.sh  *)
(* dies with the service.                                                  *)
(***************************************************************************)
EXTENDS Enrollment, Lifecycle, TLAPS

-----------------------------------------------------------------------------
(* Enrollment *)

\* The handler of an answered or awaited request, and whom it belongs to.
RequestsInv ==
    /\ \A r \in Request : pc[r] = "granted" => r \in nodes \cup voided
    /\ \A r \in nodes : pc[r] \in {"granted", "refused", "done"}
    /\ \A h \in Hub : awaits[h] # 0 =>
           from[awaits[h]] = h /\ pc[awaits[h]] \notin {"unsent", "done"}
    /\ \A h \in Hub : \A c \in Held(h) :
           from[c] = h /\ pc[c] = "done" /\ c \in nodes \cup voided

\* Who has found a token unused and has made a node of it, or still may.
Live(r) == r \in nodes \/ pc[r] = "insert"

\* A token that has made a node is marked, and those that may make another found
\* it unused before that.
SpentInv ==
    /\ \A r \in nodes : used_by[TokenIn(r)] # 0
    /\ \A q, r \in Request :
           q # r /\ TokenIn(q) = TokenIn(r) /\ Live(q) /\ Live(r) => {q, r} \in overlaps

EnrollInv == TypeOK /\ RequestsInv /\ SpentInv

-----------------------------------------------------------------------------
\* Numbers of requests are not 0, the number of none.
LEMMA RequestNotZero == 0 \notin Request
BY EnrollmentAssumption DEF Request

\* There is a hub.
LEMMA SomeHub == Anyone \in Hub
BY EnrollmentAssumption DEF Anyone

\* No hub waits, and there are no nodes yet.
LEMMA EnrollInvInit == Init => EnrollInv
<1> SUFFICES ASSUME Init PROVE EnrollInv
  OBVIOUS
<1>1. RequestsInv /\ SpentInv
  BY SomeHub DEF Init, RequestsInv, SpentInv, Live, Held
<1>2. /\ from \in [Request -> Hub] /\ pc \in [Request -> PC] /\ nodes \in SUBSET Request
      /\ used_by \in [Token -> Request \cup {0}]
      /\ voided = {} /\ lost = {} /\ overlaps = {}
  BY SomeHub DEF Init, PC
<1>3. /\ awaits \in [Hub -> Request \cup {0}] /\ creds \in [Hub -> Request \cup {0}]
      /\ node_json \in [Hub -> Request \cup {0}]
      /\ breaks \in 0..MaxBreaks /\ restarts \in 0..MaxRestarts
  BY EnrollmentAssumption DEF Init
<1>. QED
  BY <1>1, <1>2, <1>3 DEF EnrollInv, TypeOK

\* A step that lets no request find its token unused, and makes no node, keeps
\* what is known of tokens.
LEMMA SpentKept ==
    ASSUME TypeOK, SpentInv, UNCHANGED <<nodes, used_by>>,
           \A q \in Request : Live(q)' => Live(q) /\ from'[q] = from[q],
           \A q, r \in Request : {q, r} \in overlaps /\ Live(q)' /\ Live(r)'
                                     => {q, r} \in overlaps'
    PROVE  SpentInv'
<1>1. \A r \in nodes : Live(r)' /\ r \in Request
  BY DEF Live, TypeOK
<1>2. \A r \in nodes' : used_by'[TokenIn(r)'] # 0
  BY <1>1 DEF SpentInv, TokenIn
<1>3. ASSUME NEW q \in Request, NEW r \in Request,
             q # r, TokenIn(q)' = TokenIn(r)', Live(q)', Live(r)'
      PROVE  {q, r} \in overlaps'
  <2>1. Live(q) /\ Live(r) /\ TokenIn(q) = TokenIn(r)
    BY <1>3 DEF TokenIn
  <2>2. {q, r} \in overlaps
    BY <1>3, <2>1 DEF SpentInv
  <2>. QED BY <1>3, <2>2
<1>. QED BY <1>2, <1>3 DEF SpentInv

\* A request that is over frees its number or keeps its node.
LEMMA Closed ==
    ASSUME TypeOK, RequestsInv, SpentInv, UNCHANGED <<nodes, used_by>>,
           NEW r \in Request, Close(r), pc[r] # "done"
    PROVE  /\ \E l \in {"done", "unsent"} : pc' = [pc EXCEPT ![r] = l]
           /\ from' \in [Request -> Hub] /\ \A q \in Request : q # r => from'[q] = from[q]
           /\ voided' \in SUBSET Request /\ lost' \in SUBSET Request
           /\ overlaps' \in SUBSET SUBSET Request
           /\ \A q \in voided : q # r => q \in voided'
           /\ SpentInv'
<1>1. CASE r \in nodes
  <2>1. /\ pc' = [pc EXCEPT ![r] = "done"]
        /\ UNCHANGED <<from, voided, lost, overlaps>>
    BY <1>1 DEF Close, Goto, ghosts
  <2>2. SpentInv'
    BY <2>1, SpentKept DEF TypeOK, Live
  <2>. QED BY <2>1, <2>2 DEF TypeOK
<1>2. CASE r \notin nodes
  <2>1. /\ pc' = [pc EXCEPT ![r] = "unsent"]
        /\ from' = [from EXCEPT ![r] = Anyone]
        /\ voided' = voided \ {r} /\ lost' = lost \ {r}
        /\ overlaps' = {o \in overlaps : r \notin o}
    BY <1>2 DEF Close, Goto
  <2>2. ~Live(r)' /\ \A q \in Request : Live(q)' => Live(q) /\ from'[q] = from[q]
    BY <1>2, <2>1 DEF TypeOK, Live
  <2>3. ASSUME NEW q \in Request, NEW s \in Request, {q, s} \in overlaps, Live(q)', Live(s)'
        PROVE  {q, s} \in overlaps'
    <3>1. r \notin {q, s}
      BY <2>2, <2>3
    <3>. QED BY <2>1, <2>3, <3>1
  <2>4. SpentInv'
    BY <2>2, <2>3, SpentKept
  <2>. QED BY <2>1, <2>4, SomeHub DEF TypeOK
<1>. QED BY <1>1, <1>2

\* Every step keeps the invariant.
LEMMA EnrollInvNext == EnrollInv /\ [Next]_vars => EnrollInv'
<1> SUFFICES ASSUME EnrollInv, [Next]_vars PROVE EnrollInv'
  OBVIOUS
<1> USE RequestNotZero DEF EnrollInv
<1>1. ASSUME NEW h \in Hub, SendEnroll(h) PROVE EnrollInv'
  <2>1. PICK r \in Request : /\ pc[r] = "unsent"
                             /\ from' = [from EXCEPT ![r] = h]
                             /\ pc' = [pc EXCEPT ![r] = "select"]
                             /\ awaits' = [awaits EXCEPT ![h] = r]
    BY <1>1 DEF SendEnroll, Goto
  <2>2. UNCHANGED <<nodes, used_by, creds, node_json, breaks, restarts, voided, lost, overlaps>>
    BY <1>1 DEF SendEnroll, database, bounds, ghosts
  <2>3. TypeOK'
    BY <2>1, <2>2 DEF TypeOK, PC
  <2>4. RequestsInv'
    BY <2>1, <2>2 DEF TypeOK, RequestsInv, Held
  <2>5. r \notin nodes
    BY <2>1 DEF RequestsInv
  <2>6. SpentInv'
    BY <2>1, <2>2, <2>5, SpentKept DEF TypeOK, Live
  <2>. QED BY <2>3, <2>4, <2>6
<1>2. ASSUME NEW r \in Request, Handle(r) PROVE EnrollInv'
  <2> USE DEF Rivals
  <2>0. /\ UNCHANGED <<from, awaits, creds, node_json, breaks, restarts>>
        /\ pc[r] \in {"select", "insert"}
        /\ \E l \in {"insert", "granted", "refused"} : pc' = [pc EXCEPT ![r] = l]
    BY <1>2 DEF Handle, Select, SelectNone, Insert, InsertFails, UpdateFails,
                CommitUnheard, Goto, hubs, bounds
  <2>1. r \notin nodes /\ \A h \in Hub : r \notin Held(h)
    BY <2>0 DEF RequestsInv
  <2>2. CASE SelectNone(r) \/ InsertFails(r) \/ UpdateFails(r)
    <3>1. /\ UNCHANGED <<nodes, used_by, lost, overlaps>>
          /\ voided' \in {voided, voided \cup {r}}
          /\ pc'[r] \in {"refused", "granted"} /\ (pc'[r] = "granted" => r \in voided')
      BY <2>0, <2>2 DEF SelectNone, InsertFails, UpdateFails, Goto, database, ghosts, TypeOK
    <3>2. TypeOK'
      BY <2>0, <3>1 DEF TypeOK, PC
    <3>3. RequestsInv'
      BY <2>0, <2>1, <3>1 DEF TypeOK, RequestsInv, Held
    <3>4. SpentInv'
      BY <2>0, <3>1, SpentKept DEF TypeOK, Live
    <3>. QED BY <3>2, <3>3, <3>4
  <2>3. CASE Select(r)
    <3>1. /\ pc' = [pc EXCEPT ![r] = "insert"] /\ used_by[TokenIn(r)] = 0
          /\ UNCHANGED <<nodes, used_by, voided, lost>>
          /\ overlaps' = overlaps \cup {{q, r} : q \in Rivals(r)}
      BY <2>3 DEF Select, Goto, database
    <3>2. TypeOK'
      BY <2>0, <3>1 DEF TypeOK, PC
    <3>3. RequestsInv'
      BY <2>0, <2>1, <3>1 DEF TypeOK, RequestsInv, Held
    <3>4. ASSUME NEW q \in Request, q # r, TokenIn(q) = TokenIn(r), Live(q)
          PROVE  {q, r} \in overlaps'
      <4>1. q \notin nodes
        BY <3>1, <3>4 DEF SpentInv
      <4>2. q \in Rivals(r)
        BY <3>4, <4>1 DEF Live
      <4>. QED BY <3>1, <4>2
    <3>5. ASSUME NEW q \in Request, NEW s \in Request,
                 q # s, TokenIn(q)' = TokenIn(s)', Live(q)', Live(s)'
          PROVE  {q, s} \in overlaps'
      <4>1. /\ TokenIn(q) = TokenIn(s)
            /\ (q # r => Live(q)) /\ (s # r => Live(s))
        BY <2>0, <3>1, <3>5 DEF TokenIn, Live, TypeOK
      <4>2. CASE q = r
        <5>1. {s, q} \in overlaps'
          BY <3>4, <3>5, <4>1, <4>2
        <5>2. {s, q} = {q, s}
          OBVIOUS
        <5>. QED BY <5>1, <5>2
      <4>3. CASE s = r
        BY <3>4, <3>5, <4>1, <4>3
      <4>4. CASE q # r /\ s # r
        BY <3>1, <3>5, <4>1, <4>4 DEF SpentInv
      <4>. QED BY <4>2, <4>3, <4>4
    <3>6. \A q \in nodes' : used_by'[TokenIn(q)'] # 0
      BY <2>0, <3>1 DEF SpentInv, TokenIn
    <3>. QED BY <3>2, <3>3, <3>5, <3>6 DEF SpentInv
  <2>4. CASE Insert(r) \/ CommitUnheard(r)
    <3>1. /\ pc[r] = "insert" /\ pc'[r] \in {"granted", "refused"}
          /\ nodes' = nodes \cup {r}
          /\ used_by' = [used_by EXCEPT ![TokenIn(r)] = r]
          /\ lost' \in {lost, lost \cup {r}} /\ UNCHANGED <<voided, overlaps>>
      BY <2>0, <2>4 DEF Insert, CommitUnheard, Commit, Goto, ghosts, TypeOK
    <3>2. TokenIn(r) \in Token
      BY EnrollmentAssumption DEF TokenIn, TypeOK
    <3>3. TypeOK'
      BY <2>0, <3>1, <3>2 DEF TypeOK, PC
    <3>4. RequestsInv'
      BY <2>0, <2>1, <3>1 DEF TypeOK, RequestsInv, Held
    <3>5. \A q \in Request : (Live(q)' <=> Live(q)) /\ TokenIn(q)' = TokenIn(q)
      BY <2>0, <3>1 DEF Live, TokenIn, TypeOK
    <3>6. \A q \in nodes' : used_by'[TokenIn(q)'] # 0
      <4>1. \A q \in nodes' : TokenIn(q)' = TokenIn(q)
        BY <2>0 DEF TokenIn
      <4>. QED BY <3>1, <3>2, <4>1 DEF SpentInv, TypeOK
    <3>. QED BY <3>1, <3>3, <3>4, <3>5, <3>6 DEF SpentInv
  <2>. QED BY <1>2, <2>2, <2>3, <2>4 DEF Handle
<1>3. ASSUME NEW h \in Hub, Granted(h) PROVE EnrollInv'
  <2> DEFINE r == awaits[h]
  <2>1. r \in Request /\ pc[r] = "granted" /\ r \in nodes \cup voided /\ from[r] = h
    <3>1. r # 0 /\ pc[r] = "granted"
      BY <1>3 DEF Granted
    <3>. QED BY <3>1 DEF TypeOK, RequestsInv
  <2>2. /\ pc' = [pc EXCEPT ![r] = "done"]
        /\ node_json' = node_json \/ node_json' = [node_json EXCEPT ![h] = r]
        /\ creds' = [creds EXCEPT ![h] = r]
        /\ awaits' = [awaits EXCEPT ![h] = 0]
        /\ UNCHANGED <<from, nodes, used_by, breaks, restarts, voided, lost, overlaps>>
    BY <1>3 DEF Granted, Goto, database, bounds, ghosts
  <2> HIDE DEF r
  <2>3. TypeOK'
    BY <2>1, <2>2 DEF TypeOK, PC
  <2>4. ASSUME NEW g \in Hub, awaits'[g] # 0
        PROVE  from'[awaits'[g]] = g /\ pc'[awaits'[g]] \notin {"unsent", "done"}
    <3>1. g # h /\ awaits'[g] = awaits[g] /\ awaits[g] \in Request
      BY <2>2, <2>4 DEF TypeOK
    <3>2. from[awaits[g]] = g /\ pc[awaits[g]] \notin {"unsent", "done"}
      BY <2>2, <2>4, <3>1 DEF RequestsInv
    <3>. QED BY <2>1, <2>2, <3>1, <3>2 DEF TypeOK
  <2>5. ASSUME NEW g \in Hub, NEW c \in Held(g)'
        PROVE  from'[c] = g /\ pc'[c] = "done" /\ c \in nodes' \cup voided'
    <3>1. c \in Held(g) \/ (g = h /\ c = r)
      BY <2>2 DEF TypeOK, Held
    <3>2. CASE c \in Held(g)
      <4>1. c \in Request /\ from[c] = g /\ pc[c] = "done" /\ c \in nodes \cup voided
        BY <3>2 DEF RequestsInv, Held, TypeOK
      <4>. QED BY <2>1, <2>2, <4>1 DEF TypeOK
    <3>3. CASE g = h /\ c = r
      BY <2>1, <2>2, <3>3 DEF TypeOK
    <3>. QED BY <3>1, <3>2, <3>3
  <2>6. \A q \in Request : pc'[q] = "granted" => q \in nodes' \cup voided'
    BY <2>1, <2>2 DEF TypeOK, RequestsInv
  <2>7. \A q \in nodes' : pc'[q] \in {"granted", "refused", "done"}
    BY <2>1, <2>2 DEF TypeOK, RequestsInv
  <2>8. SpentInv'
    BY <2>1, <2>2, SpentKept DEF TypeOK, Live
  <2>. QED BY <2>3, <2>4, <2>5, <2>6, <2>7, <2>8 DEF RequestsInv
<1>4. ASSUME NEW r \in Request, Close(r), UNCHANGED <<nodes, used_by, creds, node_json>>,
             pc[r] \notin {"unsent", "done"},
             breaks' = breaks, restarts' = restarts,
             awaits' \in [Hub -> Request \cup {0}],
             \A g \in Hub : awaits'[g] # 0 => awaits'[g] = awaits[g] /\ awaits[g] # r
      PROVE  EnrollInv'
  <2>1. /\ \E l \in {"done", "unsent"} : pc' = [pc EXCEPT ![r] = l]
        /\ from' \in [Request -> Hub] /\ \A q \in Request : q # r => from'[q] = from[q]
        /\ voided' \in SUBSET Request /\ lost' \in SUBSET Request
        /\ overlaps' \in SUBSET SUBSET Request
        /\ \A q \in voided : q # r => q \in voided'
        /\ SpentInv'
    BY <1>4, Closed
  <2>2. TypeOK'
    BY <1>4, <2>1 DEF TypeOK, PC
  <2>3. ASSUME NEW g \in Hub, awaits'[g] # 0
        PROVE  from'[awaits'[g]] = g /\ pc'[awaits'[g]] \notin {"unsent", "done"}
    <3>1. awaits'[g] = awaits[g] /\ awaits[g] \in Request /\ awaits[g] # r
      BY <1>4, <2>3 DEF TypeOK
    <3>2. from[awaits[g]] = g /\ pc[awaits[g]] \notin {"unsent", "done"}
      BY <2>3, <3>1 DEF RequestsInv
    <3>. QED BY <2>1, <3>1, <3>2 DEF TypeOK
  <2>4. ASSUME NEW g \in Hub, NEW c \in Held(g)'
        PROVE  from'[c] = g /\ pc'[c] = "done" /\ c \in nodes' \cup voided'
    <3>1. c \in Held(g) /\ c \in Request
      BY <1>4 DEF Held, TypeOK
    <3>2. from[c] = g /\ pc[c] = "done" /\ c \in nodes \cup voided /\ c # r
      BY <1>4, <3>1 DEF RequestsInv
    <3>. QED BY <1>4, <2>1, <3>1, <3>2 DEF TypeOK
  <2>5. \A q \in Request : pc'[q] = "granted" => q \in nodes' \cup voided'
    BY <1>4, <2>1 DEF TypeOK, RequestsInv
  <2>6. \A q \in nodes' : pc'[q] \in {"granted", "refused", "done"}
    <3>1. r \in nodes => pc'[r] = "done"
      BY <1>4 DEF Close, Goto, TypeOK
    <3>. QED BY <1>4, <2>1, <3>1 DEF TypeOK, RequestsInv
  <2>. QED BY <2>1, <2>2, <2>3, <2>4, <2>5, <2>6 DEF RequestsInv
<1>5. ASSUME NEW h \in Hub, Refused(h) PROVE EnrollInv'
  <2> DEFINE r == awaits[h]
  <2>1. r # 0 /\ pc[r] = "refused" /\ Close(r)
    BY <1>5 DEF Refused
  <2>2. r \in Request /\ from[r] = h
    BY <2>1 DEF TypeOK, RequestsInv
  <2>3. /\ awaits' = [awaits EXCEPT ![h] = 0]
        /\ UNCHANGED <<nodes, used_by, creds, node_json, breaks, restarts>>
    BY <1>5 DEF Refused, database, bounds
  <2> HIDE DEF r
  <2>4. /\ awaits' \in [Hub -> Request \cup {0}]
        /\ \A g \in Hub : awaits'[g] # 0 => awaits'[g] = awaits[g] /\ g # h
    BY <2>3 DEF TypeOK
  <2>5. \A g \in Hub : g # h /\ awaits[g] # 0 => awaits[g] # r
    BY <2>2 DEF RequestsInv
  <2>6. \A g \in Hub : awaits'[g] # 0 => awaits'[g] = awaits[g] /\ awaits[g] # r
    BY <2>4, <2>5
  <2>. QED BY <1>4, <2>1, <2>2, <2>3, <2>4, <2>6
<1>6. ASSUME NEW r \in Request, Abandon(r) PROVE EnrollInv'
  <2>1. /\ pc[r] \notin {"unsent", "done"} /\ awaits[from[r]] # r /\ Close(r)
        /\ UNCHANGED <<nodes, used_by, awaits, creds, node_json, breaks, restarts>>
    BY <1>6 DEF Abandon, database, hubs, bounds
  <2>2. \A g \in Hub : awaits[g] # 0 => awaits[g] # r
    BY <2>1 DEF RequestsInv
  <2>3. awaits' \in [Hub -> Request \cup {0}]
    BY <2>1 DEF TypeOK
  <2>4. \A g \in Hub : awaits'[g] # 0 => awaits'[g] = awaits[g] /\ awaits[g] # r
    BY <2>1, <2>2
  <2>. QED BY <1>4, <2>1, <2>3, <2>4
<1>7. ASSUME NEW h \in Hub, Break(h) \/ Restart(h) PROVE EnrollInv'
  <2>1. /\ awaits' = [awaits EXCEPT ![h] = 0]
        /\ creds' = creds \/ \E c \in {node_json[h], 0} : creds' = [creds EXCEPT ![h] = c]
        /\ UNCHANGED <<from, pc, nodes, used_by, node_json, voided, overlaps>>
    BY <1>7 DEF Break, Restart, database
  <2>2. breaks' \in 0..MaxBreaks /\ restarts' \in 0..MaxRestarts
    BY <1>7, EnrollmentAssumption DEF Break, Restart, TypeOK
  <2>3. lost' \in SUBSET Request
    BY <1>7 DEF Break, Restart, TypeOK
  <2>4. TypeOK'
    BY <2>1, <2>2, <2>3 DEF TypeOK
  <2>5. \A g \in Hub : Held(g)' \subseteq Held(g)
    BY <2>1 DEF TypeOK, Held
  <2>6. RequestsInv'
    BY <2>1, <2>5 DEF TypeOK, RequestsInv
  <2>7. SpentInv'
    BY <2>1, SpentKept DEF Live
  <2>. QED BY <2>4, <2>6, <2>7
<1>8. CASE UNCHANGED vars
  BY <1>8 DEF vars, ghosts, TypeOK, RequestsInv, SpentInv, Live, TokenIn, Held
<1>. QED BY <1>1, <1>2, <1>3, <1>5, <1>6, <1>7, <1>8 DEF Next, Answer

\* Every variable keeps its type: whatever is lost, credentials and secrets are
\* numbers of requests that were sent.
THEOREM TypeCorrect == Spec => []TypeOK
<1>1. EnrollInv => TypeOK
  BY DEF EnrollInv
<1>. QED BY EnrollInvInit, EnrollInvNext, <1>1, PTL DEF Spec

\* A hub's credentials are those of a node that the control plane has, and of no
\* other hub, unless the UPDATE of its enrollment failed unnoticed.
THEOREM CredentialsAreKnown == Spec => []CredsAreKnown
<1>1. EnrollInv => CredsAreKnown
  BY DEF EnrollInv, RequestsInv, CredsAreKnown
<1>. QED BY EnrollInvInit, EnrollInvNext, <1>1, PTL DEF Spec

\* Whatever fails, is lost or starts again, two nodes come of one token only where
\* both requests had found it unused before either of them committed.
THEOREM TokenSpentOnce == Spec => []SpentOnce
<1>1. EnrollInv => SpentOnce
  BY DEF EnrollInv, TypeOK, SpentInv, SpentOnce, Live
<1>. QED BY EnrollInvInit, EnrollInvNext, <1>1, PTL DEF Spec

-----------------------------------------------------------------------------
(* Restarts and updates *)

\* Only an update has a script, and its task waits for it.
ScriptHasTask == \A s \in Slot : script[s] # "none" => task[s] = "script"

\* The flag is set for as long as anything is under way.
FlagCovers == \A s \in Slot : task[s] # "none" => update_running

InService == scope = "service" => ScriptHasTask /\ FlagCovers /\ OneAtATime

NodeInv == NodeTypeOK /\ InService

\* Nothing is under way at first.
LEMMA NodeInvInit == NodeInit => NodeInv
BY DEF NodeInit, NodeInv, NodeTypeOK, InService, ScriptHasTask, FlagCovers,
    OneAtATime, Free, Step

\* Every step keeps the types, and what a process had in memory goes with it.
LEMMA NodeTypeNext == NodeTypeOK /\ [NodeNext]_nodeVars => NodeTypeOK'
<1> SUFFICES ASSUME NodeTypeOK, [NodeNext]_nodeVars PROVE NodeTypeOK'
    OBVIOUS
<1> USE DEF NodeTypeOK, Step
<1>1. ASSUME NEW s \in Slot, RestartRequest(s) \/ UpdateRequest(s) PROVE NodeTypeOK'
    BY <1>1 DEF RestartRequest, UpdateRequest, Free
<1>2. ASSUME NEW s \in Slot, RestartFires(s) PROVE NodeTypeOK'
    BY <1>2 DEF RestartFires, StopReturns
<1>3. ASSUME NEW s \in Slot, RestartRefused(s) \/ CommandReturns(s) PROVE NodeTypeOK'
    BY <1>3 DEF RestartRefused, CommandReturns
<1>4. ASSUME NEW s \in Slot, ScriptReady(s) \/ ScriptFails(s) \/ ScriptInstall(s)
      PROVE NodeTypeOK'
    BY <1>4 DEF ScriptReady, ScriptFails, ScriptInstall
<1>5. ASSUME NEW s \in Slot, ScriptStop(s) \/ ScriptStart(s) PROVE NodeTypeOK'
    <2>1. unit' \in {"active", "stopping", "inactive"} /\ again' \in BOOLEAN
        BY <1>5 DEF ScriptStop, ScriptStart
    <2>2. proc' \in {"up", "draining", "gone"} /\ (unit' = "inactive" => proc' = "gone")
        BY <1>5 DEF ScriptStop, ScriptStart
    <2>3. script' \in [Slot -> Step]
        BY <1>5 DEF ScriptStop, ScriptStart
    <2>4. UNCHANGED <<scope, update_running, task>> /\ (proc' = "gone" => proc = "gone")
        BY <1>5 DEF ScriptStop, ScriptStart
    <2> QED
        BY <2>1, <2>2, <2>3, <2>4
<1>6. CASE Terminate \/ Exit \/ Crash
    BY <1>6 DEF Terminate, Exit, Crash, WithGroup, Forget
<1>7. CASE Stopped
    BY <1>7 DEF Stopped, StopReturns
<1>8. CASE AutoRestart \/ StartByHand
    BY <1>8 DEF AutoRestart, StartByHand
<1>9. CASE UNCHANGED nodeVars
    BY <1>9 DEF nodeVars
<1> QED
    BY <1>1, <1>2, <1>3, <1>4, <1>5, <1>6, <1>7, <1>8, <1>9 DEF NodeNext, Goes, Systemd

\* A request finds the flag clear, so nothing is under way; a process that goes
\* takes its scripts with it.
LEMMA InServiceNext == NodeInv /\ [NodeNext]_nodeVars => InService'
<1> SUFFICES ASSUME NodeInv, [NodeNext]_nodeVars, scope' = "service"
             PROVE  (ScriptHasTask /\ FlagCovers /\ OneAtATime)'
    BY DEF InService
<1>0. scope = "service"
    BY DEF nodeVars, NodeNext, Goes, Systemd, RestartRequest, UpdateRequest, RestartFires,
           RestartRefused, CommandReturns, ScriptReady, ScriptFails, ScriptStop,
           ScriptInstall, ScriptStart, Terminate, Exit, Stopped, Crash, AutoRestart,
           StartByHand
<1> USE <1>0 DEF NodeInv, InService, NodeTypeOK, Step, ScriptHasTask, FlagCovers, OneAtATime, Free
<1>1. ASSUME NEW s \in Slot, RestartRequest(s) \/ UpdateRequest(s)
      PROVE  (ScriptHasTask /\ FlagCovers /\ OneAtATime)'
    BY <1>1 DEF RestartRequest, UpdateRequest
<1>2. ASSUME NEW s \in Slot, RestartFires(s)
      PROVE  (ScriptHasTask /\ FlagCovers /\ OneAtATime)'
    BY <1>2 DEF RestartFires, StopReturns
<1>3. ASSUME NEW s \in Slot, RestartRefused(s) \/ CommandReturns(s)
      PROVE  (ScriptHasTask /\ FlagCovers /\ OneAtATime)'
    BY <1>3 DEF RestartRefused, CommandReturns
<1>4. ASSUME NEW s \in Slot, ScriptReady(s) \/ ScriptFails(s) \/ ScriptStop(s)
      PROVE  (ScriptHasTask /\ FlagCovers /\ OneAtATime)'
    BY <1>4 DEF ScriptReady, ScriptFails, ScriptStop
<1>5. ASSUME NEW s \in Slot, ScriptInstall(s) \/ ScriptStart(s)
      PROVE  (ScriptHasTask /\ FlagCovers /\ OneAtATime)'
    <2>1. script[s] # "none" /\ UNCHANGED <<update_running, task>>
        BY <1>5 DEF ScriptInstall, ScriptStart
    <2>2. \A t \in Slot : script'[t] = script[t] \/ t = s
        BY <1>5 DEF ScriptInstall, ScriptStart
    <2> QED
        BY <2>1, <2>2
<1>6. CASE Terminate \/ Exit \/ Crash
    BY <1>6 DEF Terminate, Exit, Crash, WithGroup, Forget
<1>7. CASE Stopped
    BY <1>7 DEF Stopped, StopReturns
<1>8. CASE AutoRestart \/ StartByHand
    BY <1>8 DEF AutoRestart, StartByHand
<1>9. CASE UNCHANGED nodeVars
    BY <1>9 DEF nodeVars
<1> QED
    BY <1>1, <1>2, <1>3, <1>4, <1>5, <1>6, <1>7, <1>8, <1>9 DEF NodeNext, Goes, Systemd

\* Every variable keeps its type, wherever the process and the script are.
THEOREM NodeTypeCorrect == NodeSpec => []NodeTypeOK
<1>1. NodeInv => NodeTypeOK
    BY DEF NodeInv
<1>2. NodeInv /\ [NodeNext]_nodeVars => NodeInv'
    BY NodeTypeNext, InServiceNext DEF NodeInv
<1> QED
    BY NodeInvInit, <1>1, <1>2, PTL DEF NodeSpec

\* settings.rs: update_running.swap(true) admits one restart or update at a
\* time, across crashes and restarts, although the flag is in memory only: a
\* script that has no session of its own is gone with the process that set it.
THEOREM AdmitsOne == NodeSpec => []OneAtATime
<1>1. NodeInv => OneAtATime
    BY DEF NodeInv, InService, OneAtATime
<1>2. NodeInv /\ [NodeNext]_nodeVars => NodeInv'
    BY NodeTypeNext, InServiceNext DEF NodeInv
<1> QED
    BY NodeInvInit, <1>1, <1>2, PTL DEF NodeSpec
=============================================================================
