----------------------------- MODULE Enrollment -----------------------------
(***************************************************************************)
(* Enrollment: a hub without credentials sends its enrollment token to the *)
(* control plane, which creates a node for it and marks the token as used. *)
(*                                                                         *)
(* The control plane handles every request in a task of its own.  It looks *)
(* the token up first and marks it in a later transaction; the hub sees an *)
(* answer, an error status, or a broken connection, and tries again until  *)
(* it has credentials.                                                     *)
(***************************************************************************)
EXTENDS Naturals

CONSTANTS
    Hub,          \* the hubs
    Token,        \* the tokens that the dashboard has issued
    TokenOf,      \* ENROLLMENT_TOKEN of every hub
    MaxRequests,  \* bound: requests handled at a time and nodes created
    MaxBreaks,    \* bound: connections that break in a behaviour
    MaxRestarts   \* bound: restarts of hubs in a behaviour

ASSUME EnrollmentAssumption ==
    /\ Hub # {}
    /\ TokenOf \in [Hub -> Token]
    /\ MaxRequests \in Nat \ {0}
    /\ MaxBreaks \in Nat
    /\ MaxRestarts \in Nat

\* A request is named by a number; the node it creates has the same one.  The
\* number of a request that created none is used again.
Request == 1..MaxRequests

PC == {"unsent", "select", "insert", "granted", "refused", "done"}

VARIABLES
    from,      \* the hub that sent a request
    pc,        \* where the handler of a request is
    nodes,     \* the rows of nodes and of node_config
    used_by,   \* enrollment_tokens.used_by_node; 0 while used_at is null
    awaits,    \* the request whose answer a hub waits for, or 0
    creds,     \* NodeCreds in the memory of a hub, or 0
    node_json, \* and in node.json
    breaks, restarts,
    \* What went wrong, for the properties; no action reads these.
    voided,    \* requests answered with 200 whose transaction had been rolled back
    lost,      \* requests whose answer did not arrive or was not kept
    overlaps   \* pairs of requests that had both found their token unused and
               \* had not committed

vars == <<from, pc, nodes, used_by, awaits, creds, node_json, breaks, restarts,
          voided, lost, overlaps>>

database == <<nodes, used_by>>
hubs     == <<awaits, creds, node_json>>
bounds   == <<breaks, restarts>>
ghosts   == <<voided, lost, overlaps>>

Goto(r, l) == pc' = [pc EXCEPT ![r] = l]

Anyone == CHOOSE h \in Hub : TRUE

\* The request is over; its number is free again if it made no node.
Close(r) ==
    IF r \in nodes
    THEN Goto(r, "done") /\ UNCHANGED <<from, ghosts>>
    ELSE /\ Goto(r, "unsent")
         /\ from' = [from EXCEPT ![r] = Anyone]
         /\ voided' = voided \ {r}
         /\ lost' = lost \ {r}
         /\ overlaps' = {o \in overlaps : r \notin o}

TokenIn(r) == TokenOf[from[r]]

Init ==
    /\ from = [r \in Request |-> Anyone]
    /\ pc = [r \in Request |-> "unsent"]
    /\ nodes = {}
    /\ used_by = [t \in Token |-> 0]
    /\ awaits = [h \in Hub |-> 0]
    /\ creds = [h \in Hub |-> 0]
    /\ node_json = [h \in Hub |-> 0]
    /\ breaks = 0
    /\ restarts = 0
    /\ voided = {}
    /\ lost = {}
    /\ overlaps = {}

-----------------------------------------------------------------------------
(* agent::run and agent::enroll *)

SendEnroll(h) ==
    /\ creds[h] = 0
    /\ awaits[h] = 0
    /\ \E r \in Request :
        /\ pc[r] = "unsent"
        /\ \A q \in 1..r - 1 : pc[q] # "unsent"
        /\ from' = [from EXCEPT ![r] = h]
        /\ Goto(r, "select")
        /\ awaits' = [awaits EXCEPT ![h] = r]
    /\ UNCHANGED <<database, creds, node_json, bounds, ghosts>>

-----------------------------------------------------------------------------
(* node_api::enroll *)

\* Those that have found the token of r unused, too, and have not committed.
Rivals(r) == {q \in Request \ {r} : pc[q] = "insert" /\ TokenIn(q) = TokenIn(r)}

\* Mutant of Select: a token that was used is found as well.
SelectUsed(r) ==
    /\ pc[r] = "select"
    /\ Goto(r, "insert")
    /\ overlaps' = overlaps \cup {{q, r} : q \in Rivals(r)}
    /\ UNCHANGED <<from, database, hubs, bounds, voided, lost>>

\* The SELECT finds the token unused.
Select(r) ==
    /\ pc[r] = "select"
    /\ used_by[TokenIn(r)] = 0
    /\ Goto(r, "insert")
    /\ overlaps' = overlaps \cup {{q, r} : q \in Rivals(r)}
    /\ UNCHANGED <<from, database, hubs, bounds, voided, lost>>

\* It finds none, or the query fails: 401 in both cases.
SelectNone(r) ==
    /\ pc[r] = "select"
    /\ Goto(r, "refused")
    /\ UNCHANGED <<from, database, hubs, bounds, ghosts>>

\* Mutant of Insert: the token is marked with its hub instead of its node.
InsertMarksHub(r) ==
    /\ pc[r] = "insert"
    /\ nodes' = nodes \cup {r}
    /\ used_by' = [used_by EXCEPT ![TokenIn(r)] = from[r]]
    /\ Goto(r, "granted")
    /\ UNCHANGED <<from, hubs, bounds, ghosts>>

\* What the transaction changes: node, configuration and token.  Its UPDATE does
\* not ask whether the token is still unused.
Commit(r) ==
    /\ nodes' = nodes \cup {r}
    /\ used_by' = [used_by EXCEPT ![TokenIn(r)] = r]

Insert(r) ==
    /\ pc[r] = "insert"
    /\ Commit(r)
    /\ Goto(r, "granted")
    /\ UNCHANGED <<from, hubs, bounds, ghosts>>

\* Mutant of InsertFails: the error is ignored.
InsertFailsUnnoticed(r) ==
    /\ pc[r] = "insert"
    /\ Goto(r, "granted")
    /\ UNCHANGED <<from, database, hubs, bounds, ghosts>>

\* BEGIN, one of the two INSERTs or COMMIT fails: rolled back, 500.
InsertFails(r) ==
    /\ pc[r] = "insert"
    /\ Goto(r, "refused")
    /\ UNCHANGED <<from, database, hubs, bounds, ghosts>>

\* The error of the UPDATE is thrown away and COMMIT follows, which Postgres
\* answers without an error although it rolls the failed transaction back: 200.
UpdateFails(r) ==
    /\ pc[r] = "insert"
    /\ Goto(r, "granted")
    /\ voided' = voided \cup {r}
    /\ UNCHANGED <<from, database, hubs, bounds, lost, overlaps>>

\* COMMIT is done and the connection to the database breaks before it says so: 500.
CommitUnheard(r) ==
    /\ pc[r] = "insert"
    /\ Commit(r)
    /\ Goto(r, "refused")
    /\ lost' = lost \cup {r}
    /\ UNCHANGED <<from, hubs, bounds, voided, overlaps>>

-----------------------------------------------------------------------------
(* The answer *)

\* 200: set_creds writes node.json, which may fail and is logged then, and memory
\* after it; nothing reads between.  The apply_config that follows is one of
\* ConfigSync's.
Granted(h) ==
    LET r == awaits[h]
    IN  /\ r # 0
        /\ pc[r] = "granted"
        /\ node_json' \in {node_json, [node_json EXCEPT ![h] = r]}
        /\ creds' = [creds EXCEPT ![h] = r]
        /\ awaits' = [awaits EXCEPT ![h] = 0]
        /\ Goto(r, "done")
        /\ UNCHANGED <<from, database, bounds, ghosts>>

\* Mutant of Refused: the agent gives up.
RefusedForGood(h) ==
    LET r == awaits[h]
    IN  /\ r # 0
        /\ pc[r] = "refused"
        /\ Close(r)
        /\ UNCHANGED <<database, hubs, bounds>>

\* An error status: the agent sleeps and tries again.
Refused(h) ==
    LET r == awaits[h]
    IN  /\ r # 0
        /\ pc[r] = "refused"
        /\ awaits' = [awaits EXCEPT ![h] = 0]
        /\ Close(r)
        /\ UNCHANGED <<database, creds, node_json, bounds>>

\* The connection breaks anywhere, or the answer does not parse; the handler may
\* not notice.
Break(h) ==
    /\ breaks < MaxBreaks
    /\ awaits[h] # 0
    /\ awaits' = [awaits EXCEPT ![h] = 0]
    /\ lost' = lost \cup {awaits[h]}
    /\ breaks' = breaks + 1
    /\ UNCHANGED <<from, pc, database, creds, node_json, restarts, voided, overlaps>>

\* A hub starts again with what node.json has, or with nothing if that cannot be
\* read.
Restart(h) ==
    /\ restarts < MaxRestarts
    /\ awaits' = [awaits EXCEPT ![h] = 0]
    /\ \E c \in {node_json[h], 0} :
        /\ creds' = [creds EXCEPT ![h] = c]
        /\ lost' = lost \cup ({awaits[h], creds[h]} \ {0, c})
    /\ restarts' = restarts + 1
    /\ UNCHANGED <<from, pc, database, node_json, breaks, voided, overlaps>>

\* The server drops a handler whose client is gone; an answer is lost likewise.
Abandon(r) ==
    /\ pc[r] \notin {"unsent", "done"}
    /\ awaits[from[r]] # r
    /\ Close(r)
    /\ UNCHANGED <<database, hubs, bounds>>

-----------------------------------------------------------------------------
Handle(r) == \/ Select(r) \/ SelectNone(r)
             \/ Insert(r) \/ InsertFails(r) \/ UpdateFails(r) \/ CommitUnheard(r)

Answer(h) == Granted(h) \/ Refused(h)

Next ==
    \/ \E h \in Hub : SendEnroll(h) \/ Answer(h) \/ Break(h) \/ Restart(h)
    \/ \E r \in Request : Handle(r) \/ Abandon(r)

Spec == Init /\ [][Next]_vars

\* The agent's loop goes on, handlers and answers are not delayed for ever, a
\* request that nobody waits for ends, and the database does not fail for ever.
FairSpec ==
    /\ Spec
    /\ \A h \in Hub : WF_vars(SendEnroll(h)) /\ WF_vars(Answer(h))
    /\ \A r \in Request : WF_vars(Handle(r) \/ Abandon(r))
    /\ SF_vars(\E r \in Request : Select(r))
    /\ SF_vars(\E r \in Request : Insert(r))

-----------------------------------------------------------------------------
(* Properties *)

TypeOK ==
    /\ from \in [Request -> Hub]
    /\ pc \in [Request -> PC]
    /\ nodes \in SUBSET Request
    /\ used_by \in [Token -> Request \cup {0}]
    /\ awaits \in [Hub -> Request \cup {0}]
    /\ creds \in [Hub -> Request \cup {0}]
    /\ node_json \in [Hub -> Request \cup {0}]
    /\ breaks \in 0..MaxBreaks
    /\ restarts \in 0..MaxRestarts
    /\ voided \in SUBSET Request
    /\ lost \in SUBSET Request
    /\ overlaps \in SUBSET SUBSET Request

Held(h) == {creds[h], node_json[h]} \ {0}

\* Credentials that a hub holds, in memory or in node.json, are those of a node
\* that the control plane has, and of no other hub: its bearer token will be
\* accepted, and one hub's heartbeats are not taken for another's.  One failure
\* alone breaks it, that of the UPDATE, whose error the handler throws away: such
\* a hub is told 401 from then on, and having credentials it never enrolls again.
CredsAreKnown ==
    /\ \A h \in Hub : Held(h) \subseteq nodes \cup voided
    /\ \A g, h \in Hub : g # h => Held(g) \cap Held(h) = {}

\* proto: a token is "one-time".  Two nodes come of one token only where both
\* requests had looked it up before either of them committed: no failure between
\* lookup and commit, no retry and no broken connection leaves a token unspent
\* that has made a node.
SpentOnce ==
    \A q, r \in nodes : q # r /\ TokenIn(q) = TokenIn(r) => {q, r} \in overlaps

\* "enrollment failed (will retry)": in the end a hub has credentials and keeps
\* them, whatever fails before the commit, unless its token was spent: by another
\* hub, or by itself on an answer that did not arrive or that it did not keep.
\* Nothing gives such a hub its credentials back.
EnrollsUnlessSpent ==
    \A h \in Hub : <>[](creds[h] # 0 \/
        LET r == used_by[TokenOf[h]] IN r # 0 /\ (from[r] # h \/ r \in lost))
=============================================================================
