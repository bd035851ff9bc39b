----------------------------- MODULE D365Cache -----------------------------
(***************************************************************************)
(* The D365 client of a node (d365_client.rs): requests for recent         *)
(* receipts that share three caches, of the bearer token, of the entity    *)
(* that the instance serves receipts under, and of each entity's date      *)
(* field.  None of the caches is locked during an exchange, so requests    *)
(* that miss a cache together all fill it.                                 *)
(*                                                                         *)
(* An answer is applied to its cache in the step in which it is read: two  *)
(* answers are read in any order anyway.                                   *)
(***************************************************************************)
EXTENDS Naturals, Sequences

CONSTANTS
    Req,         \* slots for requests being handled at the same time
    Candidate,   \* RECEIPT_HEADER_CANDIDATES
    DateField,   \* DATE_FIELD_CANDIDATES
    None,        \* Option::None
    Unset,       \* no entry in a cache
    Instance,    \* what a node may meet: records of serves, has, pin, pinned_date
    Lifetime,    \* of a token whose answer has expires_in
    Default,     \* of one whose answer has not
    Margin,      \* get_token renews that long before the end
    MaxTime      \* bound of the clock

\* What an entity answers to a probe: rows, rows to a filtered probe only, an error.
Service == {"bare", "filtered", "absent"}

Entity == {Candidate[i] : i \in DOMAIN Candidate}
Field  == {DateField[i] : i \in DOMAIN DateField}

ASSUME NamesAssumption ==
    /\ Candidate \in Seq(Entity) /\ Candidate # << >>
    /\ DateField \in Seq(Field) /\ DateField # << >>
    /\ None # Unset
    /\ {None, Unset} \cap (Entity \cup Field) = {}

ASSUME InstanceAssumption ==
    Instance \subseteq [serves : [Entity -> Service], has : [Entity -> SUBSET Field],
                        pin : Entity \cup {None}, pinned_date : Field \cup {None}]

ASSUME TimeAssumption ==
    Lifetime \in Nat /\ Default \in Nat /\ Margin \in Nat /\ MaxTime \in Nat

VARIABLES
    instance,  \* the D365 instance and the node's .env; never changes
    clock,
    token,     \* d365_token: its end as the node sees it, and its real end
    entity,    \* entity_cache["receiptHeaders"]
    date,      \* date_field_cache
    req,       \* the requests
    \* For the properties; no action reads it.
    failed     \* whether any exchange has failed so far

vars == <<instance, clock, token, entity, date, req, failed>>

Time  == 0..MaxTime
Token == [exp : Nat, end : Nat]

\* How far an exchange is; `now` is when it found no usable token.
Call == [step : {"token", "send"}] \cup [step : {"fetch"}, now : Time]

\* The exchange that a request is at, the candidate it tries, and the entity and
\* the date field it has settled on.
Probe == [at : {"bare", "filtered"}, i : DOMAIN Candidate, of : {Unset}, by : {Unset},
          call : Call]

Search == [at : {"field"}, i : DOMAIN DateField, of : Entity, by : {Unset}, call : Call]

Receipts == [at : {"query"}, i : {1}, of : Entity, by : Field \cup {None}, call : Call]

Busy == Probe \cup Search \cup Receipts

Idle == [at |-> "idle"]

Init ==
    /\ instance \in Instance
    /\ clock = 0
    /\ token = None
    /\ entity = Unset
    /\ date = [e \in Entity |-> Unset]
    /\ req = [r \in Req |-> Idle]
    /\ failed = FALSE

Tick ==
    /\ clock < MaxTime
    /\ clock' = clock + 1
    /\ UNCHANGED <<instance, token, entity, date, req, failed>>

-----------------------------------------------------------------------------
(* Where a request goes next: every exchange starts with get_token *)

Asking(at, i, e, f) == [at |-> at, i |-> i, of |-> e, by |-> f, call |-> [step |-> "token"]]

Query(e, f) == Asking("query", 1, e, f)

\* resolve_receipt_date_field, up to its first exchange.
DateOf(e, cache) ==
    CASE instance.pinned_date # None -> Query(e, instance.pinned_date)
      [] instance.pinned_date = None /\ cache[e] # Unset -> Query(e, cache[e])
      [] OTHER -> Asking("field", 1, e, Unset)

\* Mutant of NextCandidate: one more than there are.
NextPastEnd(i) ==
    IF i <= Len(Candidate) THEN Asking("bare", i + 1, Unset, Unset) ELSE Idle

\* No candidate left: resolve_entity is an error, and so is the request.
NextCandidate(i) ==
    IF i < Len(Candidate) THEN Asking("bare", i + 1, Unset, Unset) ELSE Idle

-----------------------------------------------------------------------------
(* get_recent_receipts, with resolve_entity up to its first exchange *)

Begin(r) ==
    /\ req[r] = Idle
    /\ req' = [req EXCEPT ![r] =
            CASE instance.pin # None -> DateOf(instance.pin, date)
              [] instance.pin = None /\ entity # Unset -> DateOf(entity, date)
              [] OTHER -> Asking("bare", 1, Unset, Unset)]
    /\ UNCHANGED <<instance, clock, token, entity, date, failed>>

-----------------------------------------------------------------------------
(* get_token *)

At(r, step) == req[r] # Idle /\ req[r].call.step = step

Send(r) == req' = [req EXCEPT ![r].call = [step |-> "send"]]

Usable == token # None /\ clock + Margin < token.exp

TokenHit(r) ==
    /\ At(r, "token")
    /\ Usable
    /\ Send(r)
    /\ UNCHANGED <<instance, clock, token, entity, date, failed>>

TokenMiss(r) ==
    /\ At(r, "token")
    /\ ~Usable
    /\ req' = [req EXCEPT ![r].call = [step |-> "fetch", now |-> clock]]
    /\ UNCHANGED <<instance, clock, token, entity, date, failed>>

\* Mutant of TokenGranted: the lifetime is counted from the answer.
TokenGrantedLate(r, issued, life) ==
    /\ At(r, "fetch")
    /\ issued \in req[r].call.now..clock
    /\ token' = [exp |-> clock + life, end |-> issued + life]
    /\ Send(r)
    /\ UNCHANGED <<instance, clock, entity, date, failed>>

\* The answer was made at some time since the request began; the node counts the
\* lifetime from the beginning, and with Default if the answer does not tell it.
TokenGranted(r, issued, life) ==
    /\ At(r, "fetch")
    /\ issued \in req[r].call.now..clock
    /\ token' = [exp |-> req[r].call.now + life, end |-> issued + life]
    /\ Send(r)
    /\ UNCHANGED <<instance, clock, entity, date, failed>>

-----------------------------------------------------------------------------
(* The answer to an exchange.  "failed" is any that says nothing about what   *)
(* was asked: no connection, no token, 401, 429, 5xx.                         *)

\* odata_raw: what D365 says of the exchange.
Answers(q) ==
    LET s == instance.serves
    IN  CASE q.at = "bare" /\ s[Candidate[q.i]] = "bare" -> {"ok"}
          [] q.at = "bare" /\ s[Candidate[q.i]] = "filtered" -> {"notfound"}
          [] q.at = "bare" /\ s[Candidate[q.i]] = "absent" -> {"notfound", "other"}
          [] q.at = "filtered" /\ s[Candidate[q.i]] # "absent" -> {"ok"}
          [] q.at = "filtered" /\ s[Candidate[q.i]] = "absent" -> {"notfound", "other"}
          [] q.at = "field" /\ DateField[q.i] \in instance.has[q.of] -> {"ok"}
          [] q.at = "field" /\ DateField[q.i] \notin instance.has[q.of] -> {"noproperty"}
          [] q.at = "query" -> {"ok"}

Become(r, q) == req' = [req EXCEPT ![r] = q]

\* Mutant of BareProbe: an entity that is not found is taken all the same.
BareProbeAccepts(r, answer) ==
    LET q == req[r]
        e == Candidate[q.i]
    IN  /\ q.at = "bare"
        /\ entity' = IF answer \in {"ok", "other"} THEN e ELSE entity
        /\ Become(r, CASE answer \in {"ok", "other"} -> DateOf(e, date)
                       [] answer = "notfound" -> Asking("filtered", q.i, Unset, Unset)
                       [] answer = "failed" -> NextCandidate(q.i))
        /\ UNCHANGED date

\* Mutant of BareProbe: no second pass.
BareProbeOnly(r, answer) ==
    LET q == req[r]
        e == Candidate[q.i]
    IN  /\ q.at = "bare"
        /\ entity' = IF answer = "ok" THEN e ELSE entity
        /\ Become(r, IF answer = "ok" THEN DateOf(e, date) ELSE NextCandidate(q.i))
        /\ UNCHANGED date

\* resolve_entity, first pass.
BareProbe(r, answer) ==
    LET q == req[r]
        e == Candidate[q.i]
    IN  /\ q.at = "bare"
        /\ entity' = IF answer = "ok" THEN e ELSE entity
        /\ Become(r, CASE answer = "ok" -> DateOf(e, date)
                       [] answer = "notfound" -> Asking("filtered", q.i, Unset, Unset)
                       [] answer \in {"other", "failed"} -> NextCandidate(q.i))
        /\ UNCHANGED date

\* resolve_entity, second pass, after a 404.
FilteredProbe(r, answer) ==
    LET q == req[r]
        e == Candidate[q.i]
    IN  /\ q.at = "filtered"
        /\ entity' = IF answer = "ok" THEN e ELSE entity
        /\ Become(r, IF answer = "ok" THEN DateOf(e, date) ELSE NextCandidate(q.i))
        /\ UNCHANGED date

\* Mutant of FieldProbe: the date field is remembered for every entity.
FieldProbeForAll(r, answer) ==
    LET q     == req[r]
        more  == answer = "noproperty" /\ q.i < Len(DateField)
        found == IF answer = "ok" THEN DateField[q.i] ELSE None
    IN  /\ q.at = "field"
        /\ date' = IF more THEN date ELSE [e \in Entity |-> found]
        /\ Become(r, IF more THEN Asking("field", q.i + 1, q.of, Unset)
                     ELSE Query(q.of, found))
        /\ UNCHANGED entity

\* resolve_receipt_date_field: any error but an unknown property ends the search,
\* and what it ends with is remembered.
FieldProbe(r, answer) ==
    LET q     == req[r]
        more  == answer = "noproperty" /\ q.i < Len(DateField)
        found == IF answer = "ok" THEN DateField[q.i] ELSE None
    IN  /\ q.at = "field"
        /\ date' = IF more THEN date ELSE [date EXCEPT ![q.of] = found]
        /\ Become(r, IF more THEN Asking("field", q.i + 1, q.of, Unset)
                     ELSE Query(q.of, found))
        /\ UNCHANGED entity

\* The receipts, or an error.
QueryAnswered(r) ==
    /\ req[r].at = "query"
    /\ Become(r, Idle)
    /\ UNCHANGED <<entity, date>>

Apply(r, answer) ==
    \/ BareProbe(r, answer) \/ FilteredProbe(r, answer) \/ FieldProbe(r, answer)
    \/ QueryAnswered(r)

Answered(r) ==
    /\ At(r, "send")
    /\ \E answer \in Answers(req[r]) : Apply(r, answer)
    /\ UNCHANGED <<instance, clock, token, failed>>

\* The token request or the exchange itself fails.
Fails(r) ==
    /\ At(r, "fetch") \/ At(r, "send")
    /\ Apply(r, "failed")
    /\ failed' = TRUE
    /\ UNCHANGED <<instance, clock, token>>

-----------------------------------------------------------------------------
GetToken(r) ==
    \/ TokenHit(r) \/ TokenMiss(r)
    \/ \E issued \in Time, life \in {Lifetime, Default} : TokenGranted(r, issued, life)

Next ==
    \/ Tick
    \/ \E r \in Req : Begin(r) \/ GetToken(r) \/ Answered(r) \/ Fails(r)

Spec == Init /\ [][Next]_vars

-----------------------------------------------------------------------------
(* What the searches should find *)

Served == {i \in DOMAIN Candidate : instance.serves[Candidate[i]] # "absent"}

Known(e) == {i \in DOMAIN DateField : DateField[i] \in instance.has[e]}

First(S) == CHOOSE i \in S : \A j \in S : i <= j

EntityFound == IF Served = {} THEN Unset ELSE Candidate[First(Served)]

DateFound(e) == IF Known(e) = {} THEN None ELSE DateField[First(Known(e))]

-----------------------------------------------------------------------------
(* Properties *)

TypeOK ==
    /\ instance \in Instance
    /\ clock \in Time
    /\ token \in Token \cup {None}
    /\ entity \in Entity \cup {Unset}
    /\ date \in [Entity -> Field \cup {None, Unset}]
    /\ req \in [Req -> Busy \cup {Idle}]
    /\ failed \in BOOLEAN

\* "Acquire (and cache) an OData bearer token": a token that a request takes from
\* the cache is good for longer than the margin when it is taken, however long
\* the token requests took and in whichever order overlapping ones stored theirs.
TokenOutlivesMargin ==
    [][ \A r \in Req :
            TokenHit(r) => clock + Margin < token.end ]_vars

\* As long as no exchange has failed, the searches find what they should, the
\* first candidate that the instance serves and its first date field, for every
\* request, however requests that missed a cache together overlap.
FindsFirst ==
    ~failed => /\ entity \in {Unset, EntityFound}
               /\ \A e \in Entity : date[e] \in {Unset, DateFound(e)}
               /\ \A r \in Req : req[r] # Idle /\ req[r].at = "query" /\ instance.pin = None
                                     => req[r].of = EntityFound

\* Failures may make the node settle on a later candidate, or on no date filter,
\* but never on an entity that the instance does not serve.
OnlyServed ==
    entity # Unset => instance.serves[entity] # "absent"

\* A query never filters by a field that its entity does not have (unless .env
\* says so), even when two requests have settled on different entities.
FilterFits ==
    \A r \in Req :
        req[r] # Idle /\ req[r].at = "query" /\ instance.pinned_date = None
            => req[r].by \in instance.has[req[r].of] \cup {None}
=============================================================================
