-------------------------- MODULE D365CacheProofs --------------------------
(***************************************************************************)
(* What the caches of the D365 client hold, for any number of requests,    *)
(* any candidates and instances, any lifetime of a token and any failures. *)
(***************************************************************************)
EXTENDS D365Cache, SequenceTheorems, TLAPS

\* A node never takes a token to live longer than it does.
ExpNeverLate == token # None => token.exp <= token.end

\* A remembered date field is one that its entity has.
FieldsKnown == \A e \in Entity : date[e] \in instance.has[e] \cup {None, Unset}

Inv == TypeOK /\ ExpNeverLate /\ OnlyServed /\ FieldsKnown /\ FilterFits

\* What a query of this request would have to be.
Fits(q) ==
    q.at = "query" /\ instance.pinned_date = None => q.by \in instance.has[q.of] \cup {None}

LEMMA Names ==
    /\ \A i \in DOMAIN Candidate : Candidate[i] \in Entity
    /\ \A i \in DOMAIN DateField : DateField[i] \in Field
    /\ Len(Candidate) \in Nat \ {0} /\ DOMAIN Candidate = 1..Len(Candidate)
    /\ Len(DateField) \in Nat \ {0} /\ DOMAIN DateField = 1..Len(DateField)
    /\ None # Unset /\ Unset \notin Entity /\ None \notin Entity
    /\ Unset \notin Field /\ None \notin Field
<1>1. Candidate \in Seq(Entity) /\ Candidate # << >> /\ DateField \in Seq(Field) /\ DateField # << >>
  BY NamesAssumption
<1>2. /\ Len(Candidate) \in Nat \ {0} /\ DOMAIN Candidate = 1..Len(Candidate)
      /\ Len(DateField) \in Nat \ {0} /\ DOMAIN DateField = 1..Len(DateField)
  BY <1>1, LenProperties, EmptySeq
<1>3. /\ \A i \in DOMAIN Candidate : Candidate[i] \in Entity
      /\ \A i \in DOMAIN DateField : DateField[i] \in Field
  BY DEF Entity, Field
<1>4. /\ None # Unset /\ Unset \notin Entity /\ None \notin Entity
      /\ Unset \notin Field /\ None \notin Field
  BY NamesAssumption
<1>. QED BY <1>2, <1>3, <1>4

LEMMA InstanceParts ==
    ASSUME TypeOK
    PROVE  /\ instance.serves \in [Entity -> Service]
           /\ instance.has \in [Entity -> SUBSET Field]
           /\ instance.pin \in Entity \cup {None}
           /\ instance.pinned_date \in Field \cup {None}
BY InstanceAssumption DEF TypeOK

\* Where a request goes is where requests can be.
LEMMA NextCandidateBusy ==
    ASSUME NEW i \in DOMAIN Candidate
    PROVE  NextCandidate(i) \in Busy \cup {Idle} /\ NextCandidate(i).at # "query"
<1>1. CASE i < Len(Candidate)
  <2>1. i + 1 \in DOMAIN Candidate
    BY <1>1, Names
  <2>2. Asking("bare", i + 1, Unset, Unset) \in Probe
    BY <2>1 DEF Asking, Probe, Call
  <2>. QED BY <1>1, <2>2 DEF NextCandidate, Busy, Asking
<1>2. CASE ~(i < Len(Candidate))
  BY <1>2 DEF NextCandidate, Idle
<1>. QED BY <1>1, <1>2

LEMMA QueryBusy ==
    ASSUME NEW e \in Entity, NEW f \in Field \cup {None}
    PROVE  Query(e, f) \in Busy
BY DEF Query, Asking, Receipts, Call, Busy

LEMMA SearchBusy ==
    ASSUME NEW e \in Entity, NEW i \in DOMAIN DateField
    PROVE  Asking("field", i, e, Unset) \in Busy
BY DEF Asking, Search, Call, Busy

LEMMA DateOfBusy ==
    ASSUME TypeOK, FieldsKnown, NEW e \in Entity
    PROVE  DateOf(e, date) \in Busy /\ Fits(DateOf(e, date))
<1>0. date[e] \in Field \cup {None, Unset} /\ instance.pinned_date \in Field \cup {None}
  BY InstanceParts DEF TypeOK
<1>1. CASE instance.pinned_date # None
  <2>1. DateOf(e, date) = Query(e, instance.pinned_date)
    BY <1>1 DEF DateOf
  <2>. QED BY <1>0, <1>1, <2>1, QueryBusy DEF Fits
<1>2. CASE instance.pinned_date = None /\ date[e] # Unset
  <2>1. DateOf(e, date) = Query(e, date[e])
    BY <1>2 DEF DateOf
  <2>2. date[e] \in Field \cup {None} /\ date[e] \in instance.has[e] \cup {None}
    BY <1>0, <1>2 DEF FieldsKnown
  <2>. QED BY <2>1, <2>2, QueryBusy DEF Fits, Query, Asking
<1>3. CASE instance.pinned_date = None /\ date[e] = Unset
  <2>1. DateOf(e, date) = Asking("field", 1, e, Unset)
    BY <1>3 DEF DateOf
  <2>2. 1 \in DOMAIN DateField
    BY Names
  <2>. QED BY <2>1, <2>2, SearchBusy DEF Fits, Asking
<1>. QED BY <1>1, <1>2, <1>3

\* A request that moves leaves the others where they are.
LEMMA Moves ==
    ASSUME Inv, NEW r \in Req, NEW q \in Busy \cup {Idle}, Become(r, q), Fits(q),
           UNCHANGED instance
    PROVE  req' \in [Req -> Busy \cup {Idle}] /\ FilterFits'
<1>1. req' = [req EXCEPT ![r] = q] /\ req \in [Req -> Busy \cup {Idle}]
  BY DEF Inv, TypeOK, Become
<1>2. ASSUME NEW t \in Req, req'[t] # Idle, req'[t].at = "query", instance.pinned_date = None
      PROVE  req'[t].by \in instance.has[req'[t].of] \cup {None}
  BY <1>1, <1>2 DEF Inv, FilterFits, Fits
<1>. QED BY <1>1, <1>2 DEF FilterFits

LEMMA InvInit == Init => Inv
<1> SUFFICES ASSUME Init PROVE Inv
  OBVIOUS
<1>1. TypeOK
  <2>1. clock \in Time
    BY TimeAssumption DEF Init, Time
  <2>2. date \in [Entity -> Field \cup {None, Unset}]
    BY DEF Init
  <2>3. req \in [Req -> Busy \cup {Idle}]
    BY DEF Init
  <2>. QED BY <2>1, <2>2, <2>3 DEF Init, TypeOK
<1>. QED
  BY <1>1 DEF Init, Inv, ExpNeverLate, OnlyServed, FieldsKnown, FilterFits

\* What the exchange of a request changes.
LEMMA ApplyKeeps ==
    ASSUME Inv, NEW r \in Req, req[r] # Idle, NEW answer, Apply(r, answer),
           answer = "failed" \/ answer \in Answers(req[r]),
           UNCHANGED <<instance, clock, token>>, failed' \in BOOLEAN
    PROVE  Inv'
<1> DEFINE q == req[r]
<1>0. q \in Busy /\ TypeOK /\ FieldsKnown
  BY DEF Inv, TypeOK
<1>1. CASE BareProbe(r, answer) \/ FilteredProbe(r, answer)
  <2> DEFINE e == Candidate[q.i]
  <2>1. q.at \in {"bare", "filtered"} /\ q.i \in DOMAIN Candidate /\ e \in Entity
    BY <1>0, <1>1, Names DEF BareProbe, FilteredProbe, Busy, Probe, Search, Receipts
  <2>2. answer = "ok" => instance.serves[e] # "absent"
    BY <2>1 DEF Answers
  <2>3. /\ entity' = IF answer = "ok" THEN e ELSE entity
        /\ date' = date
    BY <1>1 DEF BareProbe, FilteredProbe
  <2>4. Become(r, DateOf(e, date)) \/ Become(r, NextCandidate(q.i))
            \/ Become(r, Asking("filtered", q.i, Unset, Unset))
    <3>1. CASE FilteredProbe(r, answer)
      BY <3>1 DEF FilteredProbe
    <3>2. CASE BareProbe(r, answer) /\ answer = "ok"
      <4>1. Become(r, DateOf(e, date))
        BY <3>2 DEF BareProbe
      <4>. QED BY <4>1
    <3>3. CASE BareProbe(r, answer) /\ answer = "notfound"
      <4>1. Become(r, Asking("filtered", q.i, Unset, Unset))
        BY <3>3 DEF BareProbe
      <4>. QED BY <4>1
    <3>4. CASE BareProbe(r, answer) /\ answer \in {"other", "failed"}
      <4>1. Become(r, NextCandidate(q.i))
        BY <3>4 DEF BareProbe
      <4>. QED BY <4>1
    <3>5. BareProbe(r, answer) => answer \in {"ok", "notfound", "other", "failed"}
      BY <2>1, InstanceParts, <1>0 DEF BareProbe, Answers, Service
    <3>. QED BY <1>1, <3>1, <3>2, <3>3, <3>4, <3>5
  <2>5. PICK p \in {DateOf(e, date), Asking("filtered", q.i, Unset, Unset),
                     NextCandidate(q.i)} : Become(r, p)
    BY <2>4
  <2>6. Asking("filtered", q.i, Unset, Unset) \in Busy
    BY <2>1 DEF Asking, Probe, Call, Busy
  <2>7. p \in Busy \cup {Idle} /\ Fits(p)
    BY <1>0, <2>1, <2>5, <2>6, DateOfBusy, NextCandidateBusy DEF Fits, Asking
  <2>8. req' \in [Req -> Busy \cup {Idle}] /\ FilterFits'
    BY <2>5, <2>7, Moves
  <2>9. TypeOK'
    BY <1>0, <2>1, <2>3, <2>8 DEF TypeOK
  <2>10. OnlyServed'
    BY <2>2, <2>3 DEF Inv, OnlyServed
  <2>11. FieldsKnown' /\ ExpNeverLate'
    BY <2>3 DEF Inv, FieldsKnown, ExpNeverLate
  <2>. QED BY <2>8, <2>9, <2>10, <2>11 DEF Inv
<1>2. CASE FieldProbe(r, answer)
  <2> DEFINE found == IF answer = "ok" THEN DateField[q.i] ELSE None
             more  == answer = "noproperty" /\ q.i < Len(DateField)
  <2>1. q.at = "field" /\ q.i \in DOMAIN DateField /\ q.of \in Entity
    BY <1>0, <1>2 DEF FieldProbe, Busy, Probe, Search, Receipts
  <2>2. found \in Field \cup {None} /\ found \in instance.has[q.of] \cup {None}
    BY <2>1, Names DEF Answers
  <2>3. /\ entity' = entity
        /\ date' = IF more THEN date ELSE [date EXCEPT ![q.of] = found]
        /\ Become(r, IF more THEN Asking("field", q.i + 1, q.of, Unset) ELSE Query(q.of, found))
    BY <1>2 DEF FieldProbe
  <2>. HIDE DEF found
  <2>4. CASE more
    <3>1. q.i + 1 \in DOMAIN DateField
      BY <2>1, <2>4, Names
    <3>2. Asking("field", q.i + 1, q.of, Unset) \in Busy
      BY <2>1, <3>1, SearchBusy
    <3>3. Fits(Asking("field", q.i + 1, q.of, Unset))
      BY DEF Fits, Asking
    <3>. QED BY <2>3, <2>4, <3>2, <3>3, Moves
           DEF Inv, TypeOK, OnlyServed, FieldsKnown, ExpNeverLate
  <2>5. CASE ~more
    <3>1. Query(q.of, found) \in Busy /\ Fits(Query(q.of, found))
      BY <2>1, <2>2, QueryBusy DEF Fits, Query, Asking
    <3>2. req' \in [Req -> Busy \cup {Idle}] /\ FilterFits'
      BY <2>3, <2>5, <3>1, Moves
    <3>3. date' = [date EXCEPT ![q.of] = found] /\ entity' = entity
      BY <2>3, <2>5
    <3>4. TypeOK'
      BY <1>0, <2>1, <2>2, <3>2, <3>3 DEF TypeOK
    <3>5. FieldsKnown'
      BY <1>0, <2>1, <2>2, <3>3 DEF TypeOK, FieldsKnown
    <3>6. OnlyServed' /\ ExpNeverLate'
      BY <3>3 DEF Inv, OnlyServed, ExpNeverLate
    <3>. QED BY <3>2, <3>4, <3>5, <3>6 DEF Inv
  <2>. QED BY <2>4, <2>5
<1>3. CASE QueryAnswered(r)
  <2>1. Become(r, Idle) /\ entity' = entity /\ date' = date /\ Fits(Idle)
    BY <1>3 DEF QueryAnswered, Fits, Idle
  <2>. QED BY <2>1, Moves DEF Inv, TypeOK, OnlyServed, FieldsKnown, ExpNeverLate
<1>. QED BY <1>1, <1>2, <1>3 DEF Apply

\* A request that goes on with its exchange has the same candidate and query.
LEMMA CallKeeps ==
    ASSUME Inv, NEW r \in Req, req[r] # Idle, NEW c \in Call,
           req' = [req EXCEPT ![r].call = c], UNCHANGED instance
    PROVE  req' \in [Req -> Busy \cup {Idle}] /\ FilterFits'
<1>1. req[r] \in Busy /\ req \in [Req -> Busy \cup {Idle}]
  BY DEF Inv, TypeOK
<1>2. req' = [req EXCEPT ![r] = [req[r] EXCEPT !.call = c]]
  OBVIOUS
<1>3. [req[r] EXCEPT !.call = c] \in Busy
  BY <1>1 DEF Busy, Probe, Search, Receipts
<1>4. Fits([req[r] EXCEPT !.call = c])
  BY <1>1 DEF Inv, FilterFits, Fits, Busy, Probe, Search, Receipts
<1>. QED BY <1>2, <1>3, <1>4, Moves DEF Become

LEMMA InvNext == Inv /\ [Next]_vars => Inv'
<1> SUFFICES ASSUME Inv, [Next]_vars PROVE Inv'
  OBVIOUS
<1>0. TypeOK /\ FieldsKnown /\ req \in [Req -> Busy \cup {Idle}]
  BY DEF Inv, TypeOK
<1>1. CASE Tick
  BY <1>1, TimeAssumption
     DEF Tick, Inv, TypeOK, Time, ExpNeverLate, OnlyServed, FieldsKnown, FilterFits
<1>2. ASSUME NEW r \in Req, Begin(r) PROVE Inv'
  <2> DEFINE q == CASE instance.pin # None -> DateOf(instance.pin, date)
                    [] instance.pin = None /\ entity # Unset -> DateOf(entity, date)
                    [] OTHER -> Asking("bare", 1, Unset, Unset)
  <2>1. Become(r, q) /\ UNCHANGED <<instance, clock, token, entity, date, failed>>
    BY <1>2 DEF Begin, Become
  <2>2. /\ instance.pin # None => q = DateOf(instance.pin, date)
        /\ instance.pin = None /\ entity # Unset => q = DateOf(entity, date)
        /\ instance.pin = None /\ entity = Unset => q = Asking("bare", 1, Unset, Unset)
    OBVIOUS
  <2>. HIDE DEF q
  <2>3. Asking("bare", 1, Unset, Unset) \in Busy /\ Fits(Asking("bare", 1, Unset, Unset))
    <3>1. 1 \in DOMAIN Candidate
      BY Names
    <3>. QED BY <3>1 DEF Asking, Probe, Call, Busy, Fits
  <2>4. ASSUME NEW e \in Entity PROVE DateOf(e, date) \in Busy /\ Fits(DateOf(e, date))
    BY <1>0, DateOfBusy
  <2>5. q \in Busy \cup {Idle} /\ Fits(q)
    <3>1. instance.pin \in Entity \cup {None} /\ entity \in Entity \cup {Unset}
      BY <1>0, InstanceParts DEF TypeOK
    <3>. QED BY <2>2, <2>3, <2>4, <3>1
  <2>6. req' \in [Req -> Busy \cup {Idle}] /\ FilterFits'
    BY <2>1, <2>5, Moves
  <2>. QED BY <1>0, <2>1, <2>6 DEF Inv, TypeOK, OnlyServed, FieldsKnown, ExpNeverLate
<1>3. ASSUME NEW r \in Req, TokenHit(r) PROVE Inv'
  <2>1. /\ req[r] # Idle /\ req' = [req EXCEPT ![r].call = [step |-> "send"]]
        /\ UNCHANGED <<instance, clock, token, entity, date, failed>>
    BY <1>3 DEF TokenHit, At, Send
  <2>2. [step |-> "send"] \in Call
    BY DEF Call
  <2>3. req' \in [Req -> Busy \cup {Idle}] /\ FilterFits'
    BY <2>1, <2>2, CallKeeps
  <2>. QED BY <1>0, <2>1, <2>3 DEF Inv, TypeOK, OnlyServed, FieldsKnown, ExpNeverLate
<1>4. ASSUME NEW r \in Req, TokenMiss(r) PROVE Inv'
  <2>1. /\ req[r] # Idle /\ req' = [req EXCEPT ![r].call = [step |-> "fetch", now |-> clock]]
        /\ UNCHANGED <<instance, clock, token, entity, date, failed>>
    BY <1>4 DEF TokenMiss, At
  <2>2. [step |-> "fetch", now |-> clock] \in Call
    BY <1>0 DEF Call, TypeOK
  <2>3. req' \in [Req -> Busy \cup {Idle}] /\ FilterFits'
    BY <2>1, <2>2, CallKeeps
  <2>. QED BY <1>0, <2>1, <2>3 DEF Inv, TypeOK, OnlyServed, FieldsKnown, ExpNeverLate
<1>5. ASSUME NEW r \in Req, NEW issued \in Time, NEW life \in {Lifetime, Default},
             TokenGranted(r, issued, life)
      PROVE  Inv'
  <2> DEFINE now == req[r].call.now
  <2>1. /\ req[r] # Idle /\ req[r].call.step = "fetch"
        /\ req' = [req EXCEPT ![r].call = [step |-> "send"]]
        /\ token' = [exp |-> now + life, end |-> issued + life]
        /\ issued \in now..clock
        /\ UNCHANGED <<instance, clock, entity, date, failed>>
    BY <1>5 DEF TokenGranted, At, Send
  <2>2. [step |-> "send"] \in Call
    BY DEF Call
  <2>3. req' \in [Req -> Busy \cup {Idle}] /\ FilterFits'
    BY <2>1, <2>2, CallKeeps
  <2>4. now \in Nat
    <3>1. req[r].call \in Call
      BY <1>0, <2>1 DEF Busy, Probe, Search, Receipts
    <3>. QED BY <2>1, <3>1 DEF Call, Time
  <2>5. issued \in Nat /\ life \in Nat /\ now <= issued
    BY <2>1, <2>4, TimeAssumption DEF Time
  <2>6. token' \in Token /\ token'.exp <= token'.end
    BY <2>1, <2>4, <2>5 DEF Token
  <2>. QED BY <1>0, <2>1, <2>3, <2>6 DEF Inv, TypeOK, OnlyServed, FieldsKnown, ExpNeverLate
<1>6. ASSUME NEW r \in Req, Answered(r) PROVE Inv'
  <2>1. /\ req[r] # Idle /\ UNCHANGED <<instance, clock, token, failed>>
        /\ \E answer \in Answers(req[r]) : Apply(r, answer)
    BY <1>6 DEF Answered, At
  <2>2. failed' \in BOOLEAN
    BY <1>0, <2>1 DEF TypeOK
  <2>. QED BY <2>1, <2>2, ApplyKeeps
<1>7. ASSUME NEW r \in Req, Fails(r) PROVE Inv'
  <2>1. /\ req[r] # Idle /\ UNCHANGED <<instance, clock, token>>
        /\ Apply(r, "failed") /\ failed' \in BOOLEAN
    BY <1>7 DEF Fails, At
  <2>. QED BY <2>1, ApplyKeeps
<1>8. CASE UNCHANGED vars
  BY <1>8 DEF vars, Inv, TypeOK, ExpNeverLate, OnlyServed, FieldsKnown, FilterFits
<1>. QED
  BY <1>1, <1>2, <1>3, <1>4, <1>5, <1>6, <1>7, <1>8 DEF Next, GetToken

\* Every variable keeps its type: the caches hold entities and fields of the
\* candidates, whatever the instance answers.
THEOREM TypeCorrect == Spec => []TypeOK
<1>1. Inv => TypeOK
  BY DEF Inv
<1>. QED BY <1>1, InvInit, InvNext, PTL DEF Spec

\* Whatever fails and however requests overlap, the node settles on no entity
\* that the instance does not serve.
THEOREM SettlesOnServed == Spec => []OnlyServed
<1>1. Inv => OnlyServed
  BY DEF Inv
<1>. QED BY <1>1, InvInit, InvNext, PTL DEF Spec

\* Whatever fails and however requests overlap, a query filters by a field that
\* its entity has, or by none.
THEOREM FiltersFit == Spec => []FilterFits
<1>1. Inv => FilterFits
  BY DEF Inv
<1>. QED BY <1>1, InvInit, InvNext, PTL DEF Spec

\* A token taken from the cache is good for longer than the margin, for every
\* lifetime and margin and however long the exchanges take.
THEOREM CachedTokensLive == Spec => TokenOutlivesMargin
<1>1. ASSUME Inv, NEW r \in Req, TokenHit(r) PROVE clock + Margin < token.end
  <2>1. token # None /\ clock + Margin < token.exp /\ token.exp <= token.end
    BY <1>1 DEF TokenHit, Usable, Inv, ExpNeverLate
  <2>2. token \in Token /\ clock \in Nat /\ Margin \in Nat
    BY <1>1, <2>1, TimeAssumption DEF Inv, TypeOK, Time
  <2>3. token.exp \in Nat /\ token.end \in Nat
    BY <2>2 DEF Token
  <2>. QED BY <2>1, <2>2, <2>3
<1>2. Inv /\ [Next]_vars => [\A r \in Req : TokenHit(r) => clock + Margin < token.end]_vars
  BY <1>1
<1>. QED BY <1>2, InvInit, InvNext, PTL DEF Spec, TokenOutlivesMargin

-----------------------------------------------------------------------------
(* What the searches find while no exchange fails *)

\* A search has passed over nothing that it should have found.
Proper(q) ==
    /\ q.at \in {"bare", "filtered"} =>
        /\ instance.pin = None
        /\ \A j \in DOMAIN Candidate : j < q.i => instance.serves[Candidate[j]] = "absent"
    /\ q.at = "field" =>
        \A j \in DOMAIN DateField : j < q.i => DateField[j] \notin instance.has[q.of]
    /\ q.at \in {"field", "query"} /\ instance.pin = None => q.of = EntityFound

CachesRight == /\ entity \in {Unset, EntityFound}
               /\ \A e \in Entity : date[e] \in {Unset, DateFound(e)}

SearchInv ==
    ~failed => /\ CachesRight
               /\ \A r \in Req : req[r] # Idle => Proper(req[r])

\* The first element of a set of naturals that has one.
LEMMA FirstIs ==
    ASSUME NEW S \in SUBSET Nat, NEW i \in S, \A j \in S : i <= j
    PROVE  First(S) = i
<1>1. First(S) \in S /\ \A j \in S : First(S) <= j
  BY DEF First
<1>2. First(S) <= i /\ i <= First(S) /\ First(S) \in Nat /\ i \in Nat
  BY <1>1
<1>. QED BY <1>2

\* The first candidate that answers is the one to find.
LEMMA FirstServed ==
    ASSUME NEW i \in DOMAIN Candidate, instance.serves[Candidate[i]] # "absent",
           \A j \in DOMAIN Candidate : j < i => instance.serves[Candidate[j]] = "absent"
    PROVE  EntityFound = Candidate[i]
<1>1. Served \in SUBSET Nat /\ i \in Served
  BY Names DEF Served
<1>2. \A j \in Served : i <= j
  BY Names DEF Served
<1>3. First(Served) = i
  BY <1>1, <1>2, FirstIs
<1>. QED BY <1>1, <1>3 DEF EntityFound

\* The first field that the entity has is the one to find.
LEMMA FirstKnown ==
    ASSUME NEW e \in Entity, NEW i \in DOMAIN DateField, DateField[i] \in instance.has[e],
           \A j \in DOMAIN DateField : j < i => DateField[j] \notin instance.has[e]
    PROVE  DateFound(e) = DateField[i]
<1>1. Known(e) \in SUBSET Nat /\ i \in Known(e)
  BY Names DEF Known
<1>2. \A j \in Known(e) : i <= j
  BY Names DEF Known
<1>3. First(Known(e)) = i
  BY <1>1, <1>2, FirstIs
<1>. QED BY <1>1, <1>3 DEF DateFound

\* The search for a date field of the right entity starts right.
LEMMA DateOfProper ==
    ASSUME NEW e \in Entity, instance.pin = None => e = EntityFound
    PROVE  Proper(DateOf(e, date))
<1>1. CASE instance.pinned_date # None
  <2>1. DateOf(e, date) = Query(e, instance.pinned_date)
    BY <1>1 DEF DateOf
  <2>. QED BY <2>1 DEF Proper, Query, Asking
<1>2. CASE instance.pinned_date = None /\ date[e] # Unset
  <2>1. DateOf(e, date) = Query(e, date[e])
    BY <1>2 DEF DateOf
  <2>. QED BY <2>1 DEF Proper, Query, Asking
<1>3. CASE instance.pinned_date = None /\ date[e] = Unset
  <2>1. DateOf(e, date) = Asking("field", 1, e, Unset)
    BY <1>3 DEF DateOf
  <2>. QED BY <2>1, Names DEF Proper, Asking
<1>. QED BY <1>1, <1>2, <1>3

\* A candidate that does not answer is passed over.
LEMMA NextProper ==
    ASSUME NEW i \in DOMAIN Candidate, instance.pin = None,
           \A j \in DOMAIN Candidate : j <= i => instance.serves[Candidate[j]] = "absent"
    PROVE  NextCandidate(i) # Idle => Proper(NextCandidate(i))
<1> SUFFICES ASSUME NextCandidate(i) # Idle PROVE Proper(NextCandidate(i))
  OBVIOUS
<1>1. NextCandidate(i) = Asking("bare", i + 1, Unset, Unset)
  BY DEF NextCandidate
<1>. QED BY <1>1, Names DEF Proper, Asking

\* A step of one request that leaves it and the caches right.
LEMMA SearchStep ==
    ASSUME Inv, SearchInv, ~failed, NEW r \in Req, NEW q, Become(r, q),
           q # Idle => Proper(q), UNCHANGED instance, CachesRight'
    PROVE  SearchInv'
<1>1. req'[r] = q /\ \A t \in Req \ {r} : req'[t] = req[t]
  BY DEF Inv, TypeOK, Become
<1>2. ASSUME NEW t \in Req, req'[t] # Idle PROVE Proper(req[t])'
  <2>1. Proper(req'[t])
    BY <1>1, <1>2 DEF SearchInv
  <2>. QED BY <2>1 DEF Proper, EntityFound, Served
<1>. QED BY <1>2 DEF SearchInv

\* Nothing is settled and nobody searches at first.
LEMMA SearchInvInit == Init => SearchInv
BY DEF Init, SearchInv, CachesRight

\* An answer that is no failure moves a search to the right place.
LEMMA AnsweredProper ==
    ASSUME Inv, SearchInv, ~failed, NEW r \in Req, req[r] # Idle,
           NEW answer \in Answers(req[r]), Apply(r, answer), UNCHANGED instance
    PROVE  SearchInv'
<1> DEFINE q == req[r]
<1>0. q \in Busy /\ TypeOK /\ CachesRight /\ Proper(q)
  BY DEF Inv, TypeOK, SearchInv
<1>1. CASE BareProbe(r, answer) \/ FilteredProbe(r, answer)
  <2> DEFINE e == Candidate[q.i]
  <2>1. q.at \in {"bare", "filtered"} /\ q.i \in DOMAIN Candidate /\ e \in Entity
        /\ instance.serves[e] \in Service
    BY <1>0, <1>1, Names, InstanceParts DEF BareProbe, FilteredProbe, Busy, Probe, Search, Receipts
  <2>2. /\ instance.pin = None
        /\ \A j \in DOMAIN Candidate : j < q.i => instance.serves[Candidate[j]] = "absent"
    BY <1>0, <2>1 DEF Proper
  <2>3. date' = date /\ entity' = IF answer = "ok" THEN e ELSE entity
    BY <1>1 DEF BareProbe, FilteredProbe
  <2>4. CASE answer = "ok"
    <3>1. instance.serves[e] # "absent"
      BY <2>1, <2>4 DEF Answers
    <3>2. EntityFound = e
      BY <2>1, <2>2, <3>1, FirstServed
    <3>3. CachesRight'
      BY <1>0, <2>3, <2>4, <3>2 DEF CachesRight, EntityFound, Served, DateFound, Known
    <3>4. Become(r, DateOf(e, date))
      BY <1>1, <2>4 DEF BareProbe, FilteredProbe
    <3>. QED BY <2>1, <3>2, <3>3, <3>4, DateOfProper, SearchStep
  <2>5. CASE answer # "ok"
    <3>1. CachesRight'
      BY <1>0, <2>3, <2>5 DEF CachesRight, EntityFound, Served, DateFound, Known
    <3>2. Become(r, Asking("filtered", q.i, Unset, Unset))
          \/ (Become(r, NextCandidate(q.i)) /\ instance.serves[e] = "absent")
      <4>1. CASE q.at = "filtered"
        <5>1. instance.serves[e] = "absent"
          BY <2>1, <2>5, <4>1 DEF Answers
        <5>2. Become(r, NextCandidate(q.i))
          BY <1>1, <2>5, <4>1 DEF BareProbe, FilteredProbe
        <5>. QED BY <5>1, <5>2
      <4>2. CASE q.at = "bare" /\ answer = "notfound"
        <5>1. BareProbe(r, answer)
          BY <1>1, <4>2 DEF FilteredProbe
        <5>2. Become(r, Asking("filtered", q.i, Unset, Unset))
          BY <4>2, <5>1 DEF BareProbe
        <5>. QED BY <5>2
      <4>3. CASE q.at = "bare" /\ answer # "notfound"
        <5>1. BareProbe(r, answer)
          BY <1>1, <4>3 DEF FilteredProbe
        <5>2. answer = "other" /\ instance.serves[e] = "absent"
          BY <2>1, <2>5, <4>3 DEF Answers, Service
        <5>3. Become(r, NextCandidate(q.i))
          BY <5>1, <5>2 DEF BareProbe
        <5>. QED BY <5>2, <5>3
      <4>. QED BY <2>1, <4>1, <4>2, <4>3
    <3>3. CASE Become(r, Asking("filtered", q.i, Unset, Unset))
      <4>1. Proper(Asking("filtered", q.i, Unset, Unset))
        BY <2>2 DEF Proper, Asking
      <4>. QED BY <3>1, <3>3, <4>1, SearchStep
    <3>4. CASE Become(r, NextCandidate(q.i)) /\ instance.serves[e] = "absent"
      <4>1. \A j \in DOMAIN Candidate : j <= q.i => instance.serves[Candidate[j]] = "absent"
        BY <2>1, <2>2, <3>4, Names
      <4>2. NextCandidate(q.i) # Idle => Proper(NextCandidate(q.i))
        BY <2>1, <2>2, <4>1, NextProper
      <4>. QED BY <3>1, <3>4, <4>2, SearchStep
    <3>. QED BY <3>2, <3>3, <3>4
  <2>. QED BY <2>4, <2>5
<1>2. CASE FieldProbe(r, answer)
  <2> DEFINE found == IF answer = "ok" THEN DateField[q.i] ELSE None
             more  == answer = "noproperty" /\ q.i < Len(DateField)
  <2>1. q.at = "field" /\ q.i \in DOMAIN DateField /\ q.of \in Entity
    BY <1>0, <1>2 DEF FieldProbe, Busy, Probe, Search, Receipts
  <2>2. /\ \A j \in DOMAIN DateField : j < q.i => DateField[j] \notin instance.has[q.of]
        /\ instance.pin = None => q.of = EntityFound
    BY <1>0, <2>1 DEF Proper
  <2>3. \/ answer = "ok" /\ DateField[q.i] \in instance.has[q.of]
        \/ answer = "noproperty" /\ DateField[q.i] \notin instance.has[q.of]
    BY <2>1 DEF Answers
  <2>4. /\ entity' = entity
        /\ date' = IF more THEN date ELSE [date EXCEPT ![q.of] = found]
        /\ Become(r, IF more THEN Asking("field", q.i + 1, q.of, Unset) ELSE Query(q.of, found))
    BY <1>2 DEF FieldProbe
  <2>5. CASE more
    <3>1. CachesRight'
      BY <1>0, <2>4, <2>5 DEF CachesRight, EntityFound, Served, DateFound, Known
    <3>2. Proper(Asking("field", q.i + 1, q.of, Unset))
      <4>1. \A j \in DOMAIN DateField : j < q.i + 1 => DateField[j] \notin instance.has[q.of]
        BY <2>1, <2>2, <2>3, <2>5, Names
      <4>. QED BY <2>2, <4>1 DEF Proper, Asking
    <3>. QED BY <2>4, <2>5, <3>1, <3>2, SearchStep
  <2>6. CASE ~more
    <3>1. found = DateFound(q.of)
      <4>1. CASE answer = "ok"
        BY <2>1, <2>2, <2>3, <4>1, FirstKnown
      <4>2. CASE answer # "ok"
        <5>1. q.i = Len(DateField) /\ DateField[q.i] \notin instance.has[q.of]
          BY <2>1, <2>3, <2>6, <4>2, Names
        <5>2. Known(q.of) = {}
          BY <2>2, <5>1, Names DEF Known
        <5>. QED BY <4>2, <5>2 DEF DateFound
      <4>. QED BY <4>1, <4>2
    <3>2. date' = [date EXCEPT ![q.of] = found]
      BY <2>4, <2>6
    <3>. HIDE DEF found
    <3>3. CachesRight'
      <4>1. \A e \in Entity : date'[e] \in {Unset, DateFound(e)}
        BY <1>0, <2>1, <3>1, <3>2 DEF CachesRight, TypeOK
      <4>. QED BY <1>0, <2>4, <4>1 DEF CachesRight, EntityFound, Served, DateFound, Known
    <3>4. Proper(Query(q.of, found))
      BY <2>2 DEF Proper, Query, Asking
    <3>. QED BY <2>4, <2>6, <3>3, <3>4, SearchStep
  <2>. QED BY <2>5, <2>6
<1>3. CASE QueryAnswered(r)
  <2>1. Become(r, Idle) /\ entity' = entity /\ date' = date
    BY <1>3 DEF QueryAnswered
  <2>2. CachesRight'
    BY <1>0, <2>1 DEF CachesRight, EntityFound, Served, DateFound, Known
  <2>. QED BY <2>1, <2>2, SearchStep
<1>. QED BY <1>1, <1>2, <1>3 DEF Apply

\* Searches that overlap keep it: what one of them passes over is nothing that
\* another may settle on.
LEMMA SearchInvNext == Inv /\ SearchInv /\ [Next]_vars => SearchInv'
<1> SUFFICES ASSUME Inv, SearchInv, [Next]_vars, ~failed, ~failed' PROVE SearchInv'
  <2>1. [Next]_vars /\ failed => failed' \/ ~failed'
    OBVIOUS
  <2>2. Inv /\ [Next]_vars /\ failed => failed'
    BY DEF Next, Tick, Begin, GetToken, TokenHit, TokenMiss, TokenGranted, Answered, Fails, vars
  <2>. QED BY <2>2 DEF SearchInv
<1>0. TypeOK /\ CachesRight /\ req \in [Req -> Busy \cup {Idle}]
  BY DEF Inv, TypeOK, SearchInv
<1>c. ASSUME UNCHANGED <<instance, entity, date>> PROVE CachesRight'
  BY <1>0, <1>c DEF CachesRight, EntityFound, Served, DateFound, Known
<1>1. CASE Tick \/ UNCHANGED vars
  <2>1. UNCHANGED <<instance, entity, date, req, failed>>
    BY <1>1 DEF Tick, vars
  <2>. QED BY <2>1, <1>c DEF SearchInv, Proper, EntityFound, Served
<1>2. ASSUME NEW r \in Req, Begin(r) PROVE SearchInv'
  <2> DEFINE q == CASE instance.pin # None -> DateOf(instance.pin, date)
                    [] instance.pin = None /\ entity # Unset -> DateOf(entity, date)
                    [] OTHER -> Asking("bare", 1, Unset, Unset)
  <2>1. Become(r, q) /\ UNCHANGED <<instance, entity, date>>
    BY <1>2 DEF Begin, Become
  <2>2. /\ instance.pin # None => q = DateOf(instance.pin, date)
        /\ instance.pin = None /\ entity # Unset => q = DateOf(entity, date)
        /\ instance.pin = None /\ entity = Unset => q = Asking("bare", 1, Unset, Unset)
    OBVIOUS
  <2>. HIDE DEF q
  <2>3. Proper(q)
    <3>1. CASE instance.pin # None
      BY <1>0, <2>2, <3>1, InstanceParts, DateOfProper
    <3>2. CASE instance.pin = None /\ entity # Unset
      <4>1. entity \in Entity /\ entity = EntityFound
        BY <1>0, <3>2 DEF TypeOK, CachesRight
      <4>. QED BY <2>2, <3>2, <4>1, DateOfProper
    <3>3. CASE instance.pin = None /\ entity = Unset
      BY <2>2, <3>3, Names DEF Proper, Asking
    <3>. QED BY <3>1, <3>2, <3>3
  <2>. QED BY <1>c, <2>1, <2>3, SearchStep
<1>3. ASSUME NEW r \in Req, GetToken(r) PROVE SearchInv'
  <2>1. PICK c : req' = [req EXCEPT ![r].call = c]
    BY <1>3 DEF GetToken, TokenHit, TokenMiss, TokenGranted, Send
  <2>2. req[r] # Idle /\ UNCHANGED <<instance, entity, date>>
    BY <1>3 DEF GetToken, TokenHit, TokenMiss, TokenGranted, At
  <2>3. req[r] \in Busy /\ Proper(req[r])
    BY <1>0, <2>2 DEF SearchInv
  <2> DEFINE q == [req[r] EXCEPT !.call = c]
  <2>4. q.at = req[r].at /\ q.i = req[r].i /\ q.of = req[r].of
    BY <2>3 DEF Busy, Probe, Search, Receipts
  <2>5. Become(r, q)
    BY <2>1 DEF Become
  <2>. HIDE DEF q
  <2>6. Proper(q)
    BY <2>3, <2>4 DEF Proper
  <2>. QED BY <1>c, <2>2, <2>5, <2>6, SearchStep
<1>4. ASSUME NEW r \in Req, Answered(r) PROVE SearchInv'
  BY <1>4, AnsweredProper DEF Answered, At
<1>5. ASSUME NEW r \in Req, Fails(r) PROVE FALSE
  BY <1>5 DEF Fails
<1>. QED BY <1>1, <1>2, <1>3, <1>4, <1>5 DEF Next

\* As long as no exchange has failed, the node settles on the first candidate that
\* the instance serves and on the first field that this entity has, whichever of
\* the overlapping searches settles them and however often the answers cross.
THEOREM SearchesFindFirst == Spec => []FindsFirst
<1>1. SearchInv => FindsFirst
  BY DEF SearchInv, CachesRight, Proper, FindsFirst
<1>. QED BY <1>1, InvInit, InvNext, SearchInvInit, SearchInvNext, PTL DEF Spec
=============================================================================
