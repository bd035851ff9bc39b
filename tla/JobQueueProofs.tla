--------------------------- MODULE JobQueueProofs ---------------------------
(***************************************************************************)
(* Theorems about JobQueue, for any number of handlers, printers and jobs  *)
(* and any bounds of the two lists: its types, its safety properties, and  *)
(* that it implements QueueChanges and JobLedger.                          *)
(***************************************************************************)
EXTENDS JobQueueChanges, JobQueueLedger, SequenceTheorems, FiniteSetTheorems, TLAPS

-----------------------------------------------------------------------------
(* The lists of jobs *)

\* Putting a job at the head of a list adds its id and nothing else.
LEMMA ConsJob ==
    ASSUME NEW s \in Seq(Job), NEW j \in Job
    PROVE  /\ <<j>> \o s \in Seq(Job)
           /\ Ids(<<j>> \o s) = {j.id} \cup Ids(s)
           /\ DistinctIds(s) /\ j.id \notin Ids(s) => DistinctIds(<<j>> \o s)
           /\ \A i \in DOMAIN (<<j>> \o s) :
                (<<j>> \o s)[i] = j \/ \E k \in DOMAIN s : (<<j>> \o s)[i] = s[k]
<1> DEFINE t == <<j>> \o s
<1>1. /\ t \in Seq(Job)
      /\ Len(t) = Len(s) + 1
      /\ t[1] = j
      /\ \A i \in 1..Len(s) : t[i + 1] = s[i]
      /\ DOMAIN s = 1..Len(s) /\ DOMAIN t = 1..Len(t)
  OBVIOUS
<1>2. \A i \in DOMAIN t : i = 1 \/ (i - 1 \in DOMAIN s /\ t[i] = s[i - 1])
  BY <1>1
<1>3. Ids(t) = {j.id} \cup Ids(s)
  <2>1. Ids(t) \subseteq {j.id} \cup Ids(s)
    BY <1>1, <1>2 DEF Ids
  <2>2. j.id \in Ids(t)
    BY <1>1 DEF Ids
  <2>3. ASSUME NEW i \in DOMAIN s PROVE s[i].id \in Ids(t)
    BY <1>1, i + 1 \in DOMAIN t DEF Ids
  <2>. QED BY <2>1, <2>2, <2>3 DEF Ids
<1>4. ASSUME DistinctIds(s), j.id \notin Ids(s) PROVE DistinctIds(t)
  <2> SUFFICES ASSUME NEW i \in DOMAIN t, NEW k \in DOMAIN t, t[i].id = t[k].id
               PROVE  i = k
    BY DEF DistinctIds
  <2>1. CASE i = 1 /\ k = 1
    BY <2>1
  <2>2. CASE i = 1 /\ k # 1
    BY <1>1, <1>2, <1>4, <2>2 DEF Ids
  <2>3. CASE i # 1 /\ k = 1
    BY <1>1, <1>2, <1>4, <2>3 DEF Ids
  <2>4. CASE i # 1 /\ k # 1
    BY <1>1, <1>2, <1>4, <2>4, i - 1 = k - 1 DEF DistinctIds
  <2>. QED BY <2>1, <2>2, <2>3, <2>4
<1>. QED BY <1>1, <1>2, <1>3, <1>4

\* The ids of a list of jobs are job ids.
LEMMA IdsOfJobs == \A s \in Seq(Job) : Ids(s) \subseteq JobId
<1> SUFFICES ASSUME NEW s \in Seq(Job), NEW i \in DOMAIN s PROVE s[i].id \in JobId
  BY DEF Ids
<1>1. s[i] \in Job
  OBVIOUS
<1>. QED BY <1>1 DEF Job

\* The position of an id that occurs in a list.
LEMMA PositionOfId ==
    ASSUME NEW s, NEW id \in Ids(s)
    PROVE  PositionOf(s, id) \in DOMAIN s /\ s[PositionOf(s, id)].id = id
BY DEF Ids, PositionOf

\* A list whose elements all come from another one, in the same order.
LEMMA Sublist ==
    ASSUME NEW s \in Seq(Job), NEW t \in Seq(Job), NEW f \in [DOMAIN t -> DOMAIN s],
           \A i \in DOMAIN t : t[i] = s[f[i]],
           \A i, k \in DOMAIN t : f[i] = f[k] => i = k
    PROVE  /\ Ids(t) \subseteq Ids(s)
           /\ DistinctIds(s) => DistinctIds(t)
           /\ \A i \in DOMAIN t : \E k \in DOMAIN s : t[i] = s[k]
<1>1. Ids(t) \subseteq Ids(s)
  BY DEF Ids
<1>2. ASSUME DistinctIds(s), NEW i \in DOMAIN t, NEW k \in DOMAIN t, t[i].id = t[k].id
      PROVE  i = k
  <2>1. f[i] = f[k]
    BY <1>2 DEF DistinctIds
  <2>. QED BY <2>1
<1>. QED BY <1>1, <1>2 DEF DistinctIds

\* truncate keeps a prefix.
LEMMA TruncateJobs ==
    ASSUME NEW s \in Seq(Job), NEW n \in Nat
    PROVE  /\ Truncate(s, n) \in Seq(Job)
           /\ Ids(Truncate(s, n)) \subseteq Ids(s)
           /\ DistinctIds(s) => DistinctIds(Truncate(s, n))
           /\ \A i \in DOMAIN Truncate(s, n) :
                \E k \in DOMAIN s : Truncate(s, n)[i] = s[k]
<1> DEFINE t == Truncate(s, n)
           f == [i \in DOMAIN t |-> i]
<1>1. /\ t \in Seq(Job)
      /\ DOMAIN t \subseteq DOMAIN s
      /\ \A i \in DOMAIN t : t[i] = s[i]
  BY SubSeqProperties, LenProperties DEF Truncate
<1>2. f \in [DOMAIN t -> DOMAIN s]
  BY <1>1
<1>. HIDE DEF t
<1>3. \A i \in DOMAIN t : t[i] = s[f[i]]
  BY <1>1
<1>4. \A i, k \in DOMAIN t : f[i] = f[k] => i = k
  OBVIOUS
<1>5. /\ Ids(t) \subseteq Ids(s)
      /\ DistinctIds(s) => DistinctIds(t)
      /\ \A i \in DOMAIN t : \E k \in DOMAIN s : t[i] = s[k]
  BY <1>1, <1>2, <1>3, <1>4, Sublist
<1>. QED BY <1>1, <1>5 DEF t

\* Removing the job with an id removes that id and no other.
LEMMA WithoutJob ==
    ASSUME NEW s \in Seq(Job), NEW id
    PROVE  /\ Without(s, id) \in Seq(Job)
           /\ Ids(s) \ {id} \subseteq Ids(Without(s, id))
           /\ Ids(Without(s, id)) \subseteq Ids(s)
           /\ DistinctIds(s) => /\ DistinctIds(Without(s, id))
                                /\ id \notin Ids(Without(s, id))
           /\ \A i \in DOMAIN Without(s, id) :
                \E k \in DOMAIN s : Without(s, id)[i] = s[k]
<1>1. CASE id \notin Ids(s)
  BY <1>1 DEF Without
<1>2. CASE id \in Ids(s)
  <2> DEFINE n == PositionOf(s, id)
             t == Without(s, id)
             f == [i \in DOMAIN t |-> IF i < n THEN i ELSE i + 1]
  <2>1. n \in 1..Len(s) /\ s[n].id = id
    BY <1>2, PositionOfId, LenProperties
  <2>2. t = SubSeq(s, 1, n - 1) \o SubSeq(s, n + 1, Len(s))
    BY <1>2 DEF Without, RemoveAt
  <2>. HIDE DEF n
  <2>3. /\ SubSeq(s, 1, n - 1) \in Seq(Job)
        /\ Len(SubSeq(s, 1, n - 1)) = n - 1
        /\ \A i \in 1..(n - 1) : SubSeq(s, 1, n - 1)[i] = s[i]
    BY <2>1, SubSeqProperties, LenProperties
  <2>4. /\ SubSeq(s, n + 1, Len(s)) \in Seq(Job)
        /\ Len(SubSeq(s, n + 1, Len(s))) = Len(s) - n
        /\ \A i \in 1..(Len(s) - n) : SubSeq(s, n + 1, Len(s))[i] = s[n + i]
    BY <2>1, SubSeqProperties, LenProperties
  <2>5. /\ t \in Seq(Job)
        /\ Len(t) = Len(s) - 1
        /\ \A i \in 1..Len(t) : t[i] = IF i < n THEN s[i] ELSE s[i + 1]
    <3> DEFINE a == SubSeq(s, 1, n - 1)
               b == SubSeq(s, n + 1, Len(s))
    <3>. n \in Nat /\ Len(s) \in Nat
      BY <2>1, LenProperties
    <3>. HIDE DEF a, b
    <3>1. /\ a \o b \in Seq(Job)
          /\ Len(a \o b) = Len(a) + Len(b)
          /\ \A i \in 1..(Len(a) + Len(b)) :
                (a \o b)[i] = IF i <= Len(a) THEN a[i] ELSE b[i - Len(a)]
      BY <2>3, <2>4, ConcatProperties DEF a, b
    <3>2. Len(a) = n - 1 /\ Len(b) = Len(s) - n
      BY <2>3, <2>4 DEF a, b
    <3>3. \A i \in 1..(n - 1) : a[i] = s[i]
      BY <2>3 DEF a
    <3>4. \A i \in 1..(Len(s) - n) : b[i] = s[n + i]
      BY <2>4 DEF b
    <3>5. t = a \o b
      BY <2>2 DEF a, b
    <3>. HIDE DEF t
    <3>6. Len(t) = Len(s) - 1
      BY <2>1, <3>1, <3>2, <3>5
    <3>7. ASSUME NEW i \in 1..Len(t) PROVE t[i] = IF i < n THEN s[i] ELSE s[i + 1]
      <4>1. CASE i < n
        BY <2>1, <3>1, <3>2, <3>3, <3>5, <3>6, <4>1
      <4>2. CASE ~(i < n)
        <5>1. i - (n - 1) \in 1..(Len(s) - n) /\ n + (i - (n - 1)) = i + 1
          BY <2>1, <3>6, <4>2
        <5>. QED BY <2>1, <3>1, <3>2, <3>4, <3>5, <3>6, <4>2, <5>1
      <4>. QED BY <4>1, <4>2
    <3>. QED BY <3>1, <3>5, <3>6, <3>7
  <2>. HIDE DEF t
  <2>6. DOMAIN t = 1..(Len(s) - 1) /\ DOMAIN s = 1..Len(s) /\ Len(s) \in Nat /\ n \in Nat
    BY <2>1, <2>5, LenProperties
  <2>7. f \in [DOMAIN t -> DOMAIN s]
    BY <2>6
  <2>8. \A i \in DOMAIN t : t[i] = s[f[i]]
    BY <2>5, <2>6
  <2>9. \A i, k \in DOMAIN t : f[i] = f[k] => i = k
    BY <2>6
  <2>10. \A i \in DOMAIN t : f[i] # n
    BY <2>6
  <2>11. ASSUME NEW k \in DOMAIN s, k # n PROVE s[k].id \in Ids(t)
    <3>1. CASE k < n
      BY <2>1, <2>5, <2>6, <3>1, k \in DOMAIN t DEF Ids
    <3>2. CASE k > n
      <4>1. k - 1 \in DOMAIN t /\ t[k - 1] = s[k]
        BY <2>1, <2>5, <2>6, <3>2
      <4>. QED BY <4>1 DEF Ids
    <3>. QED BY <2>6, <2>11, <3>1, <3>2
  <2>. HIDE DEF f
  <2>12. /\ Ids(t) \subseteq Ids(s)
         /\ DistinctIds(s) => DistinctIds(t)
         /\ \A i \in DOMAIN t : \E k \in DOMAIN s : t[i] = s[k]
    BY <2>5, <2>7, <2>8, <2>9, Sublist
  <2>13. Ids(s) \ {id} \subseteq Ids(t)
    BY <2>1, <2>11 DEF Ids
  <2>14. ASSUME DistinctIds(s) PROVE id \notin Ids(t)
    <3> SUFFICES ASSUME NEW i \in DOMAIN t, t[i].id = id PROVE FALSE
      BY DEF Ids
    <3>1. f[i] = n
      BY <2>1, <2>6, <2>7, <2>8, <2>14 DEF DistinctIds
    <3>. QED BY <2>10, <3>1
  <2>. QED BY <2>5, <2>12, <2>13, <2>14 DEF t
<1>. QED BY <1>1, <1>2

\* Marking a job as failed changes no id.
LEMMA MarkFailedJob ==
    ASSUME NEW s \in Seq(Job), NEW id
    PROVE  /\ MarkFailed(s, id) \in Seq(Job)
           /\ Ids(MarkFailed(s, id)) = Ids(s)
           /\ DistinctIds(s) => DistinctIds(MarkFailed(s, id))
           /\ \A i \in DOMAIN MarkFailed(s, id) :
                \/ MarkFailed(s, id)[i].status = "failed"
                \/ \E k \in DOMAIN s : MarkFailed(s, id)[i] = s[k]
<1>1. CASE id \notin Ids(s)
  BY <1>1 DEF MarkFailed
<1>2. CASE id \in Ids(s)
  <2> DEFINE n == PositionOf(s, id)
             t == MarkFailed(s, id)
  <2>1. n \in 1..Len(s)
    BY <1>2, PositionOfId, LenProperties
  <2>2. t = [s EXCEPT ![n] = [s[n] EXCEPT !.status = "failed"]]
    BY <1>2 DEF MarkFailed
  <2>3. [s[n] EXCEPT !.status = "failed"] \in Job /\ s[n] \in Job
    <3>1. s[n] \in Job
      BY <2>1, ElementOfSeq
    <3>. QED BY <3>1 DEF Job, JobStatus
  <2>. HIDE DEF n
  <2>4. /\ t \in Seq(Job) /\ DOMAIN t = DOMAIN s
        /\ \A i \in DOMAIN s : t[i] = IF i = n THEN [s[n] EXCEPT !.status = "failed"] ELSE s[i]
    BY <2>1, <2>2, <2>3, ExceptSeq, LenProperties
  <2>. HIDE DEF t
  <2>5. \A i \in DOMAIN s : t[i].id = s[i].id
    BY <2>3, <2>4 DEF Job
  <2>6. \A i \in DOMAIN s : t[i].status = "failed" \/ t[i] = s[i]
    BY <2>3, <2>4 DEF Job
  <2>. QED BY <2>4, <2>5, <2>6 DEF Ids, DistinctIds, t
<1>. QED BY <1>1, <1>2

-----------------------------------------------------------------------------
(* The inductive invariant *)

QueueStatus(s) == \A i \in DOMAIN s : s[i].status \in {"queued", "failed"}

HistoryStatus(s) == \A i \in DOMAIN s : s[i].status # "queued"

\* What the kind and the status of a handler's job are at each point.
Shape(h) ==
    /\ h.pc \in {"mode", "hold"} => h.kind = "inbound" /\ h.job.status = "queued"
    /\ h.pc = "reject" => h.kind = "rejected" /\ h.job.status = "failed"
    /\ h.pc \in {"resolve", "send", "record"} =>
            h.kind \in {"inbound", "release", "reprint"}
    /\ h.kind = "reprint" => h.job.status = "printed"

\* Restart brings the lists of jobs.json back, so they are as well typed.
StatusOK ==
    /\ QueueStatus(disk.pending)
    /\ HistoryStatus(disk.history)
    /\ \A r \in Req : handler[r] # Idle => Shape(handler[r])

TypeInv == TypeOK /\ StatusOK

\* A handler whose job is new and in no list yet.
Unfiled(h) == \/ h.pc \in {"reject", "mode", "hold"}
              \/ h.pc \in {"resolve", "send", "record"} /\ h.kind \in {"inbound", "reprint"}

IdsUsed ==
    /\ \A id \in MemIds \cup DiskIds : id < nextId
    /\ \A r \in Req : handler[r] # Idle => handler[r].job.id < nextId

\* The id of an unfiled job is known to its handler alone.
FreshIds ==
    \A r \in Req : Unfiled(handler[r]) =>
        /\ handler[r].job.id \notin MemIds
        /\ \A q \in Req \ {r} : handler[q] # Idle => handler[q].job.id # handler[r].job.id

ListInv == IdsUsed /\ FreshIds /\ OneListOnly

\* jobs.json is never ahead of memory, and what it has closed stays closed.
DiskBehind ==
    /\ Ids(disk.history) \subseteq Ids(history) \cup evicted
    /\ Ids(disk.pending) \subseteq MemIds \cup evicted

\* The job of handler h is filed where its answer will say, in the lists p and q.
Filed(h, p, q) == \/ h.job.id \in Ids(q) \cup evicted
                  \/ h.job.status = "queued" /\ h.job.id \in Ids(p)

\* Before the save a handler's job is filed in memory, after it on disk.
AnswersBacked ==
    \A r \in Req : handler[r] # Idle /\ AnswersOk(handler[r]) =>
        /\ At(r, "save") => Filed(handler[r], pending, history)
        /\ At(r, "reply") => Filed(handler[r], disk.pending, disk.history)

DurableInv == DiskBehind /\ AnswersBacked /\ AckedDurable

-----------------------------------------------------------------------------
(* Types *)

\* A handler that is not idle has a value for each of its locals.
LEMMA BusyHandler ==
    ASSUME TypeOK, NEW r \in Req, NEW x \in PC, At(r, x)
    PROVE  handler[r] \in Handler /\ handler[r] # Idle
BY DEF TypeOK, At, Idle, PC

\* Moving a handler on leaves its locals and the other handlers alone.
LEMMA GotoHandler ==
    ASSUME TypeOK, NEW r \in Req, NEW x \in PC, At(r, x), NEW y \in PC, Goto(r, y)
    PROVE  /\ handler' \in [Req -> Handler \cup {Idle}]
           /\ handler'[r] = [handler[r] EXCEPT !.pc = y]
           /\ handler'[r] \in Handler
           /\ \A q \in Req \ {r} : handler'[q] = handler[q]
<1>1. handler[r] \in Handler
  BY BusyHandler
<1>2. [handler[r] EXCEPT !.pc = y] \in Handler
  BY <1>1 DEF Handler
<1>. QED BY <1>2 DEF TypeOK, Goto

\* The initial state is well typed.
LEMMA TypeInvInit == Init => TypeInv
<1> SUFFICES ASSUME Init PROVE TypeInv
  OBVIOUS
<1>1. << >> \in Seq(Job) /\ DOMAIN << >> = {}
  BY EmptySeq
<1>. QED BY <1>1, BoundsAssumption
     DEF Init, TypeInv, TypeOK, StatusOK, QueueStatus, HistoryStatus, JobsDoc, JobId

\* Every step keeps the types.
LEMMA TypeInvNext == TypeInv /\ [Next]_vars => TypeInv'
<1> SUFFICES ASSUME TypeInv, [Next]_vars PROVE TypeInv'
  OBVIOUS
<1>. USE DEF TypeInv
<1>a. MaxJobs \in Nat /\ MaxPending \in Nat /\ MaxHistory \in Nat /\ MaxCopies \in Nat
  BY BoundsAssumption
<1>1. ASSUME NEW r \in Req, NEW p \in Printer, InboundReceive(r, p) PROVE TypeInv'
  <2> DEFINE j == [id |-> nextId, label |-> nextId, printer |-> p,
                   status |-> IF p \in printers THEN "queued" ELSE "failed"]
             h == [pc     |-> IF p \in printers THEN "mode" ELSE "reject",
                   kind   |-> IF p \in printers THEN "inbound" ELSE "rejected",
                   job    |-> j, target |-> p, sent |-> FALSE]
  <2>1. nextId \in JobId /\ nextId' \in 1..(MaxJobs + 1)
    BY <1>1, <1>a DEF InboundReceive, TypeOK, JobId
  <2>2. j \in Job
    BY <2>1 DEF Job, JobStatus
  <2>3. h \in Handler /\ Shape(h)
    BY <2>2 DEF Handler, PC, Kind, Shape
  <2>4. handler' = [handler EXCEPT ![r] = h]
    BY <1>1 DEF InboundReceive
  <2>. HIDE DEF h, j
  <2>5. TypeOK'
    BY <1>1, <2>1, <2>3, <2>4 DEF InboundReceive, TypeOK, store, settings, ghosts
  <2>6. StatusOK'
    BY <1>1, <2>3, <2>4 DEF InboundReceive, TypeOK, StatusOK, store
  <2>. QED BY <2>5, <2>6
<1>2. ASSUME NEW r \in Req, InboundReject(r) PROVE TypeInv'
  <2>1. /\ handler' \in [Req -> Handler \cup {Idle}]
        /\ handler'[r] = [handler[r] EXCEPT !.pc = "save"]
        /\ \A q \in Req \ {r} : handler'[q] = handler[q]
        /\ handler[r] \in Handler /\ Shape(handler[r])
    BY <1>2, GotoHandler, BusyHandler DEF InboundReject, PC, StatusOK
  <2>2. handler[r].job \in Job /\ handler[r].job.status = "failed"
    BY <1>2, <2>1 DEF InboundReject, At, Handler, Shape
  <2>3. /\ history' \in Seq(Job)
        /\ \A i \in DOMAIN history' : history'[i].status # "queued"
    BY <1>2, <2>2, ConsJob DEF InboundReject, TypeOK
  <2>4. TypeOK'
    BY <1>2, <2>1, <2>3 DEF InboundReject, TypeOK, settings, ghosts
  <2>5. StatusOK'
    BY <1>2, <2>1 DEF InboundReject, StatusOK, Shape, Handler
  <2>. QED BY <2>4, <2>5
<1>3. ASSUME NEW r \in Req, InboundMode(r) PROVE TypeInv'
  <2> DEFINE y == IF auto_print THEN "resolve" ELSE "hold"
  <2>0. y \in PC /\ Goto(r, y)
    BY <1>3 DEF InboundMode, PC
  <2>1. /\ handler' \in [Req -> Handler \cup {Idle}]
        /\ handler'[r] = [handler[r] EXCEPT !.pc = y]
        /\ \A q \in Req \ {r} : handler'[q] = handler[q]
        /\ handler[r] \in Handler /\ Shape(handler[r])
    BY <1>3, <2>0, GotoHandler, BusyHandler DEF InboundMode, PC, StatusOK
  <2>2. TypeOK'
    BY <1>3, <2>1 DEF InboundMode, TypeOK, store, settings, ghosts
  <2>3. Shape(handler'[r])
    BY <1>3, <2>1 DEF InboundMode, At, Shape, Handler
  <2>4. StatusOK'
    BY <1>3, <2>1, <2>3 DEF InboundMode, StatusOK
  <2>. QED BY <2>2, <2>4
<1>4. ASSUME NEW r \in Req, InboundHold(r) PROVE TypeInv'
  <2>1. /\ handler' \in [Req -> Handler \cup {Idle}]
        /\ handler'[r] = [handler[r] EXCEPT !.pc = "save"]
        /\ \A q \in Req \ {r} : handler'[q] = handler[q]
        /\ handler[r] \in Handler /\ Shape(handler[r])
    BY <1>4, GotoHandler, BusyHandler DEF InboundHold, PC, StatusOK
  <2>2. handler[r].job \in Job /\ handler[r].job.status = "queued"
    BY <1>4, <2>1 DEF InboundHold, At, Handler, Shape
  <2>3. /\ pending' \in Seq(Job)
        /\ \A i \in DOMAIN pending' : pending'[i].status \in {"queued", "failed"}
    BY <1>4, <2>2, ConsJob DEF InboundHold, TypeOK
  <2>4. TypeOK'
    BY <1>4, <2>1, <2>3 DEF InboundHold, TypeOK, settings, ghosts
  <2>5. StatusOK'
    BY <1>4, <2>1 DEF InboundHold, StatusOK, Shape, Handler
  <2>. QED BY <2>4, <2>5
<1>5. ASSUME NEW r \in Req, NEW id \in JobId, NEW p \in Printer, ReleaseFind(r, id, p)
      PROVE TypeInv'
  <2> DEFINE j == pending[PositionOf(pending, id)]
             h == [pc |-> "resolve", kind |-> "release", job |-> j,
                   target |-> p, sent |-> FALSE]
  <2>1. j \in Job
    BY <1>5, PositionOfId, ElementOfSeq, LenProperties DEF ReleaseFind, TypeOK
  <2>2. h \in Handler /\ Shape(h)
    BY <2>1 DEF Handler, PC, Kind, Shape
  <2>3. handler' = [handler EXCEPT ![r] = h]
    BY <1>5 DEF ReleaseFind
  <2>. HIDE DEF h, j
  <2>4. TypeOK'
    BY <1>5, <2>2, <2>3 DEF ReleaseFind, TypeOK, store, settings, ghosts
  <2>5. StatusOK'
    BY <1>5, <2>2, <2>3 DEF ReleaseFind, TypeOK, StatusOK
  <2>. QED BY <2>4, <2>5
<1>6. ASSUME NEW r \in Req, NEW id \in JobId, NEW p \in Printer, ReprintFind(r, id, p)
      PROVE TypeInv'
  <2> DEFINE j == [id |-> nextId, label |-> history[PositionOf(history, id)].label,
                   printer |-> p, status |-> "printed"]
             h == [pc |-> "resolve", kind |-> "reprint", job |-> j,
                   target |-> p, sent |-> FALSE]
  <2>1. nextId \in JobId /\ nextId' \in 1..(MaxJobs + 1)
    BY <1>6, <1>a DEF ReprintFind, TypeOK, JobId
  <2>2. history[PositionOf(history, id)] \in Job
    BY <1>6, PositionOfId, ElementOfSeq, LenProperties DEF ReprintFind, TypeOK
  <2>3. j \in Job
    BY <2>1, <2>2 DEF Job, JobStatus
  <2>4. h \in Handler /\ Shape(h)
    BY <2>3 DEF Handler, PC, Kind, Shape
  <2>5. handler' = [handler EXCEPT ![r] = h]
    BY <1>6 DEF ReprintFind
  <2>. HIDE DEF h, j
  <2>6. TypeOK'
    BY <1>6, <2>1, <2>4, <2>5 DEF ReprintFind, TypeOK, store, settings, ghosts
  <2>7. StatusOK'
    BY <1>6, <2>4, <2>5 DEF ReprintFind, TypeOK, StatusOK
  <2>. QED BY <2>6, <2>7
<1>7. ASSUME NEW r \in Req, Resolve(r) PROVE TypeInv'
  <2> DEFINE y == IF handler[r].target \in printers THEN "send" ELSE "record"
  <2>0. y \in PC /\ Goto(r, y)
    BY <1>7 DEF Resolve, PC
  <2>1. /\ handler' \in [Req -> Handler \cup {Idle}]
        /\ handler'[r] = [handler[r] EXCEPT !.pc = y]
        /\ \A q \in Req \ {r} : handler'[q] = handler[q]
        /\ handler[r] \in Handler /\ Shape(handler[r])
    BY <1>7, <2>0, GotoHandler, BusyHandler DEF Resolve, PC, StatusOK
  <2>2. TypeOK'
    BY <1>7, <2>1 DEF Resolve, TypeOK, store, settings, ghosts
  <2>3. Shape(handler'[r])
    BY <1>7, <2>1 DEF Resolve, At, Shape, Handler
  <2>4. StatusOK'
    BY <1>7, <2>1, <2>3 DEF Resolve, StatusOK
  <2>. QED BY <2>2, <2>4
<1>8. ASSUME NEW r \in Req, NEW ok \in BOOLEAN, At(r, "send"), Sent(r, ok),
             UNCHANGED <<store, settings, disk, nextId, acked, evicted>>,
             delivered' \in [JobId -> 0..MaxCopies]
      PROVE TypeInv'
  <2> DEFINE h == [handler[r] EXCEPT !.pc = "record", !.sent = ok]
  <2>1. handler[r] \in Handler /\ Shape(handler[r])
    BY <1>8, BusyHandler DEF PC, StatusOK
  <2>2. h \in Handler /\ Shape(h)
    BY <1>8, <2>1 DEF Handler, PC, Shape, At
  <2>3. handler' = [handler EXCEPT ![r] = h]
    BY <1>8, <2>1 DEF Sent, TypeOK
  <2>. HIDE DEF h
  <2>4. TypeOK'
    BY <1>8, <2>2, <2>3 DEF TypeOK, store, settings
  <2>5. StatusOK'
    BY <1>8, <2>2, <2>3 DEF TypeOK, StatusOK
  <2>. QED BY <2>4, <2>5
<1>9. ASSUME NEW r \in Req, SendOk(r) \/ SendErr(r) \/ SendLateErr(r) PROVE TypeInv'
  <2>1. \A l : Deliver(l) => delivered' \in [JobId -> 0..MaxCopies]
    <3> SUFFICES ASSUME NEW l, Deliver(l)
                 PROVE  delivered' \in [JobId -> 0..MaxCopies]
      OBVIOUS
    <3>1. delivered \in [JobId -> 0..MaxCopies]
      BY DEF TypeOK
    <3>2. CASE l \in JobId
      BY <1>a, <3>1, <3>2, delivered[l] + 1 \in 0..MaxCopies DEF Deliver
    <3>3. CASE l \notin JobId
      BY <3>1, <3>3 DEF Deliver
    <3>. QED BY <3>2, <3>3
  <2>2. CASE SendOk(r)
    BY <1>8, <2>1, <2>2 DEF SendOk
  <2>3. CASE SendErr(r)
    BY <1>8, <2>3 DEF SendErr, ghosts, TypeOK
  <2>4. CASE SendLateErr(r)
    BY <1>8, <2>1, <2>4 DEF SendLateErr
  <2>. QED BY <1>9, <2>2, <2>3, <2>4
<1>10. ASSUME NEW r \in Req, RecordInbound(r) PROVE TypeInv'
  <2> DEFINE j == [handler[r].job EXCEPT !.status =
                     IF handler[r].sent THEN "printed" ELSE "failed"]
             h == [handler[r] EXCEPT !.pc = "save", !.job = j]
  <2>1. handler[r] \in Handler
    BY <1>10, BusyHandler DEF RecordInbound, PC
  <2>2. j \in Job /\ j.status # "queued"
    BY <2>1 DEF Handler, Job, JobStatus
  <2>3. h \in Handler /\ Shape(h)
    BY <1>10, <2>1, <2>2 DEF RecordInbound, Handler, PC, Shape
  <2>4. handler' = [handler EXCEPT ![r] = h] /\ history' = <<j>> \o history
    BY <1>10, <2>1 DEF RecordInbound, TypeOK
  <2>. HIDE DEF h, j
  <2>5. /\ history' \in Seq(Job)
        /\ \A i \in DOMAIN history' : history'[i].status # "queued"
    BY <2>2, <2>4, ConsJob DEF TypeOK
  <2>6. TypeOK'
    BY <1>10, <2>3, <2>4, <2>5 DEF RecordInbound, TypeOK, settings, ghosts
  <2>7. StatusOK'
    BY <1>10, <2>3, <2>4 DEF RecordInbound, TypeOK, StatusOK
  <2>. QED BY <2>6, <2>7
<1>11. ASSUME NEW r \in Req, RecordRelease(r) PROVE TypeInv'
  <2> DEFINE j == [handler[r].job EXCEPT !.status = "printed",
                                         !.printer = handler[r].target]
             h == [handler[r] EXCEPT !.pc = "save", !.job = j]
  <2>1. handler[r] \in Handler
    BY <1>11, BusyHandler DEF RecordRelease, PC
  <2>2. j \in Job /\ j.status = "printed"
    BY <2>1 DEF Handler, Job, JobStatus
  <2>3. h \in Handler /\ Shape(h)
    BY <1>11, <2>1, <2>2 DEF RecordRelease, Handler, PC, Shape
  <2>4. /\ handler' = [handler EXCEPT ![r] = h]
        /\ pending' = Without(pending, j.id)
        /\ history' = <<j>> \o history
    BY <1>11, <2>1 DEF RecordRelease, TypeOK
  <2>. HIDE DEF h, j
  <2>5. /\ history' \in Seq(Job)
        /\ \A i \in DOMAIN history' : history'[i].status # "queued"
    BY <2>2, <2>4, ConsJob DEF TypeOK
  <2>6. /\ pending' \in Seq(Job)
        /\ \A i \in DOMAIN pending' : pending'[i].status \in {"queued", "failed"}
    BY <2>4, WithoutJob DEF TypeOK
  <2>7. TypeOK'
    BY <1>11, <2>3, <2>4, <2>5, <2>6 DEF RecordRelease, TypeOK, settings, ghosts
  <2>8. StatusOK'
    BY <1>11, <2>3, <2>4 DEF RecordRelease, TypeOK, StatusOK
  <2>. QED BY <2>7, <2>8
<1>12. ASSUME NEW r \in Req, RecordReprint(r) PROVE TypeInv'
  <2>1. /\ handler' \in [Req -> Handler \cup {Idle}]
        /\ handler'[r] = [handler[r] EXCEPT !.pc = "save"]
        /\ \A q \in Req \ {r} : handler'[q] = handler[q]
        /\ handler[r] \in Handler /\ Shape(handler[r])
    BY <1>12, GotoHandler, BusyHandler DEF RecordReprint, PC, StatusOK
  <2>2. handler[r].job \in Job /\ handler[r].job.status = "printed"
    BY <1>12, <2>1 DEF RecordReprint, Handler, Shape
  <2>3. /\ history' \in Seq(Job)
        /\ \A i \in DOMAIN history' : history'[i].status # "queued"
    BY <1>12, <2>2, ConsJob DEF RecordReprint, TypeOK
  <2>4. TypeOK'
    BY <1>12, <2>1, <2>3 DEF RecordReprint, TypeOK, settings, ghosts
  <2>5. StatusOK'
    BY <1>12, <2>1 DEF RecordReprint, StatusOK, Shape, Handler
  <2>. QED BY <2>4, <2>5
<1>13. ASSUME NEW r \in Req, RecordFailure(r) PROVE TypeInv'
  <2>1. /\ handler' \in [Req -> Handler \cup {Idle}]
        /\ handler'[r] = [handler[r] EXCEPT !.pc = "save"]
        /\ \A q \in Req \ {r} : handler'[q] = handler[q]
        /\ handler[r] \in Handler /\ Shape(handler[r])
    BY <1>13, GotoHandler, BusyHandler DEF RecordFailure, PC, StatusOK
  <2>2. /\ pending' \in Seq(Job)
        /\ \A i \in DOMAIN pending' : pending'[i].status \in {"queued", "failed"}
    <3>1. CASE handler[r].kind = "release"
      BY <1>13, <3>1, MarkFailedJob DEF RecordFailure, TypeOK
    <3>2. CASE handler[r].kind # "release"
      BY <1>13, <3>2 DEF RecordFailure, TypeOK
    <3>. QED BY <3>1, <3>2
  <2>3. TypeOK'
    BY <1>13, <2>1, <2>2 DEF RecordFailure, TypeOK, settings, ghosts
  <2>4. StatusOK'
    BY <1>13, <2>1 DEF RecordFailure, StatusOK, Shape, Handler
  <2>. QED BY <2>3, <2>4
<1>14. ASSUME NEW r \in Req, NEW id \in JobId, Dismiss(r, id) PROVE TypeInv'
  <2> DEFINE k == pending[PositionOf(pending, id)]
             j == [k EXCEPT !.status = "dismissed"]
             h == [pc |-> "save", kind |-> "dismiss", job |-> j,
                   target |-> j.printer, sent |-> FALSE]
  <2>1. k \in Job
    BY <1>14, PositionOfId, ElementOfSeq, LenProperties DEF Dismiss, TypeOK
  <2>2. j \in Job /\ j.status = "dismissed"
    BY <2>1 DEF Job, JobStatus
  <2>3. h \in Handler /\ Shape(h)
    BY <2>2 DEF Handler, PC, Kind, Shape, Job
  <2>4. /\ handler' = [handler EXCEPT ![r] = h]
        /\ pending' = Without(pending, id)
        /\ history' = <<j>> \o history
    BY <1>14 DEF Dismiss
  <2>. HIDE DEF h, j, k
  <2>5. /\ history' \in Seq(Job)
        /\ \A i \in DOMAIN history' : history'[i].status # "queued"
    BY <2>2, <2>4, ConsJob DEF TypeOK
  <2>6. /\ pending' \in Seq(Job)
        /\ \A i \in DOMAIN pending' : pending'[i].status \in {"queued", "failed"}
    BY <2>4, WithoutJob DEF TypeOK
  <2>7. TypeOK'
    BY <1>14, <2>3, <2>4, <2>5, <2>6 DEF Dismiss, TypeOK, settings, ghosts
  <2>8. StatusOK'
    BY <1>14, <2>3, <2>4 DEF Dismiss, TypeOK, StatusOK
  <2>. QED BY <2>7, <2>8
<1>15. ASSUME NEW r \in Req, Save(r) PROVE TypeInv'
  <2>1. /\ handler' \in [Req -> Handler \cup {Idle}]
        /\ handler'[r] = [handler[r] EXCEPT !.pc = "reply"]
        /\ \A q \in Req \ {r} : handler'[q] = handler[q]
        /\ handler[r] \in Handler /\ Shape(handler[r])
    BY <1>15, GotoHandler, BusyHandler DEF Save, PC, StatusOK
  <2>2. pending' \in Seq(Job) /\ QueueStatus(pending')
    <3>1. pending' = Truncate(pending, MaxPending) /\ pending \in Seq(Job)
      BY <1>15 DEF Save, TypeOK
    <3>2. /\ pending' \in Seq(Job)
          /\ \A i \in DOMAIN pending' : \E k \in DOMAIN pending : pending'[i] = pending[k]
      BY <1>a, <3>1, TruncateJobs
    <3>. QED BY <3>2 DEF TypeOK, QueueStatus
  <2>3. history' \in Seq(Job) /\ HistoryStatus(history')
    <3>1. history' = Truncate(history, MaxHistory) /\ history \in Seq(Job)
      BY <1>15 DEF Save, TypeOK
    <3>2. /\ history' \in Seq(Job)
          /\ \A i \in DOMAIN history' : \E k \in DOMAIN history : history'[i] = history[k]
      BY <1>a, <3>1, TruncateJobs
    <3>. QED BY <3>2 DEF TypeOK, HistoryStatus
  <2>4. disk' \in JobsDoc /\ QueueStatus(disk'.pending) /\ HistoryStatus(disk'.history)
    BY <1>15, <2>2, <2>3 DEF Save, TypeOK, StatusOK, JobsDoc
  <2>5. MemIds \subseteq JobId
    BY IdsOfJobs DEF MemIds, TypeOK
  <2>6. TypeOK'
    BY <1>15, <2>1, <2>2, <2>3, <2>4, <2>5
       DEF Save, TypeOK, settings, QueueStatus, HistoryStatus
  <2>7. StatusOK'
    BY <2>1, <2>4 DEF StatusOK, Shape, Handler
  <2>. QED BY <2>6, <2>7
<1>16. ASSUME NEW r \in Req, Reply(r) PROVE TypeInv'
  <2>1. handler[r] \in Handler
    BY <1>16, BusyHandler DEF Reply, PC
  <2>2. <<handler[r].job.id, handler[r].job.status>> \in JobId \X JobStatus
    BY <2>1 DEF Handler, Job
  <2>3. acked' \in SUBSET (JobId \X JobStatus)
    BY <1>16, <2>2 DEF Reply, TypeOK
  <2>4. TypeOK'
    BY <1>16, <2>3 DEF Reply, TypeOK, store, settings
  <2>5. StatusOK'
    BY <1>16 DEF Reply, TypeOK, StatusOK
  <2>. QED BY <2>4, <2>5
<1>17. ASSUME NEW r \in Req, Hangup(r) PROVE TypeInv'
  BY <1>17 DEF Hangup, TypeOK, StatusOK, store, settings, ghosts
<1>18. ASSUME Restart PROVE TypeInv'
  <2>1. /\ pending' \in Seq(Job) /\ history' \in Seq(Job)
        /\ QueueStatus(pending') /\ HistoryStatus(history')
    <3>1. CASE pending' = disk.pending /\ history' = disk.history
      BY <3>1 DEF TypeOK, StatusOK, JobsDoc
    <3>2. CASE pending' = << >> /\ history' = << >>
      BY <3>2, EmptySeq DEF QueueStatus, HistoryStatus
    <3>. QED BY <1>18, <3>1, <3>2 DEF Restart
  <2>2. TypeOK'
    BY <1>18, <2>1 DEF Restart, TypeOK, settings, ghosts, QueueStatus, HistoryStatus
  <2>3. StatusOK'
    BY <1>18 DEF Restart, StatusOK
  <2>. QED BY <2>2, <2>3
<1>19. CASE Reconfigure
  BY <1>19 DEF Reconfigure, TypeOK, StatusOK, store, ghosts
<1>20. CASE UNCHANGED vars
  BY <1>20 DEF vars, TypeOK, StatusOK
<1>. QED
  BY <1>1, <1>2, <1>3, <1>4, <1>5, <1>6, <1>7, <1>9, <1>10, <1>11, <1>12, <1>13,
     <1>14, <1>15, <1>16, <1>17, <1>18, <1>19, <1>20
     DEF Next, Accept, Operate, Advance

\* Every variable keeps its type, and no list ever holds a job in a status that
\* does not belong there.
THEOREM TypeCorrect == Spec => []TypeOK
<1>1. Spec => []TypeInv
  BY TypeInvInit, TypeInvNext, PTL DEF Spec
<1>. QED BY <1>1, PTL DEF TypeInv

-----------------------------------------------------------------------------
(* One list only *)

\* A step of handler r that files, moves or drops at most the job x: a job of the
\* store, or the handler's own.
LEMMA StepOfHandler ==
    ASSUME TypeOK, ListInv, NEW r \in Req, NEW x,
           disk' = disk \/ disk' = [pending |-> pending', history |-> history'],
           nextId' = nextId,
           \A q \in Req \ {r} : handler'[q] = handler[q],
           OneList(pending', history'),
           x \in MemIds \/ (handler[r] # Idle /\ x = handler[r].job.id),
           handler'[r] # Idle => handler'[r].job.id = x,
           Ids(pending') \cup Ids(history') \subseteq MemIds \cup {x},
           Unfiled(handler'[r]) =>
                /\ Unfiled(handler[r])
                /\ x = handler[r].job.id
                /\ Ids(pending') \cup Ids(history') \subseteq MemIds
    PROVE  ListInv'
<1>1. x < nextId
  BY DEF ListInv, IdsUsed
<1>2. IdsUsed'
  <2>1. MemIds' \subseteq MemIds \cup {x} /\ DiskIds' \subseteq DiskIds \cup MemIds'
    BY DEF MemIds, DiskIds
  <2>2. \A id \in (MemIds \cup DiskIds)' : id < nextId'
    BY <1>1, <2>1 DEF ListInv, IdsUsed
  <2>3. ASSUME NEW q \in Req, handler'[q] # Idle PROVE handler'[q].job.id < nextId'
    BY <1>1, <2>3 DEF ListInv, IdsUsed
  <2>. QED BY <2>2, <2>3 DEF IdsUsed
<1>3. FreshIds'
  <2> SUFFICES ASSUME NEW q \in Req, Unfiled(handler'[q])
               PROVE  /\ handler'[q].job.id \notin MemIds'
                      /\ \A k \in Req \ {q} : handler'[k] # Idle =>
                            handler'[k].job.id # handler'[q].job.id
    BY DEF FreshIds
  <2>1. CASE q = r
    <3>1. Unfiled(handler[r]) /\ x = handler[r].job.id /\ MemIds' \subseteq MemIds
      BY <2>1 DEF MemIds
    <3>2. handler'[r] # Idle
      BY <2>1 DEF Unfiled, Idle
    <3>. QED BY <2>1, <3>1, <3>2 DEF ListInv, FreshIds
  <2>2. CASE q # r
    <3>1. handler'[q] = handler[q] /\ handler[q] # Idle
      BY <2>2 DEF Unfiled, Idle
    <3>2. /\ handler[q].job.id \notin MemIds
          /\ \A k \in Req \ {q} : handler[k] # Idle => handler[k].job.id # handler[q].job.id
      BY <3>1 DEF ListInv, FreshIds
    <3>3. handler[q].job.id # x
      BY <2>2, <3>2
    <3>4. MemIds' \subseteq MemIds \cup {x}
      BY DEF MemIds
    <3>. QED BY <2>2, <3>1, <3>2, <3>3, <3>4
  <2>. QED BY <2>1, <2>2
<1>4. OneListOnly'
  BY DEF ListInv, OneListOnly
<1>. QED BY <1>2, <1>3, <1>4 DEF ListInv

\* A step of an idle handler that draws a fresh id.
LEMMA StepWithNewJob ==
    ASSUME TypeOK, ListInv, NEW r \in Req,
           UNCHANGED <<pending, history, disk>>,
           nextId' = nextId + 1,
           \A q \in Req \ {r} : handler'[q] = handler[q],
           handler'[r].job.id = nextId
    PROVE  ListInv'
<1>1. nextId \in Nat /\ \A id \in JobId : id \in Nat
  BY BoundsAssumption DEF TypeOK, JobId
<1>2. MemIds \cup DiskIds \subseteq Nat
  BY <1>1, IdsOfJobs DEF MemIds, DiskIds, TypeOK, JobsDoc
<1>3. \A q \in Req : handler[q] # Idle => handler[q].job.id \in Nat
  BY <1>1 DEF TypeOK, Handler, Job
<1>4. MemIds' = MemIds /\ DiskIds' = DiskIds
  BY DEF MemIds, DiskIds
<1>5. nextId \notin MemIds
  BY <1>1 DEF ListInv, IdsUsed
<1>6. \A q \in Req : handler[q] # Idle => handler[q].job.id # nextId
  BY <1>1 DEF ListInv, IdsUsed
<1>7. IdsUsed'
  <2>1. \A id \in MemIds \cup DiskIds : id < nextId + 1
    BY <1>1, <1>2 DEF ListInv, IdsUsed
  <2>2. ASSUME NEW q \in Req, handler'[q] # Idle PROVE handler'[q].job.id < nextId + 1
    BY <1>1, <1>3, <2>2 DEF ListInv, IdsUsed
  <2>. QED BY <1>4, <2>1, <2>2 DEF IdsUsed
<1>8. FreshIds'
  <2> SUFFICES ASSUME NEW q \in Req, Unfiled(handler'[q])
               PROVE  /\ handler'[q].job.id \notin MemIds'
                      /\ \A k \in Req \ {q} : handler'[k] # Idle =>
                            handler'[k].job.id # handler'[q].job.id
    BY DEF FreshIds
  <2>1. CASE q = r
    BY <1>4, <1>5, <1>6, <2>1
  <2>2. CASE q # r
    <3>1. handler'[q] = handler[q] /\ handler[q] # Idle
      BY <2>2 DEF Unfiled, Idle
    <3>. QED BY <1>4, <1>6, <2>2, <3>1 DEF ListInv, FreshIds
  <2>. QED BY <2>1, <2>2
<1>9. OneListOnly'
  BY DEF ListInv, OneListOnly
<1>. QED BY <1>7, <1>8, <1>9 DEF ListInv

\* The lists start empty.
LEMMA ListInvInit == Init => ListInv
<1> SUFFICES ASSUME Init PROVE ListInv
  OBVIOUS
<1>1. Ids(<< >>) = {} /\ DistinctIds(<< >>)
  BY EmptySeq DEF Ids, DistinctIds
<1>2. IdsUsed
  BY <1>1 DEF Init, IdsUsed, MemIds, DiskIds
<1>3. FreshIds
  BY DEF Init, FreshIds, Unfiled, Idle
<1>4. OneListOnly
  BY <1>1 DEF Init, OneListOnly, OneList
<1>. QED BY <1>2, <1>3, <1>4 DEF ListInv

\* A handler that only moves on, or whose job stays where it is.
LEMMA StepWithoutFiling ==
    ASSUME TypeOK, ListInv, NEW r \in Req,
           UNCHANGED <<history, disk, nextId>>,
           Ids(pending') = Ids(pending), DistinctIds(pending'),
           \A q \in Req \ {r} : handler'[q] = handler[q],
           handler[r] # Idle,
           handler'[r] # Idle => handler'[r].job.id = handler[r].job.id,
           Unfiled(handler'[r]) => Unfiled(handler[r])
    PROVE  ListInv'
<1>1. OneList(pending', history')
  BY DEF ListInv, OneListOnly, OneList
<1>2. Ids(pending') \cup Ids(history') \subseteq MemIds
  BY DEF MemIds
<1> DEFINE x == handler[r].job.id
<1>3. x \in MemIds \/ (handler[r] # Idle /\ x = handler[r].job.id)
  OBVIOUS
<1>. HIDE DEF x
<1>4. handler'[r] # Idle => handler'[r].job.id = x
  BY DEF x
<1>5. Unfiled(handler'[r]) => Unfiled(handler[r]) /\ x = handler[r].job.id
  BY DEF x
<1>. QED BY <1>1, <1>2, <1>3, <1>4, <1>5, StepOfHandler

\* Every step keeps the two lists apart.
LEMMA ListInvNext == TypeInv /\ ListInv /\ [Next]_vars => ListInv'
<1> SUFFICES ASSUME TypeInv, ListInv, [Next]_vars PROVE ListInv'
  OBVIOUS
<1>t. TypeOK /\ pending \in Seq(Job) /\ history \in Seq(Job)
      /\ handler \in [Req -> Handler \cup {Idle}]
  BY DEF TypeInv, TypeOK
<1>d. DistinctIds(pending) /\ Ids(pending) \cap Ids(history) = {}
  BY DEF ListInv, OneListOnly, OneList
<1>1. ASSUME NEW r \in Req, NEW p \in Printer, InboundReceive(r, p) PROVE ListInv'
  <2>1. /\ \A q \in Req \ {r} : handler'[q] = handler[q]
        /\ handler'[r].job.id = nextId
    BY <1>1, <1>t DEF InboundReceive
  <2>2. UNCHANGED <<pending, history, disk>> /\ nextId' = nextId + 1
    BY <1>1 DEF InboundReceive, store
  <2>. QED BY <1>t, <2>1, <2>2, StepWithNewJob
<1>2. ASSUME NEW r \in Req, NEW id \in JobId, NEW p \in Printer, ReprintFind(r, id, p)
      PROVE ListInv'
  <2>1. /\ \A q \in Req \ {r} : handler'[q] = handler[q]
        /\ handler'[r].job.id = nextId
    BY <1>2, <1>t DEF ReprintFind
  <2>2. UNCHANGED <<pending, history, disk>> /\ nextId' = nextId + 1
    BY <1>2 DEF ReprintFind, store
  <2>. QED BY <1>t, <2>1, <2>2, StepWithNewJob
<1>3. ASSUME NEW r \in Req, NEW id \in JobId, NEW p \in Printer, ReleaseFind(r, id, p)
      PROVE ListInv'
  <2>1. pending[PositionOf(pending, id)].id = id /\ id \in Ids(pending)
    BY <1>3, PositionOfId DEF ReleaseFind
  <2>2. /\ \A q \in Req \ {r} : handler'[q] = handler[q]
        /\ handler'[r].job.id = id
        /\ ~Unfiled(handler'[r])
    BY <1>3, <1>t, <2>1 DEF ReleaseFind, Unfiled
  <2>3. UNCHANGED <<pending, history, disk, nextId>>
    BY <1>3 DEF ReleaseFind, store
  <2>4. id \in MemIds /\ Ids(pending') \cup Ids(history') \subseteq MemIds
    BY <2>1, <2>3 DEF MemIds
  <2>5. OneList(pending', history')
    BY <1>d, <2>3 DEF OneList
  <2>. QED BY <1>t, <2>2, <2>3, <2>4, <2>5, StepOfHandler
<1>4. ASSUME NEW r \in Req, NEW x \in PC, NEW y \in PC, At(r, x),
             Goto(r, y), UNCHANGED <<history, disk, nextId>>,
             Ids(pending') = Ids(pending), DistinctIds(pending'),
             Unfiled([handler[r] EXCEPT !.pc = y]) => Unfiled(handler[r])
      PROVE ListInv'
  <2>1. /\ handler'[r] = [handler[r] EXCEPT !.pc = y]
        /\ \A q \in Req \ {r} : handler'[q] = handler[q]
        /\ handler[r] \in Handler /\ handler[r] # Idle
    BY <1>4, <1>t, GotoHandler, BusyHandler
  <2>2. handler'[r].job.id = handler[r].job.id
    BY <2>1 DEF Handler
  <2>. QED BY <1>4, <1>t, <2>1, <2>2, StepWithoutFiling
<1>5. ASSUME NEW r \in Req, InboundMode(r) PROVE ListInv'
  <2> DEFINE y == IF auto_print THEN "resolve" ELSE "hold"
  <2>1. y \in PC /\ Goto(r, y) /\ At(r, "mode") /\ UNCHANGED <<pending, history, disk, nextId>>
    BY <1>5 DEF InboundMode, PC, store
  <2>2. Unfiled(handler[r])
    BY <2>1 DEF Unfiled, At
  <2>. HIDE DEF y
  <2>. QED BY <1>4, <1>d, <2>1, <2>2 DEF PC
<1>6. ASSUME NEW r \in Req, Resolve(r) PROVE ListInv'
  <2> DEFINE y == IF handler[r].target \in printers THEN "send" ELSE "record"
  <2>1. y \in PC /\ Goto(r, y) /\ At(r, "resolve") /\ UNCHANGED <<pending, history, disk, nextId>>
    BY <1>6 DEF Resolve, PC, store
  <2>2. Unfiled([handler[r] EXCEPT !.pc = y]) => Unfiled(handler[r])
    <3>1. handler[r] \in Handler
      BY <1>t, <2>1, BusyHandler DEF PC
    <3>. QED BY <2>1, <3>1 DEF Unfiled, At, Handler
  <2>. HIDE DEF y
  <2>. QED BY <1>4, <1>d, <2>1, <2>2 DEF PC
<1>7. ASSUME NEW r \in Req, SendOk(r) \/ SendErr(r) \/ SendLateErr(r) PROVE ListInv'
  <2>1. PICK ok \in BOOLEAN : Sent(r, ok)
    BY <1>7 DEF SendOk, SendErr, SendLateErr
  <2>2. At(r, "send") /\ UNCHANGED <<pending, history, disk, nextId>>
    BY <1>7 DEF SendOk, SendErr, SendLateErr, store
  <2>3. handler[r] \in Handler /\ handler[r] # Idle
    BY <1>t, <2>2, BusyHandler DEF PC
  <2>4. /\ \A q \in Req \ {r} : handler'[q] = handler[q]
        /\ handler'[r] = [handler[r] EXCEPT !.pc = "record", !.sent = ok]
    BY <1>t, <2>1, <2>3 DEF Sent
  <2>5. handler'[r].job.id = handler[r].job.id /\ (Unfiled(handler'[r]) => Unfiled(handler[r]))
    BY <2>2, <2>3, <2>4 DEF Handler, Unfiled, At
  <2>6. Ids(pending') = Ids(pending) /\ DistinctIds(pending')
    BY <1>d, <2>2
  <2>. QED BY <1>t, <2>2, <2>3, <2>4, <2>5, <2>6, StepWithoutFiling
<1>8. ASSUME NEW r \in Req, RecordFailure(r) PROVE ListInv'
  <2>1. Ids(pending') = Ids(pending) /\ DistinctIds(pending')
    <3>1. CASE handler[r].kind = "release"
      BY <1>8, <1>t, <1>d, <3>1, MarkFailedJob DEF RecordFailure
    <3>2. CASE handler[r].kind # "release"
      BY <1>8, <1>d, <3>2 DEF RecordFailure
    <3>. QED BY <3>1, <3>2
  <2>2. handler[r] \in Handler
    BY <1>8, <1>t, BusyHandler DEF RecordFailure, PC
  <2>3. ~Unfiled([handler[r] EXCEPT !.pc = "save"])
    BY <2>2 DEF Unfiled, Handler
  <2>4. /\ At(r, "record") /\ Goto(r, "save") /\ UNCHANGED <<history, disk, nextId>>
        /\ "record" \in PC /\ "save" \in PC
    BY <1>8 DEF RecordFailure, PC
  <2>. QED BY <1>4, <2>1, <2>3, <2>4
<1>9. ASSUME NEW r \in Req, InboundReject(r) \/ InboundHold(r) \/ RecordReprint(r)
      PROVE ListInv'
  <2> DEFINE j == handler[r].job
  <2>1. PICK x \in PC : At(r, x) /\ Goto(r, "save") /\ Unfiled(handler[r])
    BY <1>9 DEF InboundReject, InboundHold, RecordReprint, PC, Unfiled, At
  <2>2. /\ handler'[r] = [handler[r] EXCEPT !.pc = "save"]
        /\ \A q \in Req \ {r} : handler'[q] = handler[q]
        /\ handler[r] \in Handler /\ handler[r] # Idle
    BY <1>t, <2>1, GotoHandler, BusyHandler DEF PC
  <2>3. j \in Job /\ handler'[r].job.id = j.id /\ ~Unfiled(handler'[r])
    BY <2>2 DEF Handler, Unfiled
  <2>4. j.id \notin MemIds
    BY <2>1 DEF ListInv, FreshIds
  <2>. HIDE DEF j
  <2>5. UNCHANGED <<disk, nextId>>
    BY <1>9 DEF InboundReject, InboundHold, RecordReprint
  <2>6. \/ pending' = pending /\ history' = <<j>> \o history
        \/ pending' = <<j>> \o pending /\ history' = history
    BY <1>9 DEF InboundReject, InboundHold, RecordReprint, j
  <2>7. OneList(pending', history') /\ Ids(pending') \cup Ids(history') \subseteq MemIds \cup {j.id}
    <3>1. CASE pending' = pending /\ history' = <<j>> \o history
      BY <1>t, <1>d, <2>3, <2>4, <3>1, ConsJob DEF OneList, MemIds
    <3>2. CASE pending' = <<j>> \o pending /\ history' = history
      BY <1>t, <1>d, <2>3, <2>4, <3>2, ConsJob DEF OneList, MemIds
    <3>. QED BY <2>6, <3>1, <3>2
  <2>8. handler[r] # Idle /\ j.id = handler[r].job.id
    BY <2>2 DEF j
  <2>. QED BY <1>t, <2>2, <2>3, <2>5, <2>7, <2>8, StepOfHandler
<1>10. ASSUME NEW r \in Req, RecordInbound(r) PROVE ListInv'
  <2> DEFINE j == [handler[r].job EXCEPT !.status =
                     IF handler[r].sent THEN "printed" ELSE "failed"]
             h == [handler[r] EXCEPT !.pc = "save", !.job = j]
  <2>1. handler[r] \in Handler /\ handler[r] # Idle
    BY <1>10, <1>t, BusyHandler DEF RecordInbound, PC
  <2>2. j \in Job /\ j.id = handler[r].job.id
    BY <2>1 DEF Handler, Job, JobStatus
  <2>3. h.job.id = j.id /\ ~Unfiled(h)
    BY <2>1, <2>2 DEF Handler, Unfiled
  <2>4. handler' = [handler EXCEPT ![r] = h] /\ history' = <<j>> \o history
        /\ UNCHANGED <<pending, disk, nextId>>
    BY <1>10, <1>t, <2>1 DEF RecordInbound
  <2>5. j.id \notin MemIds
    BY <1>10, <2>2 DEF RecordInbound, ListInv, FreshIds, Unfiled, At
  <2>. HIDE DEF h, j
  <2>6. OneList(pending', history') /\ Ids(pending') \cup Ids(history') \subseteq MemIds \cup {j.id}
    BY <1>t, <1>d, <2>2, <2>4, <2>5, ConsJob DEF OneList, MemIds
  <2>7. handler'[r] = h /\ \A q \in Req \ {r} : handler'[q] = handler[q]
    BY <1>t, <2>4
  <2>. QED BY <1>t, <2>1, <2>2, <2>3, <2>4, <2>6, <2>7, StepOfHandler
<1>11. ASSUME NEW r \in Req, RecordRelease(r) PROVE ListInv'
  <2> DEFINE j == [handler[r].job EXCEPT !.status = "printed",
                                         !.printer = handler[r].target]
             h == [handler[r] EXCEPT !.pc = "save", !.job = j]
  <2>1. handler[r] \in Handler /\ handler[r] # Idle
    BY <1>11, <1>t, BusyHandler DEF RecordRelease, PC
  <2>2. j \in Job /\ j.id = handler[r].job.id
    BY <2>1 DEF Handler, Job, JobStatus
  <2>3. h.job.id = j.id /\ ~Unfiled(h)
    BY <2>1, <2>2 DEF Handler, Unfiled
  <2>4. /\ handler' = [handler EXCEPT ![r] = h]
        /\ pending' = Without(pending, j.id)
        /\ history' = <<j>> \o history
        /\ UNCHANGED <<disk, nextId>>
    BY <1>11, <1>t, <2>1 DEF RecordRelease
  <2>. HIDE DEF h, j
  <2>5. /\ Ids(pending') \subseteq Ids(pending)
        /\ DistinctIds(pending')
        /\ j.id \notin Ids(pending')
    BY <1>t, <1>d, <2>4, WithoutJob
  <2>6. Ids(history') = {j.id} \cup Ids(history)
    BY <1>t, <2>2, <2>4, ConsJob
  <2>7. OneList(pending', history') /\ Ids(pending') \cup Ids(history') \subseteq MemIds \cup {j.id}
    BY <1>d, <2>5, <2>6 DEF OneList, MemIds
  <2>8. handler'[r] = h /\ \A q \in Req \ {r} : handler'[q] = handler[q]
    BY <1>t, <2>4
  <2>. QED BY <1>t, <2>1, <2>2, <2>3, <2>4, <2>7, <2>8, StepOfHandler
<1>12. ASSUME NEW r \in Req, NEW id \in JobId, Dismiss(r, id) PROVE ListInv'
  <2> DEFINE k == pending[PositionOf(pending, id)]
             j == [k EXCEPT !.status = "dismissed"]
             h == [pc |-> "save", kind |-> "dismiss", job |-> j,
                   target |-> j.printer, sent |-> FALSE]
  <2>1. PositionOf(pending, id) \in DOMAIN pending /\ k.id = id /\ id \in MemIds
    BY <1>12, PositionOfId DEF Dismiss, MemIds
  <2>2. k \in Job
    BY <1>t, <2>1
  <2>3. j \in Job /\ j.id = id
    BY <2>1, <2>2 DEF Job, JobStatus
  <2>4. h.job.id = id /\ ~Unfiled(h)
    BY <2>3 DEF Unfiled
  <2>5. /\ handler' = [handler EXCEPT ![r] = h]
        /\ pending' = Without(pending, id)
        /\ history' = <<j>> \o history
        /\ UNCHANGED <<disk, nextId>>
    BY <1>12 DEF Dismiss
  <2>. HIDE DEF h, j, k
  <2>6. /\ Ids(pending') \subseteq Ids(pending)
        /\ DistinctIds(pending')
        /\ id \notin Ids(pending')
    BY <1>t, <1>d, <2>5, WithoutJob
  <2>7. Ids(history') = {id} \cup Ids(history)
    BY <1>t, <2>3, <2>5, ConsJob
  <2>8. OneList(pending', history') /\ Ids(pending') \cup Ids(history') \subseteq MemIds \cup {id}
    BY <1>d, <2>6, <2>7 DEF OneList, MemIds
  <2>9. handler'[r] = h /\ \A q \in Req \ {r} : handler'[q] = handler[q]
    BY <1>t, <2>5
  <2>. QED BY <1>t, <2>1, <2>4, <2>5, <2>8, <2>9, StepOfHandler
<1>13. ASSUME NEW r \in Req, Save(r) PROVE ListInv'
  <2>1. /\ handler'[r] = [handler[r] EXCEPT !.pc = "reply"]
        /\ \A q \in Req \ {r} : handler'[q] = handler[q]
        /\ handler[r] \in Handler /\ handler[r] # Idle
    BY <1>13, <1>t, GotoHandler, BusyHandler DEF Save, PC
  <2>2. handler'[r].job.id = handler[r].job.id /\ ~Unfiled(handler'[r])
    BY <2>1 DEF Handler, Unfiled
  <2>3. /\ Ids(pending') \subseteq Ids(pending) /\ DistinctIds(pending')
        /\ Ids(history') \subseteq Ids(history)
    BY <1>13, <1>t, <1>d, BoundsAssumption, TruncateJobs DEF Save
  <2>4. OneList(pending', history') /\ Ids(pending') \cup Ids(history') \subseteq MemIds
    BY <1>d, <2>3 DEF OneList, MemIds
  <2>5. /\ disk' = disk \/ disk' = [pending |-> pending', history |-> history']
        /\ nextId' = nextId
    BY <1>13 DEF Save
  <2>. QED BY <1>t, <2>1, <2>2, <2>4, <2>5, StepOfHandler
<1>14. ASSUME NEW r \in Req, Reply(r) \/ Hangup(r) PROVE ListInv'
  <2>1. handler[r] # Idle /\ handler' = [handler EXCEPT ![r] = Idle]
        /\ UNCHANGED <<pending, history, disk, nextId>>
    BY <1>14, <1>t, BusyHandler DEF Reply, Hangup, PC, store
  <2>2. handler'[r] = Idle /\ ~Unfiled(handler'[r])
        /\ \A q \in Req \ {r} : handler'[q] = handler[q]
    BY <1>t, <2>1 DEF Unfiled, Idle
  <2>3. Ids(pending') = Ids(pending) /\ DistinctIds(pending')
    BY <1>d, <2>1
  <2>. QED BY <1>t, <2>1, <2>2, <2>3, StepWithoutFiling
<1>15. CASE Restart
  <2>1. /\ \/ pending' = disk.pending /\ history' = disk.history
           \/ pending' = << >> /\ history' = << >>
        /\ disk' = disk /\ nextId' = nextId /\ handler' = [r \in Req |-> Idle]
    BY <1>15 DEF Restart
  <2>2. Ids(<< >>) = {} /\ DistinctIds(<< >>)
    BY EmptySeq DEF Ids, DistinctIds
  <2>3. OneList(pending', history') /\ Ids(pending') \cup Ids(history') \subseteq DiskIds
    BY <2>1, <2>2 DEF ListInv, OneListOnly, OneList, DiskIds
  <2>4. IdsUsed'
    BY <2>1, <2>3 DEF ListInv, IdsUsed, MemIds, DiskIds
  <2>5. FreshIds'
    BY <2>1 DEF FreshIds, Unfiled, Idle
  <2>6. OneListOnly'
    BY <2>1, <2>3 DEF ListInv, OneListOnly
  <2>. QED BY <2>4, <2>5, <2>6 DEF ListInv
<1>16. CASE Reconfigure \/ UNCHANGED vars
  <2>1. UNCHANGED <<pending, history, disk, nextId, handler>>
    BY <1>16 DEF Reconfigure, store, vars
  <2>. QED BY <2>1 DEF ListInv, IdsUsed, FreshIds, OneListOnly, MemIds, DiskIds
<1>. QED
  BY <1>1, <1>2, <1>3, <1>5, <1>6, <1>7, <1>8, <1>9, <1>10, <1>11, <1>12, <1>13,
     <1>14, <1>15, <1>16
     DEF Next, Accept, Operate, Advance

\* A job is never in two lists nor twice in the queue, in memory or on disk, with
\* every fault, disk faults included.
THEOREM NeverInTwoLists == Spec => []OneListOnly
<1>1. Init => TypeInv /\ ListInv
  BY TypeInvInit, ListInvInit
<1>2. TypeInv /\ ListInv /\ [Next]_vars => (TypeInv /\ ListInv)'
  BY TypeInvNext, ListInvNext
<1>3. ListInv => OneListOnly
  BY DEF ListInv
<1>. QED BY <1>1, <1>2, <1>3, PTL DEF Spec

-----------------------------------------------------------------------------
(* What was answered is on disk *)

\* A step of handler r before its save: no job leaves memory, history only grows,
\* and a job that is ready to be saved is filed.
LEMMA StepBeforeSave ==
    ASSUME DurableInv, NEW r \in Req,
           UNCHANGED <<disk, evicted, acked>>,
           Ids(history) \subseteq Ids(history'),
           Ids(pending) \subseteq Ids(pending') \cup Ids(history'),
           \A q \in Req \ {r} : handler'[q] = handler[q],
           handler'[r] # Idle /\ AnswersOk(handler'[r]) =>
                /\ handler'[r].pc # "reply"
                /\ handler'[r].pc = "save" => Filed(handler'[r], pending', history')
    PROVE  DurableInv'
<1>1. MemIds \subseteq MemIds'
  BY DEF MemIds
<1>2. DiskBehind'
  BY <1>1 DEF DurableInv, DiskBehind
<1>3. AckedDurable'
  BY DEF DurableInv, AckedDurable
<1>4. AnswersBacked'
  <2> SUFFICES ASSUME NEW q \in Req, handler'[q] # Idle, AnswersOk(handler'[q])
               PROVE  /\ handler'[q].pc = "save" => Filed(handler[q], pending, history)'
                      /\ handler'[q].pc = "reply" => Filed(handler[q], disk.pending, disk.history)'
    BY DEF AnswersBacked, At, AnswersOk
  <2>1. CASE q = r
    BY <2>1 DEF Filed
  <2>2. CASE q # r
    <3>1. handler'[q] = handler[q]
      BY <2>2
    <3>2. /\ handler[q].pc = "save" => Filed(handler[q], pending, history)
          /\ handler[q].pc = "reply" => Filed(handler[q], disk.pending, disk.history)
      BY <3>1 DEF DurableInv, AnswersBacked, At
    <3>. QED BY <3>1, <3>2 DEF Filed
  <2>. QED BY <2>1, <2>2
<1>. QED BY <1>2, <1>3, <1>4 DEF DurableInv

\* Nothing is filed, saved or promised yet.
LEMMA DurableInvInit == Init => DurableInv
<1>1. Ids(<< >>) = {}
  BY EmptySeq DEF Ids
<1>. QED BY <1>1 DEF Init, DurableInv, DiskBehind, AnswersBacked, AckedDurable

\* Every step keeps jobs.json behind memory and the answers behind jobs.json,
\* provided that writes succeed.
LEMMA DurableInvNext ==
    ASSUME "disk" \notin Faults
    PROVE  TypeInv /\ ListInv /\ DurableInv /\ [Next]_vars => DurableInv'
<1> SUFFICES ASSUME TypeInv, ListInv, DurableInv, [Next]_vars PROVE DurableInv'
  OBVIOUS
<1>t. TypeOK /\ pending \in Seq(Job) /\ history \in Seq(Job)
      /\ handler \in [Req -> Handler \cup {Idle}]
  BY DEF TypeInv, TypeOK
<1>1. ASSUME NEW r \in Req,
             \/ \E p \in Printer : InboundReceive(r, p)
             \/ \E id \in JobId, p \in Printer : ReleaseFind(r, id, p) \/ ReprintFind(r, id, p)
             \/ InboundMode(r) \/ Resolve(r) \/ SendOk(r) \/ SendErr(r) \/ SendLateErr(r)
             \/ Hangup(r)
      PROVE DurableInv'
  <2>1. UNCHANGED <<pending, history, disk, evicted, acked>>
    BY <1>1 DEF InboundReceive, ReleaseFind, ReprintFind, InboundMode, Resolve, SendOk,
                SendErr, SendLateErr, Hangup, store, ghosts
  <2>2. PICK h : handler' = [handler EXCEPT ![r] = h]
    BY <1>1, <1>t DEF InboundReceive, ReleaseFind, ReprintFind, InboundMode, Resolve, SendOk,
                      SendErr, SendLateErr, Hangup, Sent, Goto
  <2>3. \A q \in Req \ {r} : handler'[q] = handler[q]
    BY <1>t, <2>2
  <2>4. handler'[r].pc \notin {"save", "reply"}
    <3>1. CASE \E p \in Printer : InboundReceive(r, p)
      BY <1>t, <3>1 DEF InboundReceive
    <3>2. CASE \E id \in JobId, p \in Printer : ReleaseFind(r, id, p) \/ ReprintFind(r, id, p)
      BY <1>t, <3>2 DEF ReleaseFind, ReprintFind
    <3>3. CASE InboundMode(r)
      <4> DEFINE y == IF auto_print THEN "resolve" ELSE "hold"
      <4>1. At(r, "mode") /\ Goto(r, y) /\ y \in PC /\ "mode" \in PC
        BY <3>3 DEF InboundMode, PC
      <4>2. handler[r] \in Handler /\ handler'[r] = [handler[r] EXCEPT !.pc = y]
        BY <1>t, <4>1, GotoHandler, BusyHandler
      <4>. QED BY <4>2 DEF Handler
    <3>4. CASE Resolve(r)
      <4> DEFINE y == IF handler[r].target \in printers THEN "send" ELSE "record"
      <4>1. At(r, "resolve") /\ Goto(r, y) /\ y \in PC /\ "resolve" \in PC
        BY <3>4 DEF Resolve, PC
      <4>2. handler[r] \in Handler /\ handler'[r] = [handler[r] EXCEPT !.pc = y]
        BY <1>t, <4>1, GotoHandler, BusyHandler
      <4>. QED BY <4>2 DEF Handler
    <3>5. CASE SendOk(r) \/ SendErr(r) \/ SendLateErr(r)
      <4>1. PICK ok \in BOOLEAN : Sent(r, ok)
        BY <3>5 DEF SendOk, SendErr, SendLateErr
      <4>2. handler[r] \in Handler
        BY <1>t, <3>5, BusyHandler DEF SendOk, SendErr, SendLateErr, PC
      <4>. QED BY <1>t, <4>1, <4>2 DEF Sent, Handler
    <3>6. CASE Hangup(r)
      BY <1>t, <3>6 DEF Hangup, Idle
    <3>. QED BY <1>1, <3>1, <3>2, <3>3, <3>4, <3>5, <3>6
  <2>. QED BY <2>1, <2>3, <2>4, StepBeforeSave
<1>2. ASSUME NEW r \in Req, InboundReject(r) \/ RecordReprint(r) PROVE DurableInv'
  <2> DEFINE j == handler[r].job
  <2>1. PICK x \in PC : At(r, x) /\ Goto(r, "save")
    BY <1>2 DEF InboundReject, RecordReprint, PC
  <2>2. /\ handler'[r] = [handler[r] EXCEPT !.pc = "save"]
        /\ \A q \in Req \ {r} : handler'[q] = handler[q]
        /\ handler[r] \in Handler
    BY <1>t, <2>1, GotoHandler, BusyHandler DEF PC
  <2>3. j \in Job /\ handler'[r].job = j /\ handler'[r].pc = "save"
    BY <2>2 DEF Handler
  <2>. HIDE DEF j
  <2>4. history' = <<j>> \o history /\ UNCHANGED <<pending, disk, evicted, acked>>
    BY <1>2 DEF InboundReject, RecordReprint, j, ghosts
  <2>5. Ids(history') = {j.id} \cup Ids(history)
    BY <1>t, <2>3, <2>4, ConsJob
  <2>6. Filed(handler'[r], pending', history')
    BY <2>3, <2>5 DEF Filed
  <2>. QED BY <2>2, <2>3, <2>4, <2>5, <2>6, StepBeforeSave
<1>3. ASSUME NEW r \in Req, InboundHold(r) PROVE DurableInv'
  <2> DEFINE j == handler[r].job
  <2>1. At(r, "hold") /\ Goto(r, "save")
    BY <1>3 DEF InboundHold
  <2>2. /\ handler'[r] = [handler[r] EXCEPT !.pc = "save"]
        /\ \A q \in Req \ {r} : handler'[q] = handler[q]
        /\ handler[r] \in Handler /\ Shape(handler[r])
    BY <1>t, <2>1, GotoHandler, BusyHandler DEF PC, TypeInv, StatusOK
  <2>3. /\ j \in Job /\ handler'[r].job = j /\ handler'[r].pc = "save"
        /\ j.status = "queued"
    BY <2>1, <2>2 DEF Handler, Shape, At
  <2>. HIDE DEF j
  <2>4. pending' = <<j>> \o pending /\ UNCHANGED <<history, disk, evicted, acked>>
    BY <1>3 DEF InboundHold, j, ghosts
  <2>5. Ids(pending') = {j.id} \cup Ids(pending)
    BY <1>t, <2>3, <2>4, ConsJob
  <2>6. Filed(handler'[r], pending', history')
    BY <2>3, <2>5 DEF Filed
  <2>. QED BY <2>2, <2>3, <2>4, <2>5, <2>6, StepBeforeSave
<1>4. ASSUME NEW r \in Req, RecordInbound(r) PROVE DurableInv'
  <2> DEFINE j == [handler[r].job EXCEPT !.status =
                     IF handler[r].sent THEN "printed" ELSE "failed"]
             h == [handler[r] EXCEPT !.pc = "save", !.job = j]
  <2>1. handler[r] \in Handler
    BY <1>4, <1>t, BusyHandler DEF RecordInbound, PC
  <2>2. j \in Job
    BY <2>1 DEF Handler, Job, JobStatus
  <2>3. h.job = j /\ h.pc = "save"
    BY <2>1 DEF Handler
  <2>4. handler' = [handler EXCEPT ![r] = h] /\ history' = <<j>> \o history
        /\ UNCHANGED <<pending, disk, evicted, acked>>
    BY <1>4, <1>t, <2>1 DEF RecordInbound, ghosts
  <2>. HIDE DEF h, j
  <2>5. Ids(history') = {j.id} \cup Ids(history)
    BY <1>t, <2>2, <2>4, ConsJob
  <2>6. handler'[r] = h /\ \A q \in Req \ {r} : handler'[q] = handler[q]
    BY <1>t, <2>4
  <2>7. Filed(handler'[r], pending', history')
    BY <2>3, <2>5, <2>6 DEF Filed
  <2>. QED BY <2>3, <2>4, <2>5, <2>6, <2>7, StepBeforeSave
<1>5. ASSUME NEW r \in Req, RecordRelease(r) PROVE DurableInv'
  <2> DEFINE j == [handler[r].job EXCEPT !.status = "printed",
                                         !.printer = handler[r].target]
             h == [handler[r] EXCEPT !.pc = "save", !.job = j]
  <2>1. handler[r] \in Handler
    BY <1>5, <1>t, BusyHandler DEF RecordRelease, PC
  <2>2. j \in Job
    BY <2>1 DEF Handler, Job, JobStatus
  <2>3. h.job = j /\ h.pc = "save"
    BY <2>1 DEF Handler
  <2>4. /\ handler' = [handler EXCEPT ![r] = h]
        /\ pending' = Without(pending, j.id)
        /\ history' = <<j>> \o history
        /\ UNCHANGED <<disk, evicted, acked>>
    BY <1>5, <1>t, <2>1 DEF RecordRelease, ghosts
  <2>. HIDE DEF h, j
  <2>5. /\ Ids(history') = {j.id} \cup Ids(history)
        /\ Ids(pending) \ {j.id} \subseteq Ids(pending')
    BY <1>t, <2>2, <2>4, ConsJob, WithoutJob
  <2>6. handler'[r] = h /\ \A q \in Req \ {r} : handler'[q] = handler[q]
    BY <1>t, <2>4
  <2>7. Filed(handler'[r], pending', history')
    BY <2>3, <2>5, <2>6 DEF Filed
  <2>. QED BY <2>3, <2>4, <2>5, <2>6, <2>7, StepBeforeSave
<1>6. ASSUME NEW r \in Req, RecordFailure(r) PROVE DurableInv'
  <2>1. At(r, "record") /\ Goto(r, "save") /\ UNCHANGED <<history, disk, evicted, acked>>
    BY <1>6 DEF RecordFailure, ghosts
  <2>2. /\ handler'[r] = [handler[r] EXCEPT !.pc = "save"]
        /\ \A q \in Req \ {r} : handler'[q] = handler[q]
        /\ handler[r] \in Handler
    BY <1>t, <2>1, GotoHandler, BusyHandler DEF PC
  <2>3. ~AnswersOk(handler'[r])
    BY <1>6, <2>2 DEF RecordFailure, AnswersOk, Handler
  <2>4. Ids(pending') = Ids(pending)
    <3>1. CASE handler[r].kind = "release"
      BY <1>6, <1>t, <3>1, MarkFailedJob DEF RecordFailure
    <3>2. CASE handler[r].kind # "release"
      BY <1>6, <3>2 DEF RecordFailure
    <3>. QED BY <3>1, <3>2
  <2>. QED BY <2>1, <2>2, <2>3, <2>4, StepBeforeSave
<1>7. ASSUME NEW r \in Req, NEW id \in JobId, Dismiss(r, id) PROVE DurableInv'
  <2> DEFINE k == pending[PositionOf(pending, id)]
             j == [k EXCEPT !.status = "dismissed"]
             h == [pc |-> "save", kind |-> "dismiss", job |-> j,
                   target |-> j.printer, sent |-> FALSE]
  <2>1. PositionOf(pending, id) \in DOMAIN pending /\ k.id = id
    BY <1>7, PositionOfId DEF Dismiss
  <2>2. k \in Job
    BY <1>t, <2>1
  <2>3. j \in Job /\ j.id = id
    BY <2>1, <2>2 DEF Job, JobStatus
  <2>4. h.job = j /\ h.pc = "save"
    OBVIOUS
  <2>5. /\ handler' = [handler EXCEPT ![r] = h]
        /\ pending' = Without(pending, id)
        /\ history' = <<j>> \o history
        /\ UNCHANGED <<disk, evicted, acked>>
    BY <1>7 DEF Dismiss, ghosts
  <2>. HIDE DEF h, j, k
  <2>6. /\ Ids(history') = {id} \cup Ids(history)
        /\ Ids(pending) \ {id} \subseteq Ids(pending')
    BY <1>t, <2>3, <2>5, ConsJob, WithoutJob
  <2>7. handler'[r] = h /\ \A q \in Req \ {r} : handler'[q] = handler[q]
    BY <1>t, <2>5
  <2>8. Filed(handler'[r], pending', history')
    BY <2>3, <2>4, <2>6, <2>7 DEF Filed
  <2>. QED BY <2>4, <2>5, <2>6, <2>7, <2>8, StepBeforeSave
<1>8. ASSUME NEW r \in Req, Save(r) PROVE DurableInv'
  <2>1. /\ handler'[r] = [handler[r] EXCEPT !.pc = "reply"]
        /\ \A q \in Req \ {r} : handler'[q] = handler[q]
        /\ handler[r] \in Handler /\ handler[r] # Idle
    BY <1>8, <1>t, GotoHandler, BusyHandler DEF Save, PC
  <2>2. /\ Ids(pending') \subseteq Ids(pending)
        /\ Ids(history') \subseteq Ids(history)
    BY <1>8, <1>t, BoundsAssumption, TruncateJobs DEF Save
  <2>3. /\ disk' = [pending |-> pending', history |-> history']
        /\ evicted' = evicted \cup (MemIds \ (Ids(pending') \cup Ids(history')))
        /\ acked' = acked
    BY <1>8 DEF Save
  <2>4. Ids(pending) \cap Ids(history) = {}
    BY DEF ListInv, OneListOnly, OneList
  <2>5. Ids(history) \subseteq Ids(history') \cup evicted'
    BY <2>2, <2>3, <2>4 DEF MemIds
  <2>6. Ids(pending) \subseteq Ids(pending') \cup evicted'
    BY <2>2, <2>3, <2>4 DEF MemIds
  <2>7. disk'.pending = pending' /\ disk'.history = history' /\ evicted \subseteq evicted'
    BY <2>3
  <2>8. DiskBehind'
    BY <2>7 DEF DiskBehind, MemIds
  <2>9. AckedDurable'
    <3> SUFFICES ASSUME NEW a \in acked
                 PROVE  \/ a[1] \in evicted'
                        \/ a[1] \in Ids(history')
                        \/ a[2] = "queued" /\ a[1] \in Ids(pending')
      BY <2>3, <2>7 DEF AckedDurable
    <3>1. \/ a[1] \in evicted
          \/ a[1] \in Ids(disk.history)
          \/ a[2] = "queued" /\ a[1] \in Ids(disk.pending)
      BY DEF DurableInv, AckedDurable
    <3>2. /\ Ids(disk.history) \subseteq Ids(history) \cup evicted
          /\ Ids(disk.pending) \subseteq Ids(pending) \cup Ids(history) \cup evicted
      BY DEF DurableInv, DiskBehind, MemIds
    <3>. QED BY <2>5, <2>6, <2>7, <3>1, <3>2
  <2>10. AnswersBacked'
    <3> SUFFICES ASSUME NEW q \in Req, handler'[q] # Idle, AnswersOk(handler'[q])
                 PROVE  /\ handler'[q].pc = "save" => Filed(handler[q], pending, history)'
                        /\ handler'[q].pc = "reply" =>
                                Filed(handler[q], disk.pending, disk.history)'
      BY DEF AnswersBacked, At, AnswersOk
    <3>1. CASE q = r
      <4>1. /\ AnswersOk(handler[r]) /\ At(r, "save")
            /\ handler'[r].job = handler[r].job /\ handler'[r].pc = "reply"
        BY <1>8, <2>1, <3>1 DEF AnswersOk, Handler, Save
      <4>2. Filed(handler[r], pending, history)
        BY <2>1, <4>1 DEF DurableInv, AnswersBacked
      <4>. QED BY <2>5, <2>6, <2>7, <3>1, <4>1, <4>2 DEF Filed
    <3>2. CASE q # r
      <4>1. handler'[q] = handler[q]
        BY <2>1, <3>2
      <4>2. /\ handler[q].pc = "save" => Filed(handler[q], pending, history)
            /\ handler[q].pc = "reply" => Filed(handler[q], disk.pending, disk.history)
        BY <4>1 DEF DurableInv, AnswersBacked, At
      <4>3. /\ Ids(disk.history) \subseteq Ids(history) \cup evicted
            /\ Ids(disk.pending) \subseteq Ids(pending) \cup Ids(history) \cup evicted
        BY DEF DurableInv, DiskBehind, MemIds
      <4>. QED BY <2>5, <2>6, <2>7, <4>1, <4>2, <4>3 DEF Filed
    <3>. QED BY <3>1, <3>2
  <2>. QED BY <2>8, <2>9, <2>10 DEF DurableInv
<1>9. ASSUME NEW r \in Req, Reply(r) PROVE DurableInv'
  <2>1. /\ handler[r] \in Handler /\ handler[r] # Idle /\ At(r, "reply")
        /\ handler' = [handler EXCEPT ![r] = Idle]
        /\ UNCHANGED <<pending, history, disk, evicted>>
    BY <1>9, <1>t, BusyHandler DEF Reply, PC, store
  <2>2. DiskBehind'
    BY <2>1 DEF DurableInv, DiskBehind, MemIds
  <2>3. AckedDurable'
    <3>1. CASE AnswersOk(handler[r])
      <4>1. Filed(handler[r], disk.pending, disk.history)
        BY <2>1, <3>1 DEF DurableInv, AnswersBacked
      <4>2. acked' = acked \cup {<<handler[r].job.id, handler[r].job.status>>}
        BY <1>9, <3>1 DEF Reply
      <4>. QED BY <2>1, <4>1, <4>2 DEF DurableInv, AckedDurable, Filed
    <3>2. CASE ~AnswersOk(handler[r])
      BY <1>9, <2>1, <3>2 DEF Reply, DurableInv, AckedDurable
    <3>. QED BY <3>1, <3>2
  <2>4. AnswersBacked'
    <3>1. handler'[r] = Idle /\ \A q \in Req \ {r} : handler'[q] = handler[q]
      BY <1>t, <2>1
    <3>. QED BY <2>1, <3>1 DEF DurableInv, AnswersBacked, Filed, At
  <2>. QED BY <2>2, <2>3, <2>4 DEF DurableInv
<1>10. CASE Restart
  <2>1. /\ pending' = disk.pending /\ history' = disk.history
        /\ handler' = [r \in Req |-> Idle]
        /\ UNCHANGED <<disk, evicted, acked>>
    BY <1>10 DEF Restart, ghosts
  <2>. QED BY <2>1 DEF DurableInv, DiskBehind, AnswersBacked, AckedDurable, MemIds
<1>11. CASE Reconfigure \/ UNCHANGED vars
  <2>1. UNCHANGED <<pending, history, disk, handler, evicted, acked>>
    BY <1>11 DEF Reconfigure, store, ghosts, vars
  <2>. QED BY <2>1 DEF DurableInv, DiskBehind, AnswersBacked, AckedDurable, MemIds, Filed, At
<1>. QED
  BY <1>1, <1>2, <1>3, <1>4, <1>5, <1>6, <1>7, <1>8, <1>9, <1>10, <1>11
     DEF Next, Accept, Operate, Advance

\* No crash, hang-up or overlap of handlers makes jobs.json forget a label that
\* was answered with 200, as long as its writes succeed.
THEOREM AcknowledgedIsDurable ==
    ASSUME "disk" \notin Faults
    PROVE  Spec => []AckedDurable
<1>1. Init => TypeInv /\ ListInv /\ DurableInv
  BY TypeInvInit, ListInvInit, DurableInvInit
<1>2. TypeInv /\ ListInv /\ DurableInv /\ [Next]_vars => (TypeInv /\ ListInv /\ DurableInv)'
  BY TypeInvNext, ListInvNext, DurableInvNext
<1>3. DurableInv => AckedDurable
  BY DEF DurableInv
<1>. QED BY <1>1, <1>2, <1>3, PTL DEF Spec

-----------------------------------------------------------------------------
(* JobQueue implements QueueChanges *)

\* Only the task of the handler that moves can change.
LEMMA TaskOfHandler ==
    ASSUME NEW r \in Req, \A q \in Req \ {r} : handler'[q] = handler[q]
    PROVE  Tasks' = [Tasks EXCEPT ![r] = TaskOf(handler'[r])]
BY DEF Tasks

\* A step of a handler that leaves the queue alone and neither starts nor ends
\* within save and reply is not seen.
LEMMA UnseenStep ==
    ASSUME NEW r \in Req,
           \A q \in Req \ {r} : handler'[q] = handler[q],
           handler[r].pc \notin {"save", "reply"},
           handler'[r].pc \notin {"save", "reply"},
           pending' = pending
    PROVE  UNCHANGED Changes!qvars
<1>1. TaskOf(handler[r]) = [at |-> "free"] /\ TaskOf(handler'[r]) = [at |-> "free"]
  BY DEF TaskOf
<1>2. Tasks' = [Tasks EXCEPT ![r] = TaskOf(handler[r])]
  BY <1>1, TaskOfHandler
<1>3. Tasks' = Tasks
  BY <1>2 DEF Tasks
<1>4. Ids(pending)' = Ids(pending)
  BY DEF Ids
<1>. QED BY <1>3, <1>4 DEF Changes!qvars

\* A handler that goes to its save announces what it has done.
LEMMA ChangeStep ==
    ASSUME NEW r \in Req,
           \A q \in Req \ {r} : handler'[q] = handler[q],
           handler[r].pc \notin {"save", "reply"},
           handler'[r].pc = "save",
           NEW type, AnnouncementOf(handler'[r]).type = type
    PROVE  Changes!Changed(r, type, handler'[r].job.id)
<1>1. TaskOf(handler[r]) = [at |-> "free"]
  BY DEF TaskOf
<1>2. TaskOf(handler'[r]) = [at |-> "save", about |-> AnnouncementOf(handler'[r])]
  BY DEF TaskOf
<1>3. AnnouncementOf(handler'[r]) = [type |-> type, id |-> handler'[r].job.id]
  BY DEF AnnouncementOf
<1>4. Tasks[r] = Changes!Free
  BY <1>1 DEF Tasks, Changes!Free
<1>. QED BY <1>2, <1>3, <1>4, TaskOfHandler DEF Changes!Changed

\* A change of a handler whose job has an id is a change of the queue.
LEMMA ChangeOfQueue ==
    ASSUME NEW r \in Req, NEW j \in JobId,
           Changes!Hold(r, j) \/ Changes!File(r, j) \/ Changes!Fail(r, j)
    PROVE  Changes!QNext
BY DEF Changes!QNext, Changes!Change

\* The queue starts empty and no handler is at work.
LEMMA ChangesInit == Init => Changes!QInit
<1> SUFFICES ASSUME Init PROVE Changes!QInit
  OBVIOUS
<1>1. Ids(pending) = {}
  BY EmptySeq DEF Init, Ids
<1>2. \A r \in Req : TaskOf(handler[r]) = Changes!Free
  BY DEF Init, Idle, TaskOf, Changes!Free
<1>. QED BY <1>1, <1>2 DEF Changes!QInit, Tasks

\* Every step of the queue and its handlers is a step of QueueChanges or unseen.
LEMMA ChangesNext ==
    TypeInv /\ TypeInv' /\ ListInv /\ [Next]_vars => [Changes!QNext]_(Changes!qvars)
<1> SUFFICES ASSUME TypeInv, TypeInv', ListInv, [Next]_vars
             PROVE  [Changes!QNext]_(Changes!qvars)
  OBVIOUS
<1>0. /\ TypeOK /\ TypeOK'
      /\ handler \in [Req -> Handler \cup {Idle}]
      /\ handler' \in [Req -> Handler \cup {Idle}]
  BY DEF TypeInv, TypeOK
<1>1. ASSUME NEW r \in Req, NEW p \in Printer, InboundReceive(r, p)
      PROVE  UNCHANGED Changes!qvars
  <2>1. /\ handler[r].pc = "idle"
        /\ handler'[r].pc \in {"mode", "reject"}
        /\ \A q \in Req \ {r} : handler'[q] = handler[q]
        /\ pending' = pending
    BY <1>0, <1>1 DEF InboundReceive, At, store
  <2>. QED BY <2>1, UnseenStep
<1>2. ASSUME NEW r \in Req, InboundReject(r) PROVE Changes!QNext
  <2>1. /\ handler[r].pc = "reject" /\ handler[r] \in Handler /\ Shape(handler[r])
        /\ handler'[r] = [handler[r] EXCEPT !.pc = "save"]
        /\ \A q \in Req \ {r} : handler'[q] = handler[q]
        /\ pending' = pending
    BY <1>0, <1>2, BusyHandler DEF InboundReject, At, Goto, PC, TypeInv, StatusOK
  <2>2. /\ handler'[r].pc = "save" /\ handler'[r].job = handler[r].job
        /\ handler'[r].job.id \in JobId
    BY <2>1 DEF Handler, Job
  <2>3. handler[r].job.id \notin Ids(pending)
    BY <2>1 DEF ListInv, FreshIds, Unfiled, MemIds
  <2>4. AnnouncementOf(handler'[r]).type = "gone"
    BY <2>1 DEF AnnouncementOf, Shape, Handler
  <2>5. Changes!Changed(r, "gone", handler'[r].job.id)
    BY <2>1, <2>2, <2>4, ChangeStep
  <2>6. Ids(pending)' = Ids(pending) \ {handler'[r].job.id}
    BY <2>1, <2>2, <2>3 DEF Ids
  <2>. QED BY <2>2, <2>5, <2>6, ChangeOfQueue DEF Changes!File
<1>3. ASSUME NEW r \in Req, InboundMode(r) PROVE UNCHANGED Changes!qvars
  <2>1. /\ handler[r].pc = "mode"
        /\ handler'[r].pc \in {"resolve", "hold"}
        /\ \A q \in Req \ {r} : handler'[q] = handler[q]
        /\ pending' = pending
    BY <1>0, <1>3, BusyHandler DEF InboundMode, At, Goto, store, Handler, PC
  <2>. QED BY <2>1, UnseenStep
<1>4. ASSUME NEW r \in Req, InboundHold(r) PROVE Changes!QNext
  <2>1. /\ handler[r].pc = "hold" /\ handler[r] \in Handler /\ Shape(handler[r])
        /\ handler'[r] = [handler[r] EXCEPT !.pc = "save"]
        /\ \A q \in Req \ {r} : handler'[q] = handler[q]
        /\ pending' = <<handler[r].job>> \o pending
    BY <1>0, <1>4, BusyHandler DEF InboundHold, At, Goto, PC, TypeInv, StatusOK
  <2> DEFINE j == handler[r].job.id
  <2>2. /\ handler'[r].pc = "save" /\ handler'[r].job = handler[r].job
        /\ handler[r].job \in Job /\ j \in JobId
    BY <2>1 DEF Handler, Job
  <2>3. /\ j \notin Ids(pending)
        /\ \A q \in Req \ {r} : handler[q] # Idle => handler[q].job.id # j
    BY <2>1 DEF ListInv, FreshIds, Unfiled, MemIds
  <2>4. AnnouncementOf(handler'[r]).type = "new_job"
    BY <2>1 DEF AnnouncementOf, Shape, Handler
  <2>5. Changes!Changed(r, "new_job", j)
    BY <2>1, <2>2, <2>4, ChangeStep
  <2>6. Ids(pending)' = Ids(pending) \cup {j}
    <3>1. Ids(<<handler[r].job>> \o pending) = {j} \cup Ids(pending)
      BY <1>0, <2>2, ConsJob DEF TypeOK
    <3>2. Ids(pending)' = Ids(<<handler[r].job>> \o pending)
      BY <2>1 DEF Ids
    <3>. QED BY <3>1, <3>2
  <2>7. ASSUME NEW t \in Req, Tasks[t] # Changes!Free PROVE Tasks[t].about.id # j
    <3>1. Tasks[t] = TaskOf(handler[t]) /\ handler[t].pc \in {"save", "reply"}
      BY <2>7 DEF Tasks, TaskOf, Changes!Free
    <3>2. t # r /\ handler[t] # Idle
      BY <2>1, <3>1 DEF Idle
    <3>3. Tasks[t].about = AnnouncementOf(handler[t])
      BY <3>1 DEF TaskOf
    <3>. QED BY <2>3, <3>2, <3>3 DEF AnnouncementOf
  <2>. HIDE DEF j
  <2>8. Changes!Hold(r, j)
    BY <2>3, <2>5, <2>6, <2>7 DEF Changes!Hold
  <2>. QED BY <2>2, <2>8, ChangeOfQueue
<1>5. ASSUME NEW r \in Req, NEW id \in JobId, NEW p \in Printer,
             ReleaseFind(r, id, p) \/ ReprintFind(r, id, p)
      PROVE  UNCHANGED Changes!qvars
  <2>1. /\ handler[r].pc = "idle"
        /\ handler'[r].pc = "resolve"
        /\ \A q \in Req \ {r} : handler'[q] = handler[q]
        /\ pending' = pending
    BY <1>0, <1>5 DEF ReleaseFind, ReprintFind, At, store
  <2>. QED BY <2>1, UnseenStep
<1>6. ASSUME NEW r \in Req, Resolve(r) PROVE UNCHANGED Changes!qvars
  <2>1. /\ handler[r].pc = "resolve"
        /\ handler'[r].pc \in {"send", "record"}
        /\ \A q \in Req \ {r} : handler'[q] = handler[q]
        /\ pending' = pending
    BY <1>0, <1>6, BusyHandler DEF Resolve, At, Goto, store, Handler, PC
  <2>. QED BY <2>1, UnseenStep
<1>7. ASSUME NEW r \in Req, SendOk(r) \/ SendErr(r) \/ SendLateErr(r)
      PROVE  UNCHANGED Changes!qvars
  <2>1. /\ At(r, "send")
        /\ \E ok \in BOOLEAN : Sent(r, ok)
        /\ pending' = pending
    BY <1>7 DEF SendOk, SendErr, SendLateErr, store
  <2>2. /\ handler[r].pc = "send" /\ handler[r] \in Handler
        /\ handler'[r].pc = "record"
        /\ \A q \in Req \ {r} : handler'[q] = handler[q]
    BY <1>0, <2>1, BusyHandler DEF At, Sent, Handler, PC
  <2>. QED BY <2>1, <2>2, UnseenStep
<1>8. ASSUME NEW r \in Req, RecordInbound(r) PROVE Changes!QNext
  <2> DEFINE j == handler[r].job.id
             s == IF handler[r].sent THEN "printed" ELSE "failed"
             k == [handler[r].job EXCEPT !.status = s]
  <2>1. /\ handler[r].pc = "record" /\ handler[r] \in Handler
        /\ handler[r].kind = "inbound"
        /\ handler' = [handler EXCEPT ![r] = [handler[r] EXCEPT !.pc = "save", !.job = k]]
        /\ pending' = pending
    BY <1>0, <1>8, BusyHandler DEF RecordInbound, At, PC
  <2>2. /\ handler'[r].pc = "save" /\ handler'[r].kind = "inbound"
        /\ handler'[r].job.id = j /\ handler'[r].job.status # "queued" /\ j \in JobId
        /\ \A q \in Req \ {r} : handler'[q] = handler[q]
    BY <1>0, <2>1 DEF Handler, Job
  <2>3. j \notin Ids(pending)
    BY <2>1 DEF ListInv, FreshIds, Unfiled, MemIds
  <2>. HIDE DEF j, k, s
  <2>4. AnnouncementOf(handler'[r]).type = "gone"
    BY <2>2 DEF AnnouncementOf
  <2>5. Changes!Changed(r, "gone", j)
    BY <2>1, <2>2, <2>4, ChangeStep
  <2>6. Ids(pending)' = Ids(pending) \ {j}
    BY <2>1, <2>3 DEF Ids
  <2>. QED BY <2>2, <2>5, <2>6, ChangeOfQueue DEF Changes!File
<1>9. ASSUME NEW r \in Req, RecordRelease(r) PROVE Changes!QNext
  <2> DEFINE j == handler[r].job.id
             k == [handler[r].job EXCEPT !.status = "printed",
                                         !.printer = handler[r].target]
  <2>1. /\ handler[r].pc = "record" /\ handler[r] \in Handler
        /\ handler[r].kind = "release" /\ handler[r].sent
        /\ handler' = [handler EXCEPT ![r] = [handler[r] EXCEPT !.pc = "save", !.job = k]]
        /\ pending' = Without(pending, k.id)
    BY <1>0, <1>9, BusyHandler DEF RecordRelease, At, PC
  <2>2. /\ handler'[r].pc = "save" /\ handler'[r].kind = "release" /\ handler'[r].sent
        /\ k.id = j /\ handler'[r].job.id = j /\ j \in JobId
        /\ \A q \in Req \ {r} : handler'[q] = handler[q]
    BY <1>0, <2>1 DEF Handler, Job
  <2>. HIDE DEF j, k
  <2>3. AnnouncementOf(handler'[r]).type = "gone"
    BY <2>2 DEF AnnouncementOf
  <2>4. Changes!Changed(r, "gone", j)
    BY <2>1, <2>2, <2>3, ChangeStep
  <2>5. Ids(pending)' = Ids(pending) \ {j}
    <3>1. pending \in Seq(Job) /\ DistinctIds(pending)
      BY <1>0 DEF TypeOK, ListInv, OneListOnly, OneList
    <3>2. Ids(Without(pending, j)) = Ids(pending) \ {j}
      BY <3>1, WithoutJob
    <3>3. Ids(pending)' = Ids(Without(pending, j))
      BY <2>1, <2>2 DEF Ids
    <3>. QED BY <3>2, <3>3
  <2>. QED BY <2>2, <2>4, <2>5, ChangeOfQueue DEF Changes!File
<1>10. ASSUME NEW r \in Req, RecordReprint(r) PROVE Changes!QNext
  <2> DEFINE j == handler[r].job.id
  <2>1. /\ handler[r].pc = "record" /\ handler[r] \in Handler
        /\ handler[r].kind = "reprint" /\ handler[r].sent
        /\ handler'[r] = [handler[r] EXCEPT !.pc = "save"]
        /\ \A q \in Req \ {r} : handler'[q] = handler[q]
        /\ pending' = pending
    BY <1>0, <1>10, BusyHandler DEF RecordReprint, At, Goto, PC
  <2>2. /\ handler'[r].pc = "save" /\ handler'[r].kind = "reprint" /\ handler'[r].sent
        /\ handler'[r].job.id = j /\ j \in JobId
    BY <2>1 DEF Handler, Job
  <2>3. j \notin Ids(pending)
    BY <2>1 DEF ListInv, FreshIds, Unfiled, MemIds
  <2>. HIDE DEF j
  <2>4. AnnouncementOf(handler'[r]).type = "gone"
    BY <2>2 DEF AnnouncementOf
  <2>5. Changes!Changed(r, "gone", j)
    BY <2>1, <2>2, <2>4, ChangeStep
  <2>6. Ids(pending)' = Ids(pending) \ {j}
    BY <2>1, <2>3 DEF Ids
  <2>. QED BY <2>2, <2>5, <2>6, ChangeOfQueue DEF Changes!File
<1>11. ASSUME NEW r \in Req, RecordFailure(r) PROVE Changes!QNext
  <2> DEFINE j == handler[r].job.id
  <2>1. /\ handler[r].pc = "record" /\ handler[r] \in Handler
        /\ handler[r].kind \in {"release", "reprint"} /\ ~handler[r].sent
        /\ handler'[r] = [handler[r] EXCEPT !.pc = "save"]
        /\ \A q \in Req \ {r} : handler'[q] = handler[q]
        /\ pending' = pending \/ pending' = MarkFailed(pending, j)
    BY <1>0, <1>11, BusyHandler DEF RecordFailure, At, Goto, PC
  <2>2. /\ handler'[r].pc = "save" /\ handler'[r].kind \in {"release", "reprint"}
        /\ ~handler'[r].sent
        /\ handler'[r].job.id = j /\ j \in JobId
    BY <2>1 DEF Handler, Job
  <2>. HIDE DEF j
  <2>3. AnnouncementOf(handler'[r]).type = "job_error"
    BY <2>2 DEF AnnouncementOf
  <2>4. Changes!Changed(r, "job_error", j)
    BY <2>1, <2>2, <2>3, ChangeStep
  <2>5. Ids(pending)' = Ids(pending)
    <3>1. Ids(MarkFailed(pending, j)) = Ids(pending)
      BY <1>0, MarkFailedJob DEF TypeOK
    <3>2. CASE pending' = pending
      BY <3>2 DEF Ids
    <3>3. CASE pending' = MarkFailed(pending, j)
      <4>1. Ids(pending)' = Ids(MarkFailed(pending, j))
        BY <3>3 DEF Ids
      <4>. QED BY <3>1, <4>1
    <3>. QED BY <2>1, <3>2, <3>3
  <2>. QED BY <2>2, <2>4, <2>5, ChangeOfQueue DEF Changes!Fail
<1>12. ASSUME NEW r \in Req, NEW id \in JobId, Dismiss(r, id) PROVE Changes!QNext
  <2> DEFINE k == pending[PositionOf(pending, id)]
             j == [k EXCEPT !.status = "dismissed"]
  <2>1. /\ handler[r].pc = "idle"
        /\ handler' = [handler EXCEPT ![r] =
                [pc |-> "save", kind |-> "dismiss", job |-> j,
                 target |-> j.printer, sent |-> FALSE]]
        /\ pending' = Without(pending, id)
    BY <1>12 DEF Dismiss, At
  <2>2. k \in Job /\ k.id = id
    BY <1>0, <1>12, PositionOfId, ElementOfSeq, LenProperties DEF Dismiss, TypeOK
  <2>3. j.id = id
    BY <2>2 DEF Job
  <2>. HIDE DEF j, k
  <2>4. /\ handler'[r].pc = "save" /\ handler'[r].kind = "dismiss"
        /\ handler'[r].job.id = id
        /\ \A q \in Req \ {r} : handler'[q] = handler[q]
    BY <1>0, <2>1, <2>3
  <2>5. AnnouncementOf(handler'[r]).type = "gone"
    BY <2>4 DEF AnnouncementOf
  <2>6. Changes!Changed(r, "gone", id)
    BY <2>1, <2>4, <2>5, ChangeStep
  <2>7. Ids(pending)' = Ids(pending) \ {id}
    <3>1. pending \in Seq(Job) /\ DistinctIds(pending)
      BY <1>0 DEF TypeOK, ListInv, OneListOnly, OneList
    <3>2. Ids(Without(pending, id)) = Ids(pending) \ {id}
      BY <3>1, WithoutJob
    <3>3. Ids(pending)' = Ids(Without(pending, id))
      BY <2>1 DEF Ids
    <3>. QED BY <3>2, <3>3
  <2>. QED BY <2>6, <2>7, ChangeOfQueue DEF Changes!File
<1>13. ASSUME NEW r \in Req, Save(r) PROVE Changes!QNext
  <2>1. /\ handler[r].pc = "save" /\ handler[r] \in Handler
        /\ handler'[r] = [handler[r] EXCEPT !.pc = "reply"]
        /\ \A q \in Req \ {r} : handler'[q] = handler[q]
        /\ pending' = Truncate(pending, MaxPending)
    BY <1>0, <1>13, BusyHandler DEF Save, At, Goto, PC
  <2>2. TaskOf(handler[r]) = [at |-> "save", about |-> AnnouncementOf(handler[r])]
    BY <2>1 DEF TaskOf
  <2>3. TaskOf(handler'[r]) = [at |-> "announce", about |-> AnnouncementOf(handler[r])]
    BY <2>1 DEF TaskOf, AnnouncementOf, Handler
  <2>4. Tasks[r] = [at |-> "save", about |-> AnnouncementOf(handler[r])]
    BY <2>2 DEF Tasks
  <2>5. Tasks' = [Tasks EXCEPT ![r] = [at |-> "announce", about |-> AnnouncementOf(handler[r])]]
    BY <2>1, <2>3, TaskOfHandler
  <2>6. Tasks' = [Tasks EXCEPT ![r].at = "announce"]
    <3> DEFINE a == AnnouncementOf(handler[r])
    <3>. HIDE DEF a
    <3>1. [[at |-> "save", about |-> a] EXCEPT !.at = "announce"]
              = [at |-> "announce", about |-> a]
      OBVIOUS
    <3>2. Tasks' = [Tasks EXCEPT ![r] = [Tasks[r] EXCEPT !.at = "announce"]]
      BY <2>4, <2>5, <3>1 DEF a
    <3>. QED BY <3>2
  <2>7. Ids(pending)' \in SUBSET Ids(pending)
    <3>1. Ids(Truncate(pending, MaxPending)) \subseteq Ids(pending)
      BY <1>0, BoundsAssumption, TruncateJobs DEF TypeOK
    <3>2. Ids(pending)' = Ids(Truncate(pending, MaxPending))
      BY <2>1 DEF Ids
    <3>. QED BY <3>1, <3>2
  <2>8. Changes!Save(r)
    BY <2>4, <2>6, <2>7 DEF Changes!Save, Changes!Free
  <2>. QED BY <2>8 DEF Changes!QNext
<1>14. ASSUME NEW r \in Req, handler[r].pc = "reply", handler' = [handler EXCEPT ![r] = Idle],
              pending' = pending
       PROVE  Changes!QNext
  <2>1. handler'[r] = Idle /\ \A q \in Req \ {r} : handler'[q] = handler[q]
    BY <1>0, <1>14
  <2>2. Tasks[r] = [at |-> "announce", about |-> AnnouncementOf(handler[r])]
    BY <1>14 DEF Tasks, TaskOf
  <2>3. TaskOf(handler'[r]) = Changes!Free
    BY <2>1 DEF TaskOf, Idle, Changes!Free
  <2>4. Tasks' = [Tasks EXCEPT ![r] = Changes!Free]
    BY <2>1, <2>3, TaskOfHandler
  <2>5. Ids(pending)' = Ids(pending)
    BY <1>14 DEF Ids
  <2>6. Changes!Announce(r)
    BY <2>2, <2>4, <2>5 DEF Changes!Announce, Changes!Free
  <2>. QED BY <2>6 DEF Changes!QNext
<1>15. ASSUME NEW r \in Req, Reply(r) PROVE Changes!QNext
  BY <1>14, <1>15 DEF Reply, At, store
<1>16. ASSUME NEW r \in Req, Hangup(r) PROVE [Changes!QNext]_(Changes!qvars)
  <2>1. /\ handler' = [handler EXCEPT ![r] = Idle] /\ handler'[r] = Idle
        /\ \A q \in Req \ {r} : handler'[q] = handler[q]
        /\ pending' = pending /\ "hangup" \in Faults
    BY <1>0, <1>16 DEF Hangup, store
  <2>2. CASE handler[r].pc = "save"
    <3>1. Tasks[r] = [at |-> "save", about |-> AnnouncementOf(handler[r])]
      BY <2>2 DEF Tasks, TaskOf
    <3>2. TaskOf(handler'[r]) = Changes!Free
      BY <2>1 DEF TaskOf, Idle, Changes!Free
    <3>3. Tasks' = [Tasks EXCEPT ![r] = Changes!Free]
      BY <2>1, <3>2, TaskOfHandler
    <3>4. Ids(pending)' = Ids(pending)
      BY <2>1 DEF Ids
    <3>5. Changes!Cancel(r)
      BY <2>1, <3>1, <3>3, <3>4 DEF Changes!Cancel, Changes!Free
    <3>. QED BY <3>5 DEF Changes!QNext
  <2>3. CASE handler[r].pc = "reply"
    BY <1>14, <2>1, <2>3
  <2>4. CASE handler[r].pc \notin {"save", "reply"}
    <3>1. handler'[r].pc \notin {"save", "reply"}
      BY <2>1 DEF Idle
    <3>. QED BY <2>1, <2>4, <3>1, UnseenStep
  <2>. QED BY <2>2, <2>3, <2>4
<1>17. CASE Restart
  <2>1. \A r \in Req : TaskOf(handler'[r]) = Changes!Free
    BY <1>17 DEF Restart, TaskOf, Idle, Changes!Free
  <2>2. Tasks' = [r \in Req |-> Changes!Free]
    BY <2>1 DEF Tasks
  <2>3. Ids(pending)' \in SUBSET JobId
    <3>1. pending' \in Seq(Job)
      BY <1>0 DEF TypeOK
    <3>2. Ids(pending') \subseteq JobId
      BY <3>1, IdsOfJobs
    <3>. QED BY <3>2 DEF Ids
  <2>4. Changes!Recover
    BY <1>17, <2>2, <2>3 DEF Changes!Recover, Restart
  <2>. QED BY <2>4 DEF Changes!QNext
<1>18. CASE Reconfigure
  <2>1. Tasks' = Tasks /\ Ids(pending)' = Ids(pending)
    BY <1>18 DEF Reconfigure, store, Tasks, Ids, TaskOf, AnnouncementOf
  <2>. QED BY <2>1 DEF Changes!qvars
<1>19. CASE UNCHANGED vars
  <2>1. Tasks' = Tasks /\ Ids(pending)' = Ids(pending)
    BY <1>19 DEF vars, Tasks, Ids, TaskOf, AnnouncementOf
  <2>. QED BY <2>1 DEF Changes!qvars
<1>. QED
  BY <1>1, <1>2, <1>3, <1>4, <1>5, <1>6, <1>7, <1>8, <1>9, <1>10, <1>11, <1>12,
     <1>13, <1>15, <1>16, <1>17, <1>18, <1>19
     DEF Next, Accept, Operate, Advance

\* The print queue does to its list, and announces, what QueueChanges says and
\* nothing else, whatever handlers overlap, hang up, crash or fail.
THEOREM QueueImplementsChanges == Spec => ImplementsChanges
<1>1. Spec => []TypeInv
  BY TypeInvInit, TypeInvNext, PTL DEF Spec
<1>2. Spec => []ListInv
  BY <1>1, ListInvInit, ListInvNext, PTL DEF Spec
<1>3. Init => Changes!QInit
  BY ChangesInit
<1>4. TypeInv /\ TypeInv' /\ ListInv /\ [Next]_vars => [Changes!QNext]_(Changes!qvars)
  BY ChangesNext
<1>5. Spec => Changes!QSpec
  BY <1>1, <1>2, <1>3, <1>4, PTL DEF Spec, Changes!QSpec
<1>. QED BY <1>5 DEF ImplementsChanges

-----------------------------------------------------------------------------
(* What a step does to the lists *)

\* Ids that a truncation dropped were drawn, and no handler is about to file
\* one of them for the first time.
EvictedInv ==
    /\ \A id \in evicted : id < nextId
    /\ \A r \in Req : Unfiled(handler[r]) => handler[r].job.id \notin evicted

NothingFiled ==
    /\ Ids(pending') = Ids(pending) /\ Ids(history') = Ids(history)
    /\ UNCHANGED <<disk, evicted, acked>>

\* A job that is in no list yet is held, or filed at once.
Entered(id) ==
    /\ id \in JobId /\ id \notin MemIds \cup evicted
    /\ \/ Ids(pending') = Ids(pending) \cup {id} /\ Ids(history') = Ids(history)
       \/ Ids(pending') = Ids(pending) /\ Ids(history') = Ids(history) \cup {id}
    /\ UNCHANGED <<disk, evicted, acked>>

\* A handler is releasing the job, whatever has become of it since.
Releasing(id) ==
    \E r \in Req : handler[r] # Idle /\ handler[r].kind = "release" /\ handler[r].job.id = id

\* A job is filed, and is not queued any more.
Moved(id) ==
    /\ id \in JobId /\ (id \in Ids(pending) \/ Releasing(id))
    /\ Ids(pending') = Ids(pending) \ {id} /\ Ids(history') = Ids(history) \cup {id}
    /\ \E j \in ToSet(history') : j.id = id /\ j.status \in {"printed", "dismissed"}
    /\ UNCHANGED <<disk, evicted, acked>>

\* The first of a list with a job at its head.
LEMMA HeadOfHistory ==
    ASSUME NEW s \in Seq(Job), NEW j \in Job
    PROVE  j \in ToSet(<<j>> \o s)
<1>1. (<<j>> \o s)[1] = j /\ 1 \in DOMAIN (<<j>> \o s)
  OBVIOUS
<1>. QED BY <1>1 DEF ToSet

\* Nothing has been dropped at first.
LEMMA EvictedInvInit == Init => EvictedInv
BY DEF Init, EvictedInv, Unfiled, Idle

\* A truncation drops an id that is filed, and a new job takes an id nobody had.
LEMMA EvictedInvNext == TypeInv /\ ListInv /\ EvictedInv /\ [Next]_vars => EvictedInv'
<1> SUFFICES ASSUME TypeInv, ListInv, EvictedInv, [Next]_vars PROVE EvictedInv'
  OBVIOUS
<1>t. /\ TypeOK /\ handler \in [Req -> Handler \cup {Idle}] /\ nextId \in Nat
      /\ evicted \subseteq Nat
  BY BoundsAssumption DEF TypeInv, TypeOK, JobId
<1>a. ASSUME evicted' = evicted, nextId' \in {nextId, nextId + 1},
             \A r \in Req : Unfiled(handler'[r]) =>
                \/ Unfiled(handler[r]) /\ handler'[r].job.id = handler[r].job.id
                \/ handler'[r].job.id = nextId
      PROVE  EvictedInv'
  <2>1. \A id \in evicted : id < nextId'
    BY <1>t, <1>a DEF EvictedInv
  <2>2. nextId \notin evicted
    BY <1>t DEF EvictedInv
  <2>. QED BY <1>a, <2>1, <2>2 DEF EvictedInv
<1>b. ASSUME NEW r \in Req, NEW h, handler' = [handler EXCEPT ![r] = h],
             evicted' = evicted, nextId' \in {nextId, nextId + 1},
             Unfiled(h) => \/ Unfiled(handler[r]) /\ h.job.id = handler[r].job.id
                           \/ h.job.id = nextId
      PROVE  EvictedInv'
  <2>1. handler'[r] = h /\ \A q \in Req \ {r} : handler'[q] = handler[q]
    BY <1>t, <1>b
  <2>. QED BY <1>a, <1>b, <2>1
<1>c. ASSUME NEW r \in Req, NEW x \in PC, NEW y \in PC, At(r, x), Goto(r, y),
             y \in {"resolve", "send", "record"} => x \in {"mode", "resolve", "send"},
             y = "hold" => x = "mode", y \notin {"reject", "mode"},
             evicted' = evicted, nextId' = nextId
      PROVE  EvictedInv'
  <2>1. /\ handler[r] \in Handler /\ Shape(handler[r])
        /\ handler' = [handler EXCEPT ![r] = [handler[r] EXCEPT !.pc = y]]
    BY <1>t, <1>c, BusyHandler DEF Goto, TypeInv, StatusOK
  <2> DEFINE h == [handler[r] EXCEPT !.pc = y]
  <2>2. h.pc = y /\ h.kind = handler[r].kind /\ h.job = handler[r].job
    BY <2>1 DEF Handler
  <2>. HIDE DEF h
  <2>3. Unfiled(h) => Unfiled(handler[r])
    BY <1>c, <2>1, <2>2 DEF Unfiled, At
  <2>. QED BY <1>b, <1>c, <2>1, <2>2, <2>3 DEF h
<1>1. ASSUME NEW r \in Req, NEW p \in Printer, InboundReceive(r, p) PROVE EvictedInv'
  BY <1>1, <1>b DEF InboundReceive, ghosts
<1>2. ASSUME NEW r \in Req, NEW id \in JobId, NEW p \in Printer, ReprintFind(r, id, p)
      PROVE  EvictedInv'
  BY <1>2, <1>b DEF ReprintFind, ghosts
<1>3. ASSUME NEW r \in Req, NEW id \in JobId, NEW p \in Printer, ReleaseFind(r, id, p)
      PROVE  EvictedInv'
  <2> DEFINE h == [pc |-> "resolve", kind |-> "release",
                   job |-> pending[PositionOf(pending, id)], target |-> p, sent |-> FALSE]
  <2>1. handler' = [handler EXCEPT ![r] = h] /\ evicted' = evicted /\ nextId' = nextId
    BY <1>3 DEF ReleaseFind, ghosts
  <2>2. ~Unfiled(h)
    BY DEF Unfiled
  <2>. HIDE DEF h
  <2>. QED BY <1>b, <2>1, <2>2
<1>4. ASSUME NEW r \in Req, InboundReject(r) \/ InboundHold(r) \/ RecordReprint(r) \/ RecordFailure(r)
      PROVE  EvictedInv'
  <2>1. PICK x \in {"reject", "hold", "record"} :
            At(r, x) /\ Goto(r, "save") /\ evicted' = evicted /\ nextId' = nextId
    BY <1>4 DEF InboundReject, InboundHold, RecordReprint, RecordFailure, ghosts
  <2>. QED BY <1>c, <2>1 DEF PC
<1>5. ASSUME NEW r \in Req, InboundMode(r) \/ Resolve(r) PROVE EvictedInv'
  <2>1. CASE InboundMode(r)
    BY <1>c, <2>1 DEF InboundMode, PC, ghosts
  <2>2. CASE Resolve(r)
    BY <1>c, <2>2 DEF Resolve, PC, ghosts
  <2>. QED BY <1>5, <2>1, <2>2
<1>6. ASSUME NEW r \in Req, SendOk(r) \/ SendErr(r) \/ SendLateErr(r) PROVE EvictedInv'
  <2>1. PICK ok \in BOOLEAN : Sent(r, ok)
    BY <1>6 DEF SendOk, SendErr, SendLateErr
  <2>2. handler[r] \in Handler /\ handler[r].pc = "send" /\ Shape(handler[r])
    BY <1>6, <1>t, BusyHandler DEF SendOk, SendErr, SendLateErr, PC, TypeInv, StatusOK, At
  <2> DEFINE h == [handler[r] EXCEPT !.pc = "record", !.sent = ok]
  <2>3. handler' = [handler EXCEPT ![r] = h]
    BY <1>t, <2>1, <2>2 DEF Sent
  <2>4. h.pc = "record" /\ h.kind = handler[r].kind /\ h.job = handler[r].job
    BY <2>2 DEF Handler
  <2>. HIDE DEF h
  <2>5. evicted' = evicted /\ nextId' = nextId
    BY <1>6 DEF SendOk, SendErr, SendLateErr, ghosts
  <2>6. Unfiled(h) => Unfiled(handler[r])
    BY <2>2, <2>4 DEF Unfiled
  <2>. QED BY <1>b, <2>3, <2>4, <2>5, <2>6
<1>7. ASSUME NEW r \in Req, RecordInbound(r) \/ RecordRelease(r) PROVE EvictedInv'
  <2>1. handler[r] \in Handler
    BY <1>7, <1>t, BusyHandler DEF RecordInbound, RecordRelease, PC
  <2>2. PICK j : handler' = [handler EXCEPT ![r] = [handler[r] EXCEPT !.pc = "save", !.job = j]]
    BY <1>7 DEF RecordInbound, RecordRelease
  <2>3. ~Unfiled([handler[r] EXCEPT !.pc = "save", !.job = j])
    BY <2>1 DEF Unfiled, Handler
  <2>4. evicted' = evicted /\ nextId' = nextId
    BY <1>7 DEF RecordInbound, RecordRelease, ghosts
  <2>. QED BY <1>b, <2>2, <2>3, <2>4
<1>8. ASSUME NEW r \in Req, NEW id \in JobId, Dismiss(r, id) PROVE EvictedInv'
  <2> DEFINE j == [pending[PositionOf(pending, id)] EXCEPT !.status = "dismissed"]
             h == [pc |-> "save", kind |-> "dismiss", job |-> j,
                   target |-> j.printer, sent |-> FALSE]
  <2>1. handler' = [handler EXCEPT ![r] = h] /\ evicted' = evicted /\ nextId' = nextId
    BY <1>8 DEF Dismiss, ghosts
  <2>2. ~Unfiled(h)
    BY DEF Unfiled
  <2>. HIDE DEF h
  <2>. QED BY <1>b, <2>1, <2>2
<1>9. ASSUME NEW r \in Req, Save(r) PROVE EvictedInv'
  <2>1. At(r, "save") /\ Goto(r, "reply") /\ nextId' = nextId
        /\ evicted' \subseteq evicted \cup MemIds
    BY <1>9 DEF Save
  <2>2. /\ handler'[r] = [handler[r] EXCEPT !.pc = "reply"] /\ handler[r] \in Handler
        /\ \A q \in Req \ {r} : handler'[q] = handler[q]
    BY <1>t, <2>1, GotoHandler, BusyHandler DEF PC
  <2>3. ~Unfiled(handler'[r])
    BY <2>2 DEF Unfiled, Handler
  <2>4. \A id \in evicted' : id < nextId'
    BY <2>1 DEF EvictedInv, ListInv, IdsUsed
  <2>5. \A q \in Req : Unfiled(handler'[q]) => handler'[q].job.id \notin evicted'
    BY <2>1, <2>2, <2>3 DEF EvictedInv, ListInv, FreshIds
  <2>. QED BY <2>4, <2>5 DEF EvictedInv
<1>10. ASSUME NEW r \in Req, Reply(r) \/ Hangup(r) PROVE EvictedInv'
  BY <1>10, <1>b DEF Reply, Hangup, Unfiled, Idle, ghosts
<1>11. CASE Restart
  <2>1. \A r \in Req : ~Unfiled(handler'[r])
    BY <1>11 DEF Restart, Unfiled, Idle
  <2>. QED BY <1>11, <1>a, <2>1 DEF Restart, ghosts
<1>12. CASE Reconfigure \/ UNCHANGED vars
  BY <1>12, <1>a DEF Reconfigure, vars, ghosts
<1>. QED
  BY <1>1, <1>2, <1>3, <1>4, <1>5, <1>6, <1>7, <1>8, <1>9, <1>10, <1>11, <1>12
     DEF Next, Accept, Operate, Advance

-----------------------------------------------------------------------------
(* What takes a job out of the queue *)

\* Every step of the queue either leaves the lists alone, files one job, or is a
\* save, an answer or a restart.
LEMMA StepsOfQueue ==
    ASSUME TypeInv, ListInv, EvictedInv, [Next]_vars
    PROVE  \/ NothingFiled
           \/ \E id \in JobId : Entered(id) \/ Moved(id)
           \/ \E r \in Req : Save(r) \/ Reply(r)
           \/ Restart
<1>t. TypeOK /\ pending \in Seq(Job) /\ history \in Seq(Job)
      /\ handler \in [Req -> Handler \cup {Idle}]
  BY DEF TypeInv, TypeOK
<1>d. DistinctIds(pending) /\ Ids(pending) \cap Ids(history) = {}
  BY DEF ListInv, OneListOnly, OneList
<1>1. ASSUME NEW r \in Req,
             \/ Accept(r) \/ InboundMode(r) \/ Resolve(r)
             \/ SendOk(r) \/ SendErr(r) \/ SendLateErr(r) \/ Hangup(r)
             \/ \E id \in JobId, p \in Printer : ReleaseFind(r, id, p) \/ ReprintFind(r, id, p)
      PROVE  NothingFiled
  BY <1>1 DEF NothingFiled, Accept, InboundReceive, InboundMode, Resolve, SendOk, SendErr,
              SendLateErr, Hangup, ReleaseFind, ReprintFind, store, ghosts
<1>2. ASSUME NEW r \in Req, RecordFailure(r) PROVE NothingFiled
  <2>1. Ids(pending') = Ids(pending)
    BY <1>2, <1>t, MarkFailedJob DEF RecordFailure
  <2>. QED BY <1>2, <2>1 DEF RecordFailure, NothingFiled, ghosts
<1>3. ASSUME NEW r \in Req, InboundReject(r) \/ InboundHold(r) \/ RecordReprint(r) \/ RecordInbound(r)
      PROVE  \E id \in JobId : Entered(id)
  <2>1. handler[r] \in Handler /\ Unfiled(handler[r])
    <3>1. PICK x \in PC : At(r, x) /\ Unfiled(handler[r])
      BY <1>3 DEF InboundReject, InboundHold, RecordReprint, RecordInbound, PC, Unfiled, At
    <3>. QED BY <1>t, <3>1, BusyHandler
  <2> DEFINE id == handler[r].job.id
  <2>2. handler[r].job \in Job
    BY <2>1 DEF Handler
  <2>3. id \in JobId /\ id \notin MemIds \cup evicted
    BY <2>1, <2>2 DEF Job, ListInv, FreshIds, EvictedInv
  <2>4. PICK j \in Job : /\ j.id = id
                         /\ \/ pending' = pending /\ history' = <<j>> \o history
                            \/ pending' = <<j>> \o pending /\ history' = history
    <3>1. CASE InboundReject(r) \/ InboundHold(r) \/ RecordReprint(r)
      BY <2>2, <3>1 DEF InboundReject, InboundHold, RecordReprint
    <3>2. CASE RecordInbound(r)
      <4> DEFINE j == [handler[r].job EXCEPT !.status =
                           IF handler[r].sent THEN "printed" ELSE "failed"]
      <4>1. j \in Job /\ j.id = id
        BY <2>2 DEF Job, JobStatus
      <4>2. pending' = pending /\ history' = <<j>> \o history
        BY <3>2 DEF RecordInbound
      <4>. QED BY <4>1, <4>2
    <3>. QED BY <1>3, <3>1, <3>2
  <2>5. UNCHANGED <<disk, evicted, acked>>
    BY <1>3 DEF InboundReject, InboundHold, RecordReprint, RecordInbound, ghosts
  <2>. HIDE DEF id
  <2>6. \/ Ids(pending') = Ids(pending) \cup {id} /\ Ids(history') = Ids(history)
        \/ Ids(pending') = Ids(pending) /\ Ids(history') = Ids(history) \cup {id}
    <3>1. CASE pending' = pending /\ history' = <<j>> \o history
      BY <1>t, <2>4, <3>1, ConsJob
    <3>2. CASE pending' = <<j>> \o pending /\ history' = history
      BY <1>t, <2>4, <3>2, ConsJob
    <3>. QED BY <2>4, <3>1, <3>2
  <2>. QED BY <2>3, <2>5, <2>6 DEF Entered
<1>4. ASSUME NEW j \in Job, j.status \in {"printed", "dismissed"},
             pending' = Without(pending, j.id), history' = <<j>> \o history,
             UNCHANGED <<disk, evicted, acked>>,
             j.id \in Ids(pending) \/ Releasing(j.id)
      PROVE  Moved(j.id)
  <2>1. Ids(pending') = Ids(pending) \ {j.id}
    BY <1>t, <1>d, <1>4, WithoutJob
  <2>2. Ids(history') = Ids(history) \cup {j.id}
    BY <1>t, <1>4, ConsJob
  <2>3. j \in ToSet(history')
    BY <1>t, <1>4, HeadOfHistory
  <2>. QED BY <1>4, <2>1, <2>2, <2>3 DEF Moved, Job
<1>5. ASSUME NEW r \in Req, RecordRelease(r) PROVE \E id \in JobId : Moved(id)
  <2> DEFINE j == [handler[r].job EXCEPT !.status = "printed",
                                         !.printer = handler[r].target]
  <2>1. handler[r] \in Handler
    BY <1>5, <1>t, BusyHandler DEF RecordRelease, PC
  <2>2. j \in Job /\ j.status = "printed"
    BY <2>1 DEF Handler, Job, JobStatus
  <2>3. /\ pending' = Without(pending, j.id) /\ history' = <<j>> \o history
        /\ UNCHANGED <<disk, evicted, acked>>
    BY <1>5 DEF RecordRelease, ghosts
  <2>4. j.id = handler[r].job.id
    BY <2>1 DEF Handler, Job
  <2>5. Releasing(j.id)
    BY <1>5, <2>1, <2>4 DEF RecordRelease, Releasing, Handler, Idle, PC
  <2>. HIDE DEF j
  <2>. QED BY <1>4, <2>2, <2>3, <2>5 DEF Job
<1>6. ASSUME NEW r \in Req, NEW id \in JobId, Dismiss(r, id) PROVE Moved(id)
  <2> DEFINE k == pending[PositionOf(pending, id)]
             j == [k EXCEPT !.status = "dismissed"]
  <2>1. PositionOf(pending, id) \in DOMAIN pending /\ k.id = id
    BY <1>6, PositionOfId DEF Dismiss
  <2>2. k \in Job
    BY <1>t, <2>1
  <2>3. j \in Job /\ j.id = id /\ j.status = "dismissed"
    BY <2>1, <2>2 DEF Job, JobStatus
  <2>4. /\ pending' = Without(pending, j.id) /\ history' = <<j>> \o history
        /\ UNCHANGED <<disk, evicted, acked>>
    BY <1>6, <2>3 DEF Dismiss, ghosts
  <2>5. j.id \in Ids(pending)
    BY <1>6, <2>3 DEF Dismiss
  <2>. HIDE DEF j
  <2>. QED BY <1>4, <2>3, <2>4, <2>5
<1>7. CASE Reconfigure \/ UNCHANGED vars
  BY <1>7 DEF Reconfigure, vars, store, ghosts, NothingFiled
<1>. QED
  BY <1>1, <1>2, <1>3, <1>5, <1>6, <1>7 DEF Next, Operate, Advance

\* A job leaves the queue printed or dismissed, or dropped by a truncation, or
\* because a restart takes both lists from jobs.json: no two handlers lose one
\* between the two lists.  A restart that cannot read jobs.json starts with empty
\* lists, which is why disk faults are excluded.
THEOREM LeavesForCause ==
    ASSUME "disk" \notin Faults
    PROVE  Spec => LeavesQueueForCause
<1> DEFINE Cause == \A id \in Ids(pending) \ Ids(pending') :
                        \/ \E j \in ToSet(history') :
                              j.id = id /\ j.status \in {"printed", "dismissed"}
                        \/ id \in evicted'
                        \/ <<pending', history'>> = <<disk.pending, disk.history>>
<1>1. Init => TypeInv /\ ListInv /\ EvictedInv
  BY TypeInvInit, ListInvInit, EvictedInvInit
<1>2. TypeInv /\ ListInv /\ EvictedInv /\ [Next]_vars => (TypeInv /\ ListInv /\ EvictedInv)'
  BY TypeInvNext, ListInvNext, EvictedInvNext
<1>3. TypeInv /\ ListInv /\ EvictedInv /\ [Next]_vars => [Cause]_vars
  <2> SUFFICES ASSUME TypeInv, ListInv, EvictedInv, [Next]_vars PROVE Cause
    OBVIOUS
  <2>t. pending \in Seq(Job) /\ history \in Seq(Job)
    BY DEF TypeInv, TypeOK
  <2>1. CASE NothingFiled \/ \E id \in JobId : Entered(id) \/ Moved(id)
    BY <2>1 DEF NothingFiled, Entered, Moved
  <2>2. ASSUME NEW r \in Req, Save(r) PROVE Cause
    <3>1. Ids(pending') \subseteq Ids(pending) /\ Ids(history') \subseteq Ids(history)
      BY <2>2, <2>t, BoundsAssumption, TruncateJobs DEF Save
    <3>2. Ids(pending) \cap Ids(history) = {}
      BY DEF ListInv, OneListOnly, OneList
    <3>3. evicted' = evicted \cup (MemIds \ (Ids(pending') \cup Ids(history')))
      BY <2>2 DEF Save
    <3>. QED BY <3>1, <3>2, <3>3 DEF MemIds
  <2>3. ASSUME NEW r \in Req, Reply(r) PROVE Cause
    BY <2>3 DEF Reply, store
  <2>4. CASE Restart
    BY <2>4 DEF Restart
  <2>. HIDE DEF Cause
  <2>. QED BY <2>1, <2>2, <2>3, <2>4, StepsOfQueue
<1>. QED BY <1>1, <1>2, <1>3, PTL DEF Spec, LeavesQueueForCause

-----------------------------------------------------------------------------
(* Jobs that are being released *)

\* A job that a handler is releasing has been seen, though it may be gone.
ReleasedKnown ==
    \A r \in Req : handler[r] # Idle /\ handler[r].kind = "release" =>
        handler[r].job.id \in MemIds \cup evicted

\* Memory forgets an id only by a truncation, or in a restart.
LEMMA KnownStaysKnown ==
    ASSUME TypeInv, ListInv, EvictedInv, [Next]_vars
    PROVE  MemIds \cup evicted \subseteq (MemIds \cup evicted)' \/ Restart
<1>1. CASE NothingFiled \/ \E id \in JobId : Entered(id) \/ Moved(id)
  BY <1>1 DEF NothingFiled, Entered, Moved, MemIds
<1>2. ASSUME NEW r \in Req, Save(r) \/ Reply(r)
      PROVE  MemIds \cup evicted \subseteq (MemIds \cup evicted)'
  BY <1>2 DEF Save, Reply, store, MemIds
<1>. QED BY <1>1, <1>2, StepsOfQueue

\* Only ReleaseFind starts the release of a job, and it finds it in the queue.
LEMMA ReleaseStarts ==
    ASSUME TypeInv, [Next]_vars, NEW r \in Req, handler'[r] # Idle, handler'[r].kind = "release"
    PROVE  \/ /\ handler[r] # Idle /\ handler[r].kind = "release"
              /\ handler[r].job.id = handler'[r].job.id
           \/ handler'[r].job.id \in Ids(pending) /\ UNCHANGED <<pending, history, evicted>>
<1> DEFINE Same(q) == /\ handler[q] # Idle /\ handler[q].kind = handler'[q].kind
                      /\ handler[q].job.id = handler'[q].job.id
           Found == handler'[r].job.id \in Ids(pending) /\ UNCHANGED <<pending, history, evicted>>
<1>t. TypeOK /\ pending \in Seq(Job) /\ handler \in [Req -> Handler \cup {Idle}]
  BY DEF TypeInv, TypeOK
<1>a. ASSUME NEW q \in Req, q # r, NEW h, handler' = [handler EXCEPT ![q] = h] PROVE Same(r)
  BY <1>t, <1>a
<1>b. ASSUME NEW q \in Req, NEW x \in PC, NEW y \in PC, At(q, x), Goto(q, y) PROVE Same(r)
  <2>1. /\ handler'[q] = [handler[q] EXCEPT !.pc = y] /\ handler[q] \in Handler /\ handler[q] # Idle
        /\ \A p \in Req \ {q} : handler'[p] = handler[p]
    BY <1>t, <1>b, GotoHandler, BusyHandler
  <2>. QED BY <2>1 DEF Handler
<1>1. ASSUME NEW q \in Req, Accept(q) PROVE Same(r)
  BY <1>1, <1>t DEF Accept, InboundReceive
<1>2. ASSUME NEW q \in Req, NEW id \in JobId, NEW p \in Printer, ReprintFind(q, id, p) PROVE Same(r)
  BY <1>2, <1>t DEF ReprintFind
<1>3. ASSUME NEW q \in Req, NEW id \in JobId, Dismiss(q, id) PROVE Same(r)
  <2> DEFINE j == [pending[PositionOf(pending, id)] EXCEPT !.status = "dismissed"]
             h == [pc |-> "save", kind |-> "dismiss", job |-> j,
                   target |-> j.printer, sent |-> FALSE]
  <2>1. handler' = [handler EXCEPT ![q] = h]
    BY <1>3 DEF Dismiss
  <2>2. h.kind = "dismiss"
    OBVIOUS
  <2>. HIDE DEF h
  <2>. QED BY <1>t, <2>1, <2>2
<1>4. ASSUME NEW q \in Req, NEW id \in JobId, NEW p \in Printer, ReleaseFind(q, id, p)
      PROVE  Same(r) \/ handler'[r].job.id \in Ids(pending)
  <2> DEFINE j == pending[PositionOf(pending, id)]
             h == [pc |-> "resolve", kind |-> "release", job |-> j, target |-> p, sent |-> FALSE]
  <2>1. handler' = [handler EXCEPT ![q] = h] /\ id \in Ids(pending)
    BY <1>4 DEF ReleaseFind
  <2>2. h.job.id = id
    BY <2>1, PositionOfId
  <2>. HIDE DEF h
  <2>. QED BY <1>t, <2>1, <2>2
<1>5. ASSUME NEW q \in Req, SendOk(q) \/ SendErr(q) \/ SendLateErr(q) PROVE Same(r)
  <2>1. PICK ok \in BOOLEAN : Sent(q, ok) /\ At(q, "send")
    BY <1>5 DEF SendOk, SendErr, SendLateErr
  <2>2. handler[q] \in Handler /\ handler[q] # Idle
    BY <1>t, <2>1, BusyHandler DEF PC
  <2>. QED BY <1>t, <2>1, <2>2 DEF Sent, Handler
<1>6. ASSUME NEW q \in Req, RecordInbound(q) \/ RecordRelease(q) PROVE Same(r)
  <2>1. handler[q] \in Handler /\ handler[q] # Idle
    BY <1>t, <1>6, BusyHandler DEF RecordInbound, RecordRelease, PC
  <2>2. PICK j : /\ handler' = [handler EXCEPT ![q].pc = "save", ![q].job = j]
                 /\ j.id = handler[q].job.id
    BY <1>6, <2>1 DEF RecordInbound, RecordRelease, Handler, Job
  <2>3. handler'[q] = [handler[q] EXCEPT !.pc = "save", !.job = j]
        /\ \A p \in Req \ {q} : handler'[p] = handler[p]
    BY <1>t, <2>2
  <2>. QED BY <2>1, <2>2, <2>3 DEF Handler
<1>7. ASSUME NEW q \in Req,
             \/ InboundReject(q) \/ InboundMode(q) \/ InboundHold(q) \/ Resolve(q)
             \/ RecordReprint(q) \/ RecordFailure(q) \/ Save(q)
      PROVE  Same(r)
  <2>1. PICK x \in PC, y \in PC : At(q, x) /\ Goto(q, y)
    BY <1>7 DEF InboundReject, InboundMode, InboundHold, Resolve, RecordReprint, RecordFailure,
                Save, PC
  <2>. QED BY <1>b, <2>1
<1>8. ASSUME NEW q \in Req, Reply(q) \/ Hangup(q) PROVE Same(r)
  BY <1>8, <1>t DEF Reply, Hangup
<1>9. ASSUME Restart PROVE Same(r)
  BY <1>9 DEF Restart
<1>10. ASSUME Reconfigure \/ UNCHANGED vars PROVE Same(r)
  BY <1>10 DEF Reconfigure, vars
<1>11. ASSUME NEW q \in Req, NEW id \in JobId, NEW p \in Printer, ReleaseFind(q, id, p)
       PROVE  Found \/ Same(r)
  BY <1>4, <1>11 DEF ReleaseFind, store, ghosts
<1>. HIDE DEF Same, Found
<1>12. ASSUME NEW q \in Req, Operate(q) PROVE Same(r) \/ Found
  BY <1>2, <1>3, <1>11, <1>12 DEF Operate
<1>13. ASSUME NEW q \in Req, Advance(q) PROVE Same(r)
  BY <1>5, <1>6, <1>7, <1>8, <1>13 DEF Advance
<1>14. Same(r) \/ Found
  BY <1>1, <1>8, <1>9, <1>10, <1>12, <1>13 DEF Next
<1>. QED BY <1>14 DEF Same, Found

\* Whoever releases a job found it in the queue, and memory forgets none but by
\* dropping it; a restart leaves nobody releasing.
LEMMA ReleasedKnownNext ==
    TypeInv /\ ListInv /\ EvictedInv /\ ReleasedKnown /\ [Next]_vars => ReleasedKnown'
<1> SUFFICES ASSUME TypeInv, ListInv, EvictedInv, ReleasedKnown, [Next]_vars,
                    NEW r \in Req, handler'[r] # Idle, handler'[r].kind = "release"
             PROVE  handler'[r].job.id \in (MemIds \cup evicted)'
  BY DEF ReleasedKnown
<1>1. ~Restart
  BY DEF Restart
<1>2. MemIds \cup evicted \subseteq (MemIds \cup evicted)'
  BY <1>1, KnownStaysKnown
<1>. QED BY <1>2, ReleaseStarts DEF ReleasedKnown, MemIds

\* Nobody is releasing a job at first.
LEMMA ReleasedKnownInit == Init => ReleasedKnown
BY DEF Init, ReleasedKnown

-----------------------------------------------------------------------------
(* JobQueue implements JobLedger *)

\* The refinement mapping.
MemStage  == StageIn(pending, history)
DiskStage == StageIn(disk.pending, disk.history)
Promised  == {a[1] : a \in acked}

LedgerInv == TypeInv /\ ListInv /\ DurableInv /\ EvictedInv /\ ReleasedKnown

\* What the stage of a job is.
LEMMA StageOf ==
    ASSUME NEW p, NEW h, NEW i \in JobId
    PROVE  /\ i \in Ids(p) => StageIn(p, h)[i] = "queued"
           /\ i \in Ids(h) \ Ids(p) => StageIn(p, h)[i] = "closed"
           /\ i \in evicted \ (Ids(p) \cup Ids(h)) => StageIn(p, h)[i] = "gone"
           /\ i \notin evicted \cup Ids(p) \cup Ids(h) => StageIn(p, h)[i] = "none"
BY DEF StageIn

\* A stage is given to every job id and to nothing else.
LEMMA StageDomain ==
    ASSUME NEW p, NEW h
    PROVE  StageIn(p, h) = [i \in JobId |-> StageIn(p, h)[i]]
BY DEF StageIn

\* The invariant behind the ledger holds at first.
LEMMA LedgerInvInit == Init => LedgerInv
BY TypeInvInit, ListInvInit, DurableInvInit, EvictedInvInit, ReleasedKnownInit DEF LedgerInv

\* Every step keeps it, whatever the handlers and the faults but a failing disk do.
LEMMA LedgerInvNext ==
    ASSUME "disk" \notin Faults
    PROVE  LedgerInv /\ [Next]_vars => LedgerInv'
BY TypeInvNext, ListInvNext, DurableInvNext, EvictedInvNext, ReleasedKnownNext DEF LedgerInv

\* The empty queue is the empty ledger.
LEMMA LedgerInit == Init => Ledger!LInit
<1> SUFFICES ASSUME Init PROVE Ledger!LInit
  OBVIOUS
<1>1. Ids(<< >>) = {}
  BY EmptySeq DEF Ids
<1>2. /\ pending = << >> /\ history = << >> /\ evicted = {} /\ acked = {}
      /\ disk.pending = << >> /\ disk.history = << >>
  BY DEF Init
<1>3. \A i \in JobId : MemStage[i] = "none" /\ DiskStage[i] = "none"
  BY <1>1, <1>2, StageOf DEF MemStage, DiskStage
<1>4. MemStage = [i \in JobId |-> "none"] /\ DiskStage = [i \in JobId |-> "none"]
  BY <1>3, StageDomain DEF MemStage, DiskStage
<1>5. Promised = {}
  BY <1>2 DEF Promised
<1>. QED BY <1>4, <1>5 DEF Ledger!LInit, MemStage, DiskStage, Promised

\* Every step of the queue is one of the ledger, or none.
LEMMA LedgerStep ==
    ASSUME "disk" \notin Faults, LedgerInv, [Next]_vars
    PROVE  [Ledger!LNext]_(Ledger!lvars)
<1>i. TypeInv /\ ListInv /\ DurableInv /\ EvictedInv /\ ReleasedKnown
  BY DEF LedgerInv
<1>d. Ids(pending) \cap Ids(history) = {}
  BY <1>i DEF ListInv, OneListOnly, OneList
<1>t. pending \in Seq(Job) /\ history \in Seq(Job) /\ disk \in JobsDoc
      /\ handler \in [Req -> Handler \cup {Idle}] /\ TypeOK
  BY <1>i DEF TypeInv, TypeOK
<1>m. /\ MemStage = [i \in JobId |-> MemStage[i]]
      /\ MemStage' = [i \in JobId |-> MemStage'[i]]
  BY DEF MemStage, StageIn
<1> DEFINE Stutter == UNCHANGED <<MemStage, DiskStage, Promised>>
<1>1. CASE NothingFiled
  <2>1. Stutter
    BY <1>1 DEF NothingFiled, MemStage, DiskStage, Promised, StageIn
  <2>. QED BY <2>1 DEF Ledger!lvars, MemStage, DiskStage, Promised
<1>e. ASSUME UNCHANGED <<disk, evicted, acked>> PROVE UNCHANGED <<DiskStage, Promised>>
  BY <1>e DEF DiskStage, Promised, StageIn
<1>o. ASSUME NEW i \in JobId, UNCHANGED evicted,
             i \in Ids(pending') <=> i \in Ids(pending),
             i \in Ids(history') <=> i \in Ids(history)
      PROVE  MemStage'[i] = MemStage[i]
  BY <1>o DEF MemStage, StageIn
<1>2. ASSUME NEW id \in JobId, Entered(id) PROVE Ledger!Enter(id)
  <2>1. MemStage[id] = "none"
    BY <1>2, StageOf DEF Entered, MemStage, MemIds
  <2>2. PICK s \in {"queued", "closed"} : MemStage'[id] = s
    BY <1>2 DEF Entered, MemStage, StageIn, MemIds
  <2>3. \A i \in JobId \ {id} : MemStage'[i] = MemStage[i]
    BY <1>2, <1>o DEF Entered
  <2>4. MemStage' = [MemStage EXCEPT ![id] = s]
    BY <1>m, <2>2, <2>3
  <2>5. UNCHANGED <<DiskStage, Promised>>
    BY <1>2, <1>e DEF Entered
  <2>. QED BY <2>1, <2>4, <2>5 DEF Ledger!Enter, MemStage, DiskStage, Promised
<1>3. ASSUME NEW id \in JobId, Moved(id) PROVE Ledger!Close(id) \/ Stutter
  <2>1. MemStage'[id] = "closed"
    BY <1>3 DEF Moved, MemStage, StageIn
  <2>2. \A i \in JobId \ {id} : MemStage'[i] = MemStage[i]
    BY <1>3, <1>o DEF Moved
  <2>3. UNCHANGED <<DiskStage, Promised>>
    BY <1>3, <1>e DEF Moved
  <2>4. id \in MemIds \cup evicted
    BY <1>3, <1>i DEF Moved, Releasing, ReleasedKnown, MemIds
  <2>5. MemStage[id] \in {"queued", "closed", "gone"}
    BY <2>4 DEF MemStage, StageIn, MemIds
  <2>6. CASE MemStage[id] = "closed"
    <3>1. MemStage' = MemStage
      BY <1>m, <2>1, <2>2, <2>6
    <3>. QED BY <2>3, <3>1
  <2>7. CASE MemStage[id] \in {"queued", "gone"}
    <3>1. MemStage' = [MemStage EXCEPT ![id] = "closed"]
      BY <1>m, <2>1, <2>2
    <3>. QED BY <2>3, <2>7, <3>1 DEF Ledger!Close, MemStage, DiskStage, Promised
  <2>. QED BY <2>5, <2>6, <2>7
<1>4. ASSUME NEW r \in Req, Save(r) PROVE Ledger!Flush
  <2> DEFINE dropped == {i \in JobId : i \in MemIds /\ i \notin Ids(pending') \cup Ids(history')}
  <2>1. /\ Ids(pending') \subseteq Ids(pending)
        /\ Ids(history') \subseteq Ids(history)
    BY <1>4, <1>t, BoundsAssumption, TruncateJobs DEF Save
  <2>2. /\ disk' = [pending |-> pending', history |-> history']
        /\ evicted' = evicted \cup (MemIds \ (Ids(pending') \cup Ids(history')))
        /\ acked' = acked
    BY <1>4 DEF Save
  <2>3. dropped \in SUBSET {i \in JobId : MemStage[i] \in {"queued", "closed"}}
    BY StageOf DEF MemStage, MemIds
  <2>4. ASSUME NEW i \in JobId
        PROVE  MemStage'[i] = IF i \in dropped THEN "gone" ELSE MemStage[i]
    BY <1>d, <2>1, <2>2 DEF MemStage, StageIn, MemIds
  <2>5. MemStage' = [i \in JobId |-> IF i \in dropped THEN "gone" ELSE MemStage[i]]
    BY <1>m, <2>4
  <2>6. DiskStage' = MemStage'
    BY <2>2 DEF DiskStage, MemStage, StageIn
  <2>7. Promised' = Promised
    BY <2>2 DEF Promised
  <2>. HIDE DEF dropped
  <2>. QED BY <2>3, <2>5, <2>6, <2>7 DEF Ledger!Flush, MemStage, DiskStage, Promised
<1>5. ASSUME NEW r \in Req, Reply(r)
      PROVE  (\E id \in JobId : Ledger!Promise(id)) \/ Stutter
  <2>1. /\ handler[r] \in Handler /\ handler[r] # Idle /\ At(r, "reply")
        /\ UNCHANGED <<pending, history, disk, evicted>>
    BY <1>5, <1>t, BusyHandler DEF Reply, PC, store
  <2>2. UNCHANGED <<MemStage, DiskStage>>
    BY <2>1 DEF MemStage, DiskStage, StageIn
  <2>3. CASE AnswersOk(handler[r])
    <3> DEFINE id == handler[r].job.id
    <3>1. id \in JobId
      BY <2>1 DEF Handler, Job
    <3>2. Filed(handler[r], disk.pending, disk.history)
      BY <1>i, <2>1, <2>3 DEF DurableInv, AnswersBacked
    <3>3. DiskStage[id] # "none"
      BY <3>1, <3>2 DEF Filed, DiskStage, StageIn
    <3>4. acked' = acked \cup {<<id, handler[r].job.status>>}
      BY <1>5, <2>3 DEF Reply
    <3>5. Promised' = Promised \cup {id}
      <4> DEFINE a == <<id, handler[r].job.status>>
      <4>1. a[1] = id /\ acked' = acked \cup {a}
        BY <3>4
      <4>. HIDE DEF a, id
      <4>2. {b[1] : b \in acked \cup {a}} = {b[1] : b \in acked} \cup {a[1]}
        OBVIOUS
      <4>. QED BY <4>1, <4>2 DEF Promised
    <3>. HIDE DEF id
    <3>. QED BY <2>2, <3>1, <3>3, <3>5 DEF Ledger!Promise, MemStage, DiskStage, Promised
  <2>4. CASE ~AnswersOk(handler[r])
    BY <1>5, <2>2, <2>4 DEF Reply, Promised
  <2>. QED BY <2>3, <2>4
<1>6. CASE Restart
  <2>1. /\ pending' = disk.pending /\ history' = disk.history
        /\ UNCHANGED <<disk, evicted, acked>>
    BY <1>6 DEF Restart, ghosts
  <2>2. MemStage' = DiskStage /\ UNCHANGED <<DiskStage, Promised>>
    BY <2>1 DEF MemStage, DiskStage, Promised, StageIn
  <2>3. Ledger!Recover
    BY <2>2 DEF Ledger!Recover, MemStage, DiskStage, Promised
  <2>. QED BY <2>3 DEF Ledger!LNext
<1>7. Stutter => UNCHANGED Ledger!lvars
  BY DEF Ledger!lvars, MemStage, DiskStage, Promised
<1>. HIDE DEF Stutter
<1>. QED BY <1>1, <1>2, <1>3, <1>4, <1>5, <1>6, <1>7, <1>i, StepsOfQueue DEF Ledger!LNext

\* The two lists and jobs.json are a ledger of stages: whatever the handlers
\* interleave and wherever they stop, a job only goes from queued to closed to
\* gone, jobs.json follows memory, and a promise is made of what is durable.  A
\* save that fails breaks this, for save_jobs only logs it.
THEOREM QueueImplementsLedger ==
    ASSUME "disk" \notin Faults
    PROVE  Spec => ImplementsLedger
<1>1. Init => LedgerInv /\ Ledger!LInit
  BY LedgerInvInit, LedgerInit
<1>2. LedgerInv /\ [Next]_vars => LedgerInv' /\ [Ledger!LNext]_(Ledger!lvars)
  BY LedgerInvNext, LedgerStep
<1>. QED BY <1>1, <1>2, PTL DEF Spec, ImplementsLedger, Ledger!LSpec

\* What the ledger needs to know of itself: jobs.json closes nothing that memory
\* has not closed.
ClosedInMemory == \A i \in JobId : DiskStage[i] = "closed" => MemStage[i] = "closed"

\* In the ledger a closing that is on disk is never undone, whatever its steps.
LEMMA LedgerKeepsClosed ==
    ASSUME ClosedInMemory, [Ledger!LNext]_(Ledger!lvars)
    PROVE  /\ ClosedInMemory'
           /\ \A i \in JobId : DiskStage[i] = "closed" =>
                DiskStage'[i] \in {"closed", "gone"} /\ MemStage'[i] # "queued"
<1> DEFINE Kept == \A i \in JobId : DiskStage[i] = "closed" =>
                       DiskStage'[i] \in {"closed", "gone"} /\ MemStage'[i] # "queued"
<1>m. MemStage = [i \in JobId |-> MemStage[i]]
  BY DEF MemStage, StageIn
<1>1. ASSUME NEW i \in JobId, Ledger!Enter(i) \/ Ledger!Close(i) PROVE ClosedInMemory' /\ Kept
  <2>1. PICK s \in {"queued", "closed"} :
            /\ MemStage' = [MemStage EXCEPT ![i] = s]
            /\ MemStage[i] = "none" \/ s = "closed"
            /\ DiskStage' = DiskStage
    BY <1>1 DEF Ledger!Enter, Ledger!Close, MemStage, DiskStage
  <2>2. MemStage'[i] = s /\ \A k \in JobId \ {i} : MemStage'[k] = MemStage[k]
    BY <1>m, <2>1
  <2>. QED BY <2>1, <2>2 DEF ClosedInMemory
<1>2. ASSUME NEW i \in JobId, Ledger!Promise(i) PROVE ClosedInMemory' /\ Kept
  <2>1. MemStage' = MemStage /\ DiskStage' = DiskStage
    BY <1>2 DEF Ledger!Promise, MemStage, DiskStage
  <2>. QED BY <2>1 DEF ClosedInMemory
<1>3. ASSUME Ledger!Flush PROVE ClosedInMemory' /\ Kept
  <2>1. PICK dropped : /\ MemStage' = [i \in JobId |-> IF i \in dropped THEN "gone" ELSE MemStage[i]]
                       /\ DiskStage' = MemStage'
    BY <1>3 DEF Ledger!Flush, MemStage, DiskStage
  <2>2. \A i \in JobId : MemStage'[i] = IF i \in dropped THEN "gone" ELSE MemStage[i]
    BY <2>1
  <2>. QED BY <2>1, <2>2 DEF ClosedInMemory
<1>4. ASSUME Ledger!Recover PROVE ClosedInMemory' /\ Kept
  <2>1. MemStage' = DiskStage /\ DiskStage' = DiskStage
    BY <1>4 DEF Ledger!Recover, MemStage, DiskStage
  <2>. QED BY <2>1 DEF ClosedInMemory
<1>5. ASSUME UNCHANGED Ledger!lvars PROVE ClosedInMemory' /\ Kept
  <2>1. MemStage' = MemStage /\ DiskStage' = DiskStage
    BY <1>5 DEF Ledger!lvars, MemStage, DiskStage
  <2>. QED BY <2>1 DEF ClosedInMemory
<1>. HIDE DEF Kept
<1>6. ClosedInMemory' /\ Kept
  BY <1>1, <1>2, <1>3, <1>4, <1>5 DEF Ledger!LNext
<1>. QED BY <1>6 DEF Kept

\* A job that jobs.json has as printed or dismissed is never queued again, not
\* even by a restart.
THEOREM ClosedStaysClosed ==
    ASSUME "disk" \notin Faults
    PROVE  Spec => LedgerClosedStaysClosed
<1> DEFINE Kept == \A i \in JobId : DiskStage[i] = "closed" =>
                       DiskStage'[i] \in {"closed", "gone"} /\ MemStage'[i] # "queued"
<1>1. Init => LedgerInv /\ ClosedInMemory
  <2>1. Init => \A i \in JobId : DiskStage[i] = "none"
    <3> SUFFICES ASSUME Init, NEW i \in JobId PROVE DiskStage[i] = "none"
      OBVIOUS
    <3>1. Ids(<< >>) = {}
      BY EmptySeq DEF Ids
    <3>. QED BY <3>1, StageOf DEF Init, DiskStage
  <2>. QED BY <2>1, LedgerInvInit DEF ClosedInMemory
<1>2. LedgerInv /\ ClosedInMemory /\ [Next]_vars => (LedgerInv /\ ClosedInMemory)' /\ Kept
  BY LedgerInvNext, LedgerStep, LedgerKeepsClosed
<1>3. LedgerInv /\ ClosedInMemory /\ [Next]_vars =>
        [\A i \in JobId : StageIn(disk.pending, disk.history)[i] = "closed" =>
              StageIn(disk.pending, disk.history)'[i] \in {"closed", "gone"}
              /\ StageIn(pending, history)'[i] # "queued"]_(Ledger!lvars)
  BY <1>2 DEF MemStage, DiskStage
<1>. QED BY <1>1, <1>2, <1>3, PTL DEF Spec, LedgerClosedStaysClosed, Ledger!ClosedStaysClosed

-----------------------------------------------------------------------------
(* Counting prints *)

Prints(j, l) == j.label = l /\ j.status = "printed"

PrintedAt(s, l) == {i \in DOMAIN s : s[i].label = l /\ s[i].status = "printed"}

\* A list has finitely many printed entries.
LEMMA PrintedFinite ==
    ASSUME NEW s \in Seq(Job), NEW l
    PROVE  IsFiniteSet(PrintedAt(s, l)) /\ PrintedEntries(s, l) \in Nat
<1>1. DOMAIN s = 1..Len(s) /\ Len(s) \in Nat
  BY LenProperties
<1>2. IsFiniteSet(DOMAIN s)
  BY <1>1, FS_Interval
<1>3. PrintedAt(s, l) \subseteq DOMAIN s
  BY DEF PrintedAt
<1>4. IsFiniteSet(PrintedAt(s, l))
  BY <1>2, <1>3, FS_Subset
<1>. QED BY <1>4, FS_CardinalityType DEF PrintedEntries, PrintedAt

\* An entry at the head counts for its label if it is printed.
LEMMA PrintedCons ==
    ASSUME NEW s \in Seq(Job), NEW j \in Job, NEW l
    PROVE  PrintedEntries(<<j>> \o s, l) =
             PrintedEntries(s, l) + (IF Prints(j, l) THEN 1 ELSE 0)
<1> DEFINE t == <<j>> \o s
           S == PrintedAt(s, l)
           T == {i \in PrintedAt(t, l) : i # 1}
           f == [i \in S |-> i + 1]
<1>1. /\ Len(t) = Len(s) + 1 /\ t[1] = j /\ \A i \in 1..Len(s) : t[i + 1] = s[i]
      /\ DOMAIN s = 1..Len(s) /\ DOMAIN t = 1..Len(t) /\ Len(s) \in Nat
  OBVIOUS
<1>. HIDE DEF t
<1>2. f \in Bijection(S, T)
  <2>1. f \in [S -> T]
    <3> SUFFICES ASSUME NEW i \in S PROVE i + 1 \in T
      OBVIOUS
    <3>1. i \in 1..Len(s) /\ s[i].label = l /\ s[i].status = "printed"
      BY <1>1 DEF PrintedAt
    <3>2. i + 1 \in 1..Len(t) /\ t[i + 1] = s[i] /\ i + 1 # 1
      BY <1>1, <3>1
    <3>. QED BY <1>1, <3>1, <3>2 DEF PrintedAt
  <2>2. \A a, b \in S : f[a] = f[b] => a = b
    BY <1>1 DEF PrintedAt
  <2>3. ASSUME NEW k \in T PROVE \E i \in S : f[i] = k
    <3>1. k \in 1..Len(t) /\ k # 1 /\ t[k].label = l /\ t[k].status = "printed"
      BY <1>1 DEF PrintedAt
    <3>2. k - 1 \in 1..Len(s) /\ t[(k - 1) + 1] = s[k - 1] /\ (k - 1) + 1 = k
      BY <1>1, <3>1
    <3>3. k - 1 \in S
      BY <1>1, <3>1, <3>2 DEF PrintedAt
    <3>. QED BY <3>2, <3>3
  <2>. HIDE DEF f
  <2>. QED BY <2>1, <2>2, <2>3 DEF Bijection, Injection, IsInjective, Surjection
<1>3. IsFiniteSet(S)
  BY PrintedFinite
<1>. HIDE DEF S, f
<1>4. IsFiniteSet(T) /\ Cardinality(T) = Cardinality(S)
  <2>1. ExistsBijection(S, T)
    BY <1>2 DEF ExistsBijection
  <2>. HIDE DEF T
  <2>. QED BY <1>3, <2>1, FS_Bijection
<1>5. 1 \notin T /\ Cardinality(T) \in Nat
  BY <1>4, FS_CardinalityType
<1>c. /\ PrintedEntries(t, l) = Cardinality(PrintedAt(t, l))
      /\ PrintedEntries(s, l) = Cardinality(T)
  BY <1>4 DEF PrintedEntries, PrintedAt, S
<1>6. CASE Prints(j, l)
  <2>1. PrintedAt(t, l) = T \cup {1}
    BY <1>1, <1>6 DEF PrintedAt, Prints
  <2>. HIDE DEF T
  <2>2. Cardinality(T \cup {1}) = Cardinality(T) + 1
    BY <1>4, <1>5, FS_AddElement
  <2>. QED BY <1>c, <1>6, <2>1, <2>2 DEF t
<1>7. CASE ~Prints(j, l)
  <2>1. PrintedAt(t, l) = T
    BY <1>1, <1>7 DEF PrintedAt, Prints
  <2>. HIDE DEF T
  <2>. QED BY <1>c, <1>5, <1>7, <2>1 DEF t
<1>. QED BY <1>6, <1>7

\* A truncation drops entries.
LEMMA PrintedTruncate ==
    ASSUME NEW s \in Seq(Job), NEW n \in Nat, NEW l
    PROVE  PrintedEntries(Truncate(s, n), l) <= PrintedEntries(s, l)
<1> DEFINE t == Truncate(s, n)
<1>1. DOMAIN t \subseteq DOMAIN s /\ \A i \in DOMAIN t : t[i] = s[i]
  BY SubSeqProperties, LenProperties DEF Truncate
<1>. HIDE DEF t
<1>2. PrintedAt(t, l) \subseteq PrintedAt(s, l)
  BY <1>1 DEF PrintedAt
<1>3. Cardinality(PrintedAt(t, l)) <= Cardinality(PrintedAt(s, l))
  BY <1>2, PrintedFinite, FS_Subset
<1>. QED BY <1>3 DEF PrintedEntries, PrintedAt, t

\* The handlers that have sent a label and not filed it yet.
Waiting(h, l) == h.pc = "record" /\ h.sent /\ h.job.label = l

WaitingFor(l) == {r \in Req : Waiting(handler[r], l)}

\* One handler's step moves the count by what it does to that handler.
LEMMA UnrecordedStep ==
    ASSUME IsFiniteSet(Req), NEW r \in Req, NEW l,
           \A q \in Req \ {r} : handler'[q] = handler[q]
    PROVE  /\ Unrecorded(l) \in Nat /\ Unrecorded(l)' \in Nat
           /\ Unrecorded(l)' + (IF Waiting(handler[r], l) THEN 1 ELSE 0)
                = Unrecorded(l) + (IF Waiting(handler'[r], l) THEN 1 ELSE 0)
<1> DEFINE W == WaitingFor(l)
           V == W \ {r}
<1>1. W \subseteq Req /\ W' \subseteq Req
  BY DEF WaitingFor
<1>2. IsFiniteSet(W) /\ IsFiniteSet(W')
  BY <1>1, FS_Subset
<1>3. V' = V
  BY DEF WaitingFor
<1>4. (r \in W <=> Waiting(handler[r], l)) /\ (r \in W' <=> Waiting(handler'[r], l))
  BY DEF WaitingFor, Waiting
<1>5. Unrecorded(l) = Cardinality(W) /\ Unrecorded(l)' = Cardinality(W')
  BY DEF Unrecorded, WaitingFor, Waiting, At
<1>. HIDE DEF W
<1>6. Cardinality(W) \in Nat /\ Cardinality(W') \in Nat
  BY <1>2, FS_CardinalityType
<1>7. /\ Cardinality(V) = IF r \in W THEN Cardinality(W) - 1 ELSE Cardinality(W)
      /\ Cardinality(V') = IF r \in W' THEN Cardinality(W') - 1 ELSE Cardinality(W')
  BY <1>2, FS_RemoveElement
<1>8. Cardinality(V') = Cardinality(V)
  BY <1>3
<1>. HIDE DEF V
<1>. QED BY <1>4, <1>5, <1>6, <1>7, <1>8

-----------------------------------------------------------------------------
(* Steps that print or file a print *)

\* Nothing has been sent before send_to_printer has returned.
Unsent(h) == h.pc \in {"reject", "mode", "hold", "resolve", "send"} => ~h.sent

UnsentYet == \A r \in Req : Unsent(handler[r])

\* A step of handler r that neither prints nor files a print.
QuietStep(r) ==
    /\ UNCHANGED <<history, delivered>>
    /\ \A l : ~Waiting(handler[r], l) /\ ~Waiting(handler'[r], l)

\* A label is out, and its handler has it to file.
DeliveryStep(r) ==
    \E k \in JobId :
        /\ delivered' = [delivered EXCEPT ![k] = @ + 1]
        /\ history' = history
        /\ \A l : ~Waiting(handler[r], l) /\ (Waiting(handler'[r], l) <=> l = k)

\* An entry is filed, as printed if and only if its handler had sent the label.
FilingStep(r) ==
    /\ delivered' = delivered
    /\ \E j \in Job : /\ history' = <<j>> \o history
                      /\ \A l : /\ Prints(j, l) <=> Waiting(handler[r], l)
                                /\ ~Waiting(handler'[r], l)

StepOf(r) == /\ \A q \in Req \ {r} : handler'[q] = handler[q]
             /\ Unsent(handler'[r]) /\ disk' = disk
             /\ QuietStep(r) \/ DeliveryStep(r) \/ FilingStep(r)

\* Every step is of one of the three kinds, or one that may break the balance.
LEMMA PrintSteps ==
    ASSUME TypeInv, UnsentYet, [Next]_vars
    PROVE  \/ UNCHANGED <<history, disk, delivered, handler>>
           \/ \E r \in Req : StepOf(r) \/ Save(r) \/ SendLateErr(r) \/ Hangup(r)
           \/ Restart
<1>t. TypeOK /\ pending \in Seq(Job) /\ history \in Seq(Job)
      /\ handler \in [Req -> Handler \cup {Idle}]
  BY DEF TypeInv, TypeOK
<1>g. ASSUME NEW r \in Req, NEW x \in PC, NEW y \in PC, At(r, x), Goto(r, y)
      PROVE  /\ handler[r] \in Handler /\ handler[r].pc = x /\ Unsent(handler[r])
             /\ Shape(handler[r])
             /\ handler'[r] = [handler[r] EXCEPT !.pc = y]
             /\ handler'[r].pc = y /\ handler'[r].sent = handler[r].sent
             /\ handler'[r].job = handler[r].job
             /\ \A q \in Req \ {r} : handler'[q] = handler[q]
  <2>1. /\ handler[r] \in Handler /\ handler[r] # Idle
        /\ handler'[r] = [handler[r] EXCEPT !.pc = y]
        /\ \A q \in Req \ {r} : handler'[q] = handler[q]
    BY <1>t, <1>g, GotoHandler, BusyHandler
  <2>. QED BY <1>g, <2>1 DEF Handler, At, UnsentYet, TypeInv, StatusOK
<1>1. ASSUME NEW r \in Req, NEW h, handler' = [handler EXCEPT ![r] = h], At(r, "idle"),
             h.pc \in {"mode", "reject", "resolve"}, h.sent = FALSE,
             UNCHANGED <<history, delivered, disk>>
      PROVE  StepOf(r)
  <2>1. handler'[r] = h /\ \A q \in Req \ {r} : handler'[q] = handler[q]
    BY <1>t, <1>1
  <2>2. \A l : ~Waiting(handler[r], l) /\ ~Waiting(h, l)
    BY <1>1 DEF Waiting, At
  <2>. QED BY <1>1, <2>1, <2>2 DEF StepOf, QuietStep, Unsent
<1>2. ASSUME NEW r \in Req, NEW p \in Printer, InboundReceive(r, p) PROVE StepOf(r)
  <2> DEFINE h == [pc     |-> IF p \in printers THEN "mode" ELSE "reject",
                   kind   |-> IF p \in printers THEN "inbound" ELSE "rejected",
                   job    |-> [id |-> nextId, label |-> nextId, printer |-> p,
                               status |-> IF p \in printers THEN "queued" ELSE "failed"],
                   target |-> p, sent |-> FALSE]
  <2>1. handler' = [handler EXCEPT ![r] = h] /\ At(r, "idle")
        /\ UNCHANGED <<history, delivered, disk>>
    BY <1>2 DEF InboundReceive, store, ghosts
  <2>2. h.pc \in {"mode", "reject"} /\ h.sent = FALSE
    OBVIOUS
  <2>. HIDE DEF h
  <2>. QED BY <1>1, <2>1, <2>2
<1>3. ASSUME NEW r \in Req, NEW id \in JobId, NEW p \in Printer, ReprintFind(r, id, p)
      PROVE  StepOf(r)
  <2> DEFINE h == [pc |-> "resolve", kind |-> "reprint",
                   job |-> [id |-> nextId,
                            label |-> history[PositionOf(history, id)].label,
                            printer |-> p, status |-> "printed"],
                   target |-> p, sent |-> FALSE]
  <2>1. handler' = [handler EXCEPT ![r] = h] /\ At(r, "idle")
        /\ UNCHANGED <<history, delivered, disk>>
    BY <1>3 DEF ReprintFind, store, ghosts
  <2>2. h.pc = "resolve" /\ h.sent = FALSE
    OBVIOUS
  <2>. HIDE DEF h
  <2>. QED BY <1>1, <2>1, <2>2
<1>4. ASSUME NEW r \in Req, NEW id \in JobId, NEW p \in Printer, ReleaseFind(r, id, p)
      PROVE  StepOf(r)
  <2> DEFINE h == [pc |-> "resolve", kind |-> "release",
                   job |-> pending[PositionOf(pending, id)], target |-> p, sent |-> FALSE]
  <2>1. handler' = [handler EXCEPT ![r] = h] /\ At(r, "idle")
        /\ UNCHANGED <<history, delivered, disk>>
    BY <1>4 DEF ReleaseFind, store, ghosts
  <2>2. h.pc = "resolve" /\ h.sent = FALSE
    OBVIOUS
  <2>. HIDE DEF h
  <2>. QED BY <1>1, <2>1, <2>2
<1>5. ASSUME NEW r \in Req, NEW x \in PC, NEW y \in PC, At(r, x), Goto(r, y),
             x \in {"mode", "hold", "resolve"} \/ (x = "record" /\ ~handler[r].sent),
             y \in {"mode", "hold", "resolve", "send", "record"} =>
                x \in {"mode", "hold", "resolve"},
             UNCHANGED <<history, delivered, disk>>
      PROVE  StepOf(r)
  <2>1. /\ handler[r].pc = x /\ Unsent(handler[r])
        /\ handler'[r].pc = y /\ handler'[r].sent = handler[r].sent
        /\ \A q \in Req \ {r} : handler'[q] = handler[q]
    BY <1>g, <1>5
  <2>2. ~handler[r].sent
    BY <1>5, <2>1 DEF Unsent
  <2>3. \A l : ~Waiting(handler[r], l) /\ ~Waiting(handler'[r], l)
    BY <2>1, <2>2 DEF Waiting
  <2>. QED BY <1>5, <2>1, <2>2, <2>3 DEF StepOf, QuietStep, Unsent
<1>6. ASSUME NEW r \in Req, InboundMode(r) \/ InboundHold(r) \/ Resolve(r) \/ RecordFailure(r)
      PROVE  StepOf(r)
  <2>1. CASE InboundMode(r)
    BY <1>5, <2>1 DEF InboundMode, PC, store, ghosts
  <2>2. CASE InboundHold(r)
    BY <1>5, <2>2 DEF InboundHold, PC, ghosts
  <2>3. CASE Resolve(r)
    BY <1>5, <2>3 DEF Resolve, PC, store, ghosts
  <2>4. CASE RecordFailure(r)
    BY <1>5, <2>4 DEF RecordFailure, PC, ghosts
  <2>. QED BY <1>6, <2>1, <2>2, <2>3, <2>4
<1>7. ASSUME NEW r \in Req, NEW ok \in BOOLEAN, At(r, "send"), Sent(r, ok)
      PROVE  /\ handler[r] \in Handler
             /\ handler'[r].pc = "record" /\ handler'[r].sent = ok
             /\ handler'[r].job = handler[r].job
             /\ \A q \in Req \ {r} : handler'[q] = handler[q]
             /\ \A l : ~Waiting(handler[r], l)
  <2>1. handler[r] \in Handler /\ handler[r].pc = "send"
    BY <1>7, <1>t, BusyHandler DEF PC, At
  <2>2. /\ handler'[r] = [handler[r] EXCEPT !.pc = "record", !.sent = ok]
        /\ \A q \in Req \ {r} : handler'[q] = handler[q]
    BY <1>7, <1>t, <2>1 DEF Sent
  <2>. QED BY <2>1, <2>2 DEF Handler, Waiting
<1>8. ASSUME NEW r \in Req, SendErr(r) PROVE StepOf(r)
  <2>1. /\ handler'[r].pc = "record" /\ ~handler'[r].sent
        /\ \A q \in Req \ {r} : handler'[q] = handler[q]
        /\ \A l : ~Waiting(handler[r], l)
    BY <1>7, <1>8 DEF SendErr
  <2>2. UNCHANGED <<history, delivered, disk>>
    BY <1>8 DEF SendErr, store, ghosts
  <2>. QED BY <2>1, <2>2 DEF StepOf, QuietStep, Unsent, Waiting
<1>9. ASSUME NEW r \in Req, SendOk(r) PROVE StepOf(r)
  <2> DEFINE k == handler[r].job.label
  <2>1. /\ handler[r] \in Handler
        /\ handler'[r].pc = "record" /\ handler'[r].sent
        /\ handler'[r].job = handler[r].job
        /\ \A q \in Req \ {r} : handler'[q] = handler[q]
        /\ \A l : ~Waiting(handler[r], l)
    BY <1>7, <1>9 DEF SendOk
  <2>2. /\ delivered' = [delivered EXCEPT ![k] = @ + 1]
        /\ UNCHANGED <<history, disk>>
    BY <1>9 DEF SendOk, Deliver, store
  <2>3. k \in JobId
    BY <2>1 DEF Handler, Job
  <2>4. \A l : Waiting(handler'[r], l) <=> l = k
    BY <2>1 DEF Waiting
  <2>. HIDE DEF k
  <2>5. DeliveryStep(r)
    BY <2>1, <2>2, <2>3, <2>4 DEF DeliveryStep
  <2>. QED BY <2>1, <2>2, <2>5 DEF StepOf, Unsent
<1>10. ASSUME NEW r \in Req, InboundReject(r) PROVE StepOf(r)
  <2>1. /\ handler[r] \in Handler /\ handler[r].pc = "reject" /\ Shape(handler[r])
        /\ handler'[r].pc = "save" /\ handler'[r].job = handler[r].job
        /\ \A q \in Req \ {r} : handler'[q] = handler[q]
    BY <1>g, <1>10 DEF InboundReject, PC
  <2>2. handler[r].job \in Job /\ handler[r].job.status = "failed"
    BY <2>1 DEF Handler, Shape
  <2>3. \A l : ~Waiting(handler[r], l) /\ ~Waiting(handler'[r], l) /\ ~Prints(handler[r].job, l)
    BY <2>1, <2>2 DEF Waiting, Prints
  <2>4. /\ history' = <<handler[r].job>> \o history
        /\ UNCHANGED <<delivered, disk>>
    BY <1>10 DEF InboundReject, ghosts
  <2>5. FilingStep(r)
    BY <2>2, <2>3, <2>4 DEF FilingStep
  <2>. QED BY <2>1, <2>4, <2>5 DEF StepOf, Unsent
<1>11. ASSUME NEW r \in Req, RecordReprint(r) PROVE StepOf(r)
  <2>1. /\ handler[r] \in Handler /\ handler[r].pc = "record" /\ Shape(handler[r])
        /\ handler'[r].pc = "save" /\ handler'[r].job = handler[r].job
        /\ \A q \in Req \ {r} : handler'[q] = handler[q]
    BY <1>g, <1>11 DEF RecordReprint, PC
  <2>2. /\ handler[r].job \in Job /\ handler[r].job.status = "printed" /\ handler[r].sent
        /\ history' = <<handler[r].job>> \o history
        /\ UNCHANGED <<delivered, disk>>
    BY <1>11, <2>1 DEF RecordReprint, Handler, Shape, ghosts
  <2>3. \A l : /\ Waiting(handler[r], l) <=> Prints(handler[r].job, l)
               /\ ~Waiting(handler'[r], l)
    BY <2>1, <2>2 DEF Waiting, Prints
  <2>5. FilingStep(r)
    BY <2>2, <2>3 DEF FilingStep
  <2>. QED BY <2>1, <2>2, <2>5 DEF StepOf, Unsent
<1>12. ASSUME NEW r \in Req, RecordInbound(r) \/ RecordRelease(r) PROVE StepOf(r)
  <2>1. handler[r] \in Handler /\ handler[r].pc = "record" /\ handler[r].job \in Job
    BY <1>12, <1>t, BusyHandler DEF RecordInbound, RecordRelease, PC, At, Handler
  <2>2. PICK j \in Job :
            /\ handler' = [handler EXCEPT ![r] = [handler[r] EXCEPT !.pc = "save", !.job = j]]
            /\ history' = <<j>> \o history
            /\ j.label = handler[r].job.label
            /\ j.status = "printed" <=> handler[r].sent
    <3>1. CASE RecordInbound(r)
      <4> DEFINE j == [handler[r].job EXCEPT !.status =
                         IF handler[r].sent THEN "printed" ELSE "failed"]
      <4>1. /\ handler' = [handler EXCEPT ![r] = [handler[r] EXCEPT !.pc = "save", !.job = j]]
            /\ history' = <<j>> \o history
        BY <1>t, <2>1, <3>1 DEF RecordInbound
      <4>2. /\ j \in Job /\ j.label = handler[r].job.label
            /\ j.status = "printed" <=> handler[r].sent
        BY <2>1 DEF Job, JobStatus
      <4>. HIDE DEF j
      <4>. QED BY <4>1, <4>2
    <3>2. CASE RecordRelease(r)
      <4> DEFINE j == [handler[r].job EXCEPT !.status = "printed",
                                             !.printer = handler[r].target]
      <4>1. /\ handler' = [handler EXCEPT ![r] = [handler[r] EXCEPT !.pc = "save", !.job = j]]
            /\ history' = <<j>> \o history /\ handler[r].sent
        BY <1>t, <2>1, <3>2 DEF RecordRelease
      <4>2. j \in Job /\ j.label = handler[r].job.label /\ j.status = "printed"
        BY <2>1 DEF Job, JobStatus, Handler
      <4>. HIDE DEF j
      <4>. QED BY <4>1, <4>2
    <3>. QED BY <1>12, <3>1, <3>2
  <2>3. handler'[r].pc = "save" /\ \A q \in Req \ {r} : handler'[q] = handler[q]
    BY <1>t, <2>1, <2>2 DEF Handler
  <2>4. \A l : (Prints(j, l) <=> Waiting(handler[r], l)) /\ ~Waiting(handler'[r], l)
    BY <2>1, <2>2, <2>3 DEF Prints, Waiting
  <2>5. UNCHANGED <<delivered, disk>>
    BY <1>12 DEF RecordInbound, RecordRelease, ghosts
  <2>6. FilingStep(r)
    BY <2>2, <2>4, <2>5 DEF FilingStep
  <2>. QED BY <2>3, <2>5, <2>6 DEF StepOf, Unsent
<1>13. ASSUME NEW r \in Req, NEW id \in JobId, Dismiss(r, id) PROVE StepOf(r)
  <2> DEFINE k == pending[PositionOf(pending, id)]
             j == [k EXCEPT !.status = "dismissed"]
             h == [pc |-> "save", kind |-> "dismiss", job |-> j,
                   target |-> j.printer, sent |-> FALSE]
  <2>1. k \in Job
    BY <1>13, <1>t, PositionOfId DEF Dismiss
  <2>2. j \in Job /\ j.status = "dismissed" /\ h.pc = "save"
    BY <2>1 DEF Job, JobStatus
  <2>3. /\ handler' = [handler EXCEPT ![r] = h] /\ At(r, "idle")
        /\ history' = <<j>> \o history
        /\ UNCHANGED <<delivered, disk>>
    BY <1>13 DEF Dismiss, ghosts
  <2>. HIDE DEF h, j
  <2>4. handler'[r] = h /\ \A q \in Req \ {r} : handler'[q] = handler[q]
    BY <1>t, <2>3
  <2>5. \A l : ~Waiting(handler[r], l) /\ ~Waiting(handler'[r], l) /\ ~Prints(j, l)
    BY <2>2, <2>3, <2>4 DEF Waiting, Prints, At
  <2>6. FilingStep(r)
    BY <2>2, <2>3, <2>5 DEF FilingStep
  <2>. QED BY <2>2, <2>3, <2>4, <2>6 DEF StepOf, Unsent
<1>14. ASSUME NEW r \in Req, Reply(r) PROVE StepOf(r)
  <2>1. /\ At(r, "reply") /\ handler' = [handler EXCEPT ![r] = Idle]
        /\ UNCHANGED <<history, delivered, disk>>
    BY <1>14 DEF Reply, store
  <2>2. handler'[r] = Idle /\ \A q \in Req \ {r} : handler'[q] = handler[q]
    BY <1>t, <2>1
  <2>3. \A l : ~Waiting(handler[r], l) /\ ~Waiting(handler'[r], l)
    BY <2>1, <2>2 DEF Waiting, At, Idle
  <2>. QED BY <2>1, <2>2, <2>3 DEF StepOf, QuietStep, Unsent, Idle
<1>15. CASE Reconfigure \/ UNCHANGED vars
  BY <1>15 DEF Reconfigure, vars, store, ghosts
<1>. QED
  BY <1>2, <1>3, <1>4, <1>6, <1>8, <1>9, <1>10, <1>11, <1>12, <1>13, <1>14, <1>15
     DEF Next, Accept, Operate, Advance

-----------------------------------------------------------------------------
(* The history does not lie *)

\* Such a step keeps the deliveries in balance with what is recorded or about to be.
LEMMA StepBalances ==
    ASSUME IsFiniteSet(Req), TypeInv, NEW r \in Req, StepOf(r), NEW l \in JobId
    PROVE  /\ delivered[l] \in Nat /\ delivered'[l] \in Nat /\ delivered[l] <= delivered'[l]
           /\ PrintedEntries(history, l) \in Nat /\ PrintedEntries(history, l)' \in Nat
           /\ Unrecorded(l) \in Nat /\ Unrecorded(l)' \in Nat
           /\ delivered'[l] + PrintedEntries(history, l) + Unrecorded(l)
                = delivered[l] + PrintedEntries(history, l)' + Unrecorded(l)'
           /\ Len(history) \in Nat /\ Len(history') \in Nat /\ Len(history) <= Len(history')
<1>t. history \in Seq(Job) /\ delivered \in [JobId -> Nat]
  BY BoundsAssumption DEF TypeInv, TypeOK
<1> DEFINE w == IF Waiting(handler[r], l) THEN 1 ELSE 0
           v == IF Waiting(handler'[r], l) THEN 1 ELSE 0
           P == PrintedEntries(history, l)
           U == Unrecorded(l)
<1>1. U \in Nat /\ U' \in Nat /\ U' + w = U + v
  BY UnrecordedStep DEF StepOf
<1>2. P \in Nat /\ delivered[l] \in Nat /\ Len(history) \in Nat
  BY <1>t, PrintedFinite, LenProperties
<1>3. w \in {0, 1} /\ v \in {0, 1}
  OBVIOUS
<1>4. CASE QuietStep(r)
  <2>1. w = 0 /\ v = 0 /\ P' = P /\ delivered' = delivered /\ history' = history
    BY <1>4 DEF QuietStep
  <2>. HIDE DEF w, v, P, U
  <2>. QED BY <1>1, <1>2, <1>3, <2>1 DEF P, U
<1>5. CASE DeliveryStep(r)
  <2>1. PICK k \in JobId :
            /\ delivered' = [delivered EXCEPT ![k] = @ + 1]
            /\ history' = history
            /\ \A i : ~Waiting(handler[r], i) /\ (Waiting(handler'[r], i) <=> i = k)
    BY <1>5 DEF DeliveryStep
  <2>2. w = 0 /\ v = (IF l = k THEN 1 ELSE 0) /\ P' = P
    BY <2>1
  <2>3. delivered'[l] = IF l = k THEN delivered[l] + 1 ELSE delivered[l]
    BY <1>t, <2>1
  <2>4. delivered'[l] = delivered[l] + v
    BY <1>2, <2>2, <2>3
  <2>. HIDE DEF w, v, P, U
  <2>. QED BY <1>1, <1>2, <1>3, <2>1, <2>2, <2>4 DEF P, U
<1>6. CASE FilingStep(r)
  <2>1. PICK j \in Job : /\ history' = <<j>> \o history
                         /\ \A i : /\ Prints(j, i) <=> Waiting(handler[r], i)
                                   /\ ~Waiting(handler'[r], i)
    BY <1>6 DEF FilingStep
  <2>2. P' = P + w /\ v = 0
    BY <1>t, <2>1, PrintedCons
  <2>3. delivered' = delivered
    BY <1>6 DEF FilingStep
  <2>4. Len(history') = Len(history) + 1
    BY <1>t, <2>1
  <2>. HIDE DEF w, v, P, U
  <2>. QED BY <1>1, <1>2, <1>3, <2>2, <2>3, <2>4 DEF P, U
<1>. QED BY <1>4, <1>5, <1>6 DEF StepOf

\* jobs.json does not claim a print that did not happen either: it comes back in
\* a restart.
DiskTruthful == \A l \in JobId : PrintedEntries(disk.history, l) <= delivered[l]

TruthInv == TypeInv /\ UnsentYet /\ TruthfulHistory /\ DiskTruthful

\* The waiting handlers are finitely many.
LEMMA UnrecordedNat ==
    ASSUME IsFiniteSet(Req), NEW l
    PROVE  Unrecorded(l) \in Nat
<1>1. WaitingFor(l) \subseteq Req
  BY DEF WaitingFor
<1>2. Cardinality(WaitingFor(l)) \in Nat
  BY <1>1, FS_Subset, FS_CardinalityType
<1>. QED BY <1>2 DEF Unrecorded, WaitingFor, Waiting, At

\* The empty list has no printed entry, and idle handlers file nothing.
LEMMA NothingPrinted ==
    /\ \A l : PrintedEntries(<< >>, l) = 0
    /\ \A l : (\A r \in Req : handler[r] = Idle) => Unrecorded(l) = 0
<1>1. ASSUME NEW l PROVE PrintedEntries(<< >>, l) = 0
  <2>1. PrintedAt(<< >>, l) = {}
    BY DEF PrintedAt
  <2>. QED BY <2>1, FS_EmptySet DEF PrintedEntries, PrintedAt
<1>2. ASSUME NEW l, \A r \in Req : handler[r] = Idle PROVE Unrecorded(l) = 0
  <2>1. WaitingFor(l) = {}
    BY <1>2 DEF WaitingFor, Waiting, Idle
  <2>. QED BY <2>1, FS_EmptySet DEF Unrecorded, WaitingFor, Waiting, At
<1>. QED BY <1>1, <1>2

\* Nothing is printed and nothing is recorded at first.
LEMMA TruthInvInit == Init => TruthInv
<1> SUFFICES ASSUME Init PROVE TruthInv
  OBVIOUS
<1>1. TypeInv
  BY TypeInvInit
<1>2. UnsentYet
  BY DEF Init, UnsentYet, Unsent, Idle
<1>3. /\ history = << >> /\ disk.history = << >> /\ \A l \in JobId : delivered[l] = 0
      /\ \A r \in Req : handler[r] = Idle
  BY DEF Init
<1>4. TruthfulHistory /\ DiskTruthful
  BY <1>3, NothingPrinted DEF TruthfulHistory, DiskTruthful
<1>. QED BY <1>1, <1>2, <1>4 DEF TruthInv

\* The steps that may lose a delivery, but never invent one.
LEMMA SaveCounts ==
    ASSUME IsFiniteSet(Req), TypeInv, NEW r \in Req, Save(r)
    PROVE  /\ \A l : Unrecorded(l)' = Unrecorded(l)
           /\ \A l : ~Waiting(handler'[r], l)
           /\ \A q \in Req \ {r} : handler'[q] = handler[q]
           /\ handler'[r].pc = "reply"
           /\ delivered' = delivered
<1>1. /\ handler'[r] = [handler[r] EXCEPT !.pc = "reply"] /\ handler[r] \in Handler
      /\ \A q \in Req \ {r} : handler'[q] = handler[q]
      /\ handler[r].pc = "save"
  BY GotoHandler, BusyHandler DEF Save, PC, TypeInv, At
<1>2. handler'[r].pc = "reply"
  BY <1>1 DEF Handler
<1>3. \A l : ~Waiting(handler[r], l) /\ ~Waiting(handler'[r], l)
  BY <1>1, <1>2 DEF Waiting
<1>4. ASSUME NEW l PROVE Unrecorded(l)' = Unrecorded(l)
  BY <1>1, <1>3, UnrecordedStep
<1>. QED BY <1>1, <1>2, <1>3, <1>4 DEF Save

\* A step adds an entry that claims a print only after the print, in memory and,
\* since save writes what memory says, on the disk.
LEMMA TruthInvNext ==
    ASSUME IsFiniteSet(Req)
    PROVE  TruthInv /\ [Next]_vars => TruthInv'
<1> SUFFICES ASSUME TruthInv, [Next]_vars PROVE TruthInv'
  OBVIOUS
<1>t. /\ TypeInv /\ UnsentYet /\ TypeInv' /\ TypeOK
      /\ history \in Seq(Job) /\ disk.history \in Seq(Job) /\ delivered \in [JobId -> Nat]
      /\ handler \in [Req -> Handler \cup {Idle}]
  <2>1. TypeInv /\ UnsentYet /\ TypeInv'
    BY TypeInvNext DEF TruthInv
  <2>2. TypeOK
    BY <2>1 DEF TypeInv
  <2>. QED BY <2>1, <2>2, BoundsAssumption DEF TypeOK, JobsDoc
<1>n. \A l \in JobId : /\ PrintedEntries(history, l) \in Nat
                       /\ PrintedEntries(disk.history, l) \in Nat
                       /\ Unrecorded(l) \in Nat /\ delivered[l] \in Nat
                       /\ PrintedEntries(history, l) + Unrecorded(l) <= delivered[l]
                       /\ PrintedEntries(disk.history, l) <= delivered[l]
  BY <1>t, PrintedFinite, UnrecordedNat DEF TruthInv, TruthfulHistory, DiskTruthful
<1>1. ASSUME NEW r \in Req, StepOf(r) PROVE TruthInv'
  <2>1. UnsentYet'
    BY <1>t, <1>1 DEF StepOf, UnsentYet
  <2>2. TruthfulHistory'
    <3> SUFFICES ASSUME NEW l \in JobId
                 PROVE  PrintedEntries(history, l)' + Unrecorded(l)' <= delivered'[l]
      BY DEF TruthfulHistory
    <3>. QED BY <1>n, <1>t, <1>1, StepBalances
  <2>3. DiskTruthful'
    <3> SUFFICES ASSUME NEW l \in JobId PROVE PrintedEntries(disk.history, l)' <= delivered'[l]
      BY DEF DiskTruthful
    <3>1. delivered[l] <= delivered'[l] /\ delivered'[l] \in Nat
      BY <1>t, <1>1, StepBalances
    <3>2. PrintedEntries(disk.history, l)' = PrintedEntries(disk.history, l)
      BY <1>1 DEF StepOf
    <3>. QED BY <1>n, <3>1, <3>2
  <2>. QED BY <1>t, <2>1, <2>2, <2>3 DEF TruthInv
<1>2. ASSUME NEW r \in Req, Save(r) PROVE TruthInv'
  <2>1. /\ \A l : Unrecorded(l)' = Unrecorded(l)
        /\ handler'[r].pc = "reply" /\ \A q \in Req \ {r} : handler'[q] = handler[q]
        /\ delivered' = delivered
    BY <1>t, <1>2, SaveCounts
  <2>2. UnsentYet'
    BY <1>t, <2>1 DEF UnsentYet, Unsent
  <2>3. \A l : PrintedEntries(history', l) <= PrintedEntries(history, l)
    BY <1>2, <1>t, PrintedTruncate, BoundsAssumption DEF Save
  <2>4. \A l : PrintedEntries(history', l) \in Nat
    BY <1>t, PrintedFinite DEF TypeInv, TypeOK
  <2>5. TruthfulHistory'
    BY <1>n, <2>1, <2>3, <2>4 DEF TruthfulHistory
  <2>6. disk'.history = history' \/ disk' = disk
    BY <1>2 DEF Save
  <2>7. DiskTruthful'
    BY <1>n, <2>1, <2>3, <2>4, <2>6 DEF DiskTruthful
  <2>. QED BY <1>t, <2>2, <2>5, <2>7 DEF TruthInv
<1>3. ASSUME NEW r \in Req, SendLateErr(r) PROVE TruthInv'
  <2>1. handler[r] \in Handler /\ handler[r].pc = "send"
    BY <1>3, <1>t, BusyHandler DEF SendLateErr, PC, At
  <2>2. /\ handler'[r] = [handler[r] EXCEPT !.pc = "record", !.sent = FALSE]
        /\ \A q \in Req \ {r} : handler'[q] = handler[q]
    BY <1>3, <1>t DEF SendLateErr, Sent
  <2>3. handler'[r].pc = "record" /\ ~handler'[r].sent
    BY <2>1, <2>2 DEF Handler
  <2>4. UnsentYet'
    BY <1>t, <2>2, <2>3 DEF UnsentYet, Unsent
  <2>5. \A l : ~Waiting(handler[r], l) /\ ~Waiting(handler'[r], l)
    BY <2>1, <2>3 DEF Waiting
  <2>6. ASSUME NEW l \in JobId PROVE Unrecorded(l)' = Unrecorded(l)
    BY <2>2, <2>5, UnrecordedStep
  <2>7. history' = history /\ disk' = disk
    BY <1>3 DEF SendLateErr, store
  <2>8. \A l \in JobId : delivered'[l] \in {delivered[l], delivered[l] + 1}
    BY <1>3, <1>t DEF SendLateErr, Deliver
  <2>9. TruthfulHistory' /\ DiskTruthful'
    BY <1>n, <2>6, <2>7, <2>8 DEF TruthfulHistory, DiskTruthful
  <2>. QED BY <1>t, <2>4, <2>9 DEF TruthInv
<1>4. ASSUME NEW r \in Req, Hangup(r) PROVE TruthInv'
  <2>1. /\ handler'[r] = Idle /\ \A q \in Req \ {r} : handler'[q] = handler[q]
        /\ UNCHANGED <<history, disk, delivered>>
    BY <1>4, <1>t DEF Hangup, store, ghosts
  <2>2. UnsentYet'
    BY <1>t, <2>1 DEF UnsentYet, Unsent, Idle
  <2>3. \A l : ~Waiting(handler'[r], l)
    BY <2>1 DEF Waiting, Idle
  <2>4. ASSUME NEW l \in JobId PROVE Unrecorded(l)' <= Unrecorded(l) /\ Unrecorded(l)' \in Nat
    BY <2>1, <2>3, UnrecordedStep
  <2>5. TruthfulHistory' /\ DiskTruthful'
    BY <1>n, <2>1, <2>4 DEF TruthfulHistory, DiskTruthful
  <2>. QED BY <1>t, <2>2, <2>5 DEF TruthInv
<1>5. CASE Restart
  <2>1. /\ history' = disk.history \/ history' = << >>
        /\ \A r \in Req : handler'[r] = Idle
        /\ UNCHANGED <<disk, delivered>>
    BY <1>5 DEF Restart, ghosts
  <2>2. UnsentYet'
    BY <2>1 DEF UnsentYet, Unsent, Idle
  <2>3. ASSUME NEW l PROVE Unrecorded(l)' = 0
    <3>1. WaitingFor(l)' = {}
      BY <2>1 DEF WaitingFor, Waiting, Idle
    <3>. QED BY <3>1, FS_EmptySet DEF Unrecorded, WaitingFor, Waiting, At
  <2>4. \A l : PrintedEntries(<< >>, l) = 0
    BY NothingPrinted
  <2>5. TruthfulHistory' /\ DiskTruthful'
    BY <1>n, <2>1, <2>3, <2>4 DEF TruthfulHistory, DiskTruthful
  <2>. QED BY <1>t, <2>2, <2>5 DEF TruthInv
<1>6. CASE UNCHANGED <<history, disk, delivered, handler>>
  BY <1>6, <1>t DEF TruthInv, UnsentYet, TruthfulHistory, DiskTruthful, Unrecorded, At
<1>. QED BY <1>1, <1>2, <1>3, <1>4, <1>5, <1>6, <1>t, PrintSteps

\* The history, in memory or read back from jobs.json, never claims more prints of
\* a label than were delivered, with every fault.
THEOREM HistoryIsTruthful ==
    ASSUME IsFiniteSet(Req)
    PROVE  Spec => []TruthfulHistory
<1>1. TruthInv => TruthfulHistory
  BY DEF TruthInv
<1>. QED BY <1>1, TruthInvInit, TruthInvNext, PTL DEF Spec

RecordedInv == TypeInv /\ UnsentYet /\ EveryPrintRecorded

\* Without a crash, a hang-up and a late error no step loses a delivery.
LEMMA LossFreeSteps ==
    ASSUME IsFiniteSet(Req), TypeInv, UnsentYet, [Next]_vars,
           Faults \cap {"crash", "hangup", "late_error"} = {}
    PROVE  \/ UNCHANGED <<history, disk, delivered, handler>>
           \/ \E r \in Req : StepOf(r) \/ Save(r)
BY PrintSteps DEF SendLateErr, Hangup, Restart

\* Then every delivery is recorded, about to be, or the history is full.
LEMMA RecordedInvNext ==
    ASSUME IsFiniteSet(Req), Faults \cap {"crash", "hangup", "late_error"} = {}
    PROVE  RecordedInv /\ [Next]_vars => RecordedInv'
<1> SUFFICES ASSUME RecordedInv, [Next]_vars PROVE RecordedInv'
  OBVIOUS
<1>t. /\ TypeInv /\ UnsentYet /\ TypeInv' /\ TypeOK
      /\ history \in Seq(Job) /\ EveryPrintRecorded
      /\ MaxHistory \in Nat \ {0} /\ Len(history) \in Nat
  BY TypeInvNext, BoundsAssumption, LenProperties DEF RecordedInv, TypeInv, TypeOK
<1>1. ASSUME NEW r \in Req, StepOf(r) PROVE RecordedInv'
  <2>1. UnsentYet'
    BY <1>t, <1>1 DEF StepOf, UnsentYet
  <2>2. EveryPrintRecorded'
    <3> SUFFICES ASSUME Len(history') < MaxHistory, NEW l \in JobId
                 PROVE  delivered'[l] = PrintedEntries(history, l)' + Unrecorded(l)'
      BY DEF EveryPrintRecorded
    <3>1. /\ delivered[l] \in Nat /\ delivered'[l] \in Nat
          /\ PrintedEntries(history, l) \in Nat /\ PrintedEntries(history, l)' \in Nat
          /\ Unrecorded(l) \in Nat /\ Unrecorded(l)' \in Nat
          /\ delivered'[l] + PrintedEntries(history, l) + Unrecorded(l)
                = delivered[l] + PrintedEntries(history, l)' + Unrecorded(l)'
          /\ Len(history) \in Nat /\ Len(history') \in Nat /\ Len(history) <= Len(history')
      BY <1>t, <1>1, StepBalances
    <3>2. Len(history) < MaxHistory
      BY <1>t, <3>1
    <3>3. delivered[l] = PrintedEntries(history, l) + Unrecorded(l)
      BY <1>t, <3>2 DEF EveryPrintRecorded
    <3>. QED BY <3>1, <3>3
  <2>. QED BY <1>t, <2>1, <2>2 DEF RecordedInv
<1>2. ASSUME NEW r \in Req, Save(r) PROVE RecordedInv'
  <2>1. /\ \A l : Unrecorded(l)' = Unrecorded(l)
        /\ handler'[r].pc = "reply" /\ \A q \in Req \ {r} : handler'[q] = handler[q]
        /\ delivered' = delivered
    BY <1>t, <1>2, SaveCounts
  <2>2. UnsentYet'
    BY <1>t, <2>1 DEF UnsentYet, Unsent
  <2>3. history' = SubSeq(history, 1, IF Len(history) <= MaxHistory THEN Len(history) ELSE MaxHistory)
    BY <1>2 DEF Save, Truncate
  <2>4. CASE Len(history) <= MaxHistory
    <3>1. history' = history
      BY <1>t, <2>3, <2>4
    <3>2. EveryPrintRecorded'
      BY <1>t, <2>1, <3>1 DEF EveryPrintRecorded
    <3>. QED BY <1>t, <2>2, <3>2 DEF RecordedInv
  <2>5. CASE ~(Len(history) <= MaxHistory)
    <3>1. Len(history') = MaxHistory
      BY <1>t, <2>3, <2>5
    <3>2. EveryPrintRecorded'
      BY <1>t, <3>1 DEF EveryPrintRecorded
    <3>. QED BY <1>t, <2>2, <3>2 DEF RecordedInv
  <2>. QED BY <2>4, <2>5
<1>3. CASE UNCHANGED <<history, disk, delivered, handler>>
  BY <1>3, <1>t DEF RecordedInv, UnsentYet, EveryPrintRecorded, Unrecorded, At
<1>. QED BY <1>1, <1>2, <1>3, <1>t, LossFreeSteps

\* Conversely a delivered print is recorded or about to be while the history is
\* not full, unless one of the three faults that can lose a delivery happens: a
\* crash or hang-up after send_to_printer, or an answer that comes too late.
THEOREM PrintsAreRecorded ==
    ASSUME IsFiniteSet(Req), Faults \cap {"crash", "hangup", "late_error"} = {}
    PROVE  Spec => []EveryPrintRecorded
<1>1. Init => RecordedInv
  <2> SUFFICES ASSUME Init PROVE RecordedInv
    OBVIOUS
  <2>1. TypeInv /\ UnsentYet
    BY TruthInvInit DEF TruthInv
  <2>2. /\ history = << >> /\ \A l \in JobId : delivered[l] = 0
        /\ \A r \in Req : handler[r] = Idle
    BY DEF Init
  <2>3. EveryPrintRecorded
    BY <2>2, NothingPrinted DEF EveryPrintRecorded
  <2>. QED BY <2>1, <2>3 DEF RecordedInv
<1>2. RecordedInv => EveryPrintRecorded
  BY DEF RecordedInv
<1>. QED BY <1>1, <1>2, RecordedInvNext, PTL DEF Spec
=============================================================================
