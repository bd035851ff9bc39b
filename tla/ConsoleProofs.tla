--------------------------- MODULE ConsoleProofs ---------------------------
(***************************************************************************)
(* For any number of pages, handlers, jobs and reloads, and a channel of   *)
(* any capacity, a page with nothing on its way is wrong about a job only  *)
(* for one of the reasons that doubt records.                              *)
(*                                                                         *)
(* A page's list is not wrong while messages are on their way: it is what  *)
(* the last message about a job will make of it that has to agree with the *)
(* queue, and only while no handler has still to announce a change of that *)
(* job.  The same holds of every answer of /api/jobs on its way, which can *)
(* become the list at any time.                                            *)
(***************************************************************************)
EXTENDS Console, SequenceTheorems, TLAPS

\* A message that says whether the job is queued, and what it says.
Mentions(m, j) == m.type = "backlog" \/ j \in About(m)

Says(m, j) == IF m.type = "backlog" THEN j \in m.jobs ELSE m.type = "new_job"

\* The last of the messages that does.
LastOf(s, j, i) == /\ Mentions(s[i], j)
                   /\ \A k \in DOMAIN s : k > i => ~Mentions(s[k], j)

\* With list and the messages of s to come, a page ends with j listed iff it is in Q.
Ends(s, list, j, Q) ==
    /\ \A i \in DOMAIN s : LastOf(s, j, i) => (Says(s[i], j) <=> j \in Q)
    /\ (\A i \in DOMAIN s : ~Mentions(s[i], j)) => (j \in list <=> j \in Q)

\* A handler has still to announce a change of j.
Pending(j) == \E r \in Req : task[r] # Free /\ j \in About(task[r].about)

\* A backlog is the first message or none, and the channel holds the others.
StreamOK(s) ==
    /\ \A i \in DOMAIN s : i > 1 => s[i].type # "backlog"
    /\ Len(s) - FirstLive(s) + 1 <= Capacity

Right(c, j) ==
    /\ Ends(stream[c], rows[c], j, queue)
    /\ \A f \in Fetch : load[c][f].at = "served" =>
                            Ends(stream[c], load[c][f].jobs, j, queue)

GoneIsGone ==
    \A r \in Req : task[r] # Free /\ task[r].about.type = "gone"
                       => task[r].about.id \notin queue

StreamsOK ==
    \A c \in Page : /\ StreamOK(stream[c])
                    /\ conn[c] = "subscribing" =>
                         Len(stream[c]) = 1 /\ stream[c][1].type = "backlog"

InDoubtOrRight(c, j) ==
    conn[c] \in {"subscribing", "open"} => j \in doubt[c] \/ Pending(j) \/ Right(c, j)

InDoubtIfWrong == \A c \in Page, j \in JobId : InDoubtOrRight(c, j)

ConsoleInv == TypeOK /\ GoneIsGone /\ StreamsOK /\ InDoubtIfWrong

-----------------------------------------------------------------------------
(* The messages on their way to a page *)

\* A message added to the stream decides, if it is about the job.
LEMMA EndsAppend ==
    ASSUME NEW s \in Seq(Message), NEW list, NEW j, NEW Q,
           NEW m \in Message,
           IF Mentions(m, j) THEN Says(m, j) <=> j \in Q ELSE Ends(s, list, j, Q)
    PROVE  Ends(Append(s, m), list, j, Q)
<1> DEFINE t == Append(s, m)
<1>1. /\ DOMAIN s = 1..Len(s) /\ Len(s) \in Nat
      /\ DOMAIN t = 1..(Len(s) + 1)
      /\ t[Len(s) + 1] = m
      /\ \A i \in 1..Len(s) : t[i] = s[i]
  BY AppendProperties, LenProperties
<1>. HIDE DEF t
<1>2. CASE Mentions(m, j)
  <2>1. \A i \in DOMAIN t : LastOf(t, j, i) => i = Len(s) + 1
    BY <1>1, <1>2 DEF LastOf
  <2>. QED BY <1>1, <1>2, <2>1 DEF Ends, t
<1>3. CASE ~Mentions(m, j)
  <2>1. \A i \in DOMAIN t : LastOf(t, j, i) => i \in DOMAIN s /\ LastOf(s, j, i)
    BY <1>1, <1>3 DEF LastOf
  <2>2. ASSUME NEW i \in DOMAIN t, LastOf(t, j, i) PROVE Says(t[i], j) <=> j \in Q
    BY <1>1, <1>3, <2>1, <2>2 DEF Ends
  <2>3. ASSUME \A i \in DOMAIN t : ~Mentions(t[i], j) PROVE j \in list <=> j \in Q
    <3>1. \A i \in DOMAIN s : ~Mentions(s[i], j)
      BY <1>1, <2>3
    <3>. QED BY <1>3, <3>1 DEF Ends
  <2>. QED BY <2>2, <2>3 DEF Ends, t
<1>. QED BY <1>2, <1>3

\* What RemoveAt does.
LEMMA RemoveAtProperties ==
    ASSUME NEW S, NEW s \in Seq(S), NEW p \in 1..Len(s)
    PROVE  /\ RemoveAt(s, p) \in Seq(S)
           /\ Len(RemoveAt(s, p)) = Len(s) - 1
           /\ \A i \in 1..(Len(s) - 1) :
                RemoveAt(s, p)[i] = IF i < p THEN s[i] ELSE s[i + 1]
<1> DEFINE a == SubSeq(s, 1, p - 1)
           b == SubSeq(s, p + 1, Len(s))
<1>1. Len(s) \in Nat
  BY LenProperties
<1>2. a \in Seq(S) /\ Len(a) = p - 1 /\ \A i \in 1..(p - 1) : a[i] = s[i]
  BY <1>1, SubSeqProperties, LenProperties
<1>3. b \in Seq(S) /\ Len(b) = Len(s) - p /\ \A i \in 1..(Len(s) - p) : b[i] = s[p + i]
  BY <1>1, SubSeqProperties, LenProperties
<1>4. RemoveAt(s, p) = a \o b
  BY DEF RemoveAt
<1>. HIDE DEF a, b
<1>5. /\ a \o b \in Seq(S)
      /\ Len(a \o b) = Len(a) + Len(b)
      /\ \A i \in 1..(Len(a) + Len(b)) :
            (a \o b)[i] = IF i <= Len(a) THEN a[i] ELSE b[i - Len(a)]
  BY <1>2, <1>3, ConcatProperties
<1>6. ASSUME NEW i \in 1..(Len(s) - 1)
      PROVE  (a \o b)[i] = IF i < p THEN s[i] ELSE s[i + 1]
  <2>1. CASE i < p
    BY <1>1, <1>2, <1>3, <1>5, <2>1
  <2>2. CASE ~(i < p)
    <3>1. i - (p - 1) \in 1..(Len(s) - p) /\ p + (i - (p - 1)) = i + 1
      BY <1>1, <2>2
    <3>2. b[i - (p - 1)] = s[i + 1]
      BY <1>3, <3>1
    <3>. QED BY <1>1, <1>2, <1>3, <1>5, <2>2, <3>2
  <2>. QED BY <2>1, <2>2
<1>. QED BY <1>1, <1>2, <1>3, <1>4, <1>5, <1>6

\* A message that is not about the job can be skipped.
LEMMA EndsSkip ==
    ASSUME NEW s \in Seq(Message), NEW list, NEW j, NEW Q,
           NEW p \in 1..Len(s), ~Mentions(s[p], j), Ends(s, list, j, Q)
    PROVE  Ends(RemoveAt(s, p), list, j, Q)
<1> DEFINE t == RemoveAt(s, p)
           f(i) == IF i < p THEN i ELSE i + 1
<1>1. /\ DOMAIN s = 1..Len(s) /\ Len(s) \in Nat
      /\ DOMAIN t = 1..(Len(s) - 1)
      /\ \A i \in DOMAIN t : t[i] = s[f(i)]
  BY RemoveAtProperties, LenProperties
<1>. HIDE DEF t
<1>2. \A k \in DOMAIN s : k # p => \E i \in DOMAIN t : k = f(i)
  <2> TAKE k \in DOMAIN s
  <2>1. CASE k < p
    BY <1>1, <2>1
  <2>2. CASE k > p
    <3>1. k - 1 \in DOMAIN t /\ f(k - 1) = k
      BY <1>1, <2>2
    <3>. QED BY <3>1
  <2>. QED BY <1>1, <2>1, <2>2
<1>3. \A i, k \in DOMAIN t : f(k) > f(i) => k > i
  BY <1>1
<1>4. \A i \in DOMAIN t : f(i) \in DOMAIN s
  BY <1>1
<1>. HIDE DEF f
<1>5. ASSUME NEW i \in DOMAIN t, LastOf(t, j, i) PROVE LastOf(s, j, f(i))
  <2>1. ASSUME NEW k \in DOMAIN s, k > f(i) PROVE ~Mentions(s[k], j)
    <3>1. CASE k = p
      BY <3>1
    <3>2. CASE k # p
      <4>1. PICK q \in DOMAIN t : k = f(q)
        BY <1>2, <3>2
      <4>. QED BY <1>1, <1>3, <1>5, <2>1, <4>1 DEF LastOf
    <3>. QED BY <3>1, <3>2
  <2>. QED BY <1>1, <1>5, <2>1 DEF LastOf
<1>6. ASSUME NEW i \in DOMAIN t, LastOf(t, j, i) PROVE Says(t[i], j) <=> j \in Q
  BY <1>1, <1>4, <1>5, <1>6 DEF Ends
<1>7. ASSUME \A i \in DOMAIN t : ~Mentions(t[i], j) PROVE j \in list <=> j \in Q
  <2>1. \A k \in DOMAIN s : ~Mentions(s[k], j)
    BY <1>1, <1>2, <1>7
  <2>. QED BY <2>1 DEF Ends
<1>. QED BY <1>6, <1>7 DEF Ends, t

\* A page that applies the first message goes on to the same end.
LEMMA EndsTail ==
    ASSUME NEW s \in Seq(Message), NEW list, NEW next, NEW j, NEW Q,
           s # << >>, Ends(s, list, j, Q),
           j \in next <=> IF Mentions(Head(s), j) THEN Says(Head(s), j) ELSE j \in list
    PROVE  Ends(Tail(s), next, j, Q)
<1> DEFINE t == Tail(s)
<1>1. /\ DOMAIN s = 1..Len(s) /\ Len(s) \in Nat \ {0}
      /\ DOMAIN t = 1..(Len(s) - 1)
      /\ Head(s) = s[1]
      /\ \A i \in DOMAIN t : t[i] = s[i + 1]
  BY HeadTailProperties, LenProperties, EmptySeq
<1>. HIDE DEF t
<1>2. ASSUME NEW i \in DOMAIN t, LastOf(t, j, i) PROVE Says(t[i], j) <=> j \in Q
  <2>1. ASSUME NEW k \in DOMAIN s, k > i + 1 PROVE ~Mentions(s[k], j)
    <3>1. k - 1 \in DOMAIN t /\ k - 1 > i /\ t[k - 1] = s[k]
      BY <1>1, <2>1
    <3>. QED BY <1>2, <3>1 DEF LastOf
  <2>2. i + 1 \in DOMAIN s /\ LastOf(s, j, i + 1)
    BY <1>1, <1>2, <2>1 DEF LastOf
  <2>. QED BY <1>1, <2>2 DEF Ends
<1>3. ASSUME \A i \in DOMAIN t : ~Mentions(t[i], j) PROVE  j \in next <=> j \in Q
  <2>1. \A k \in DOMAIN s : k > 1 => ~Mentions(s[k], j)
    <3> TAKE k \in DOMAIN s
    <3> HAVE k > 1
    <3>1. k - 1 \in DOMAIN t /\ t[k - 1] = s[k]
      BY <1>1
    <3>. QED BY <1>3, <3>1
  <2>2. CASE Mentions(s[1], j)
    BY <1>1, <2>1, <2>2 DEF Ends, LastOf
  <2>3. CASE ~Mentions(s[1], j)
    <3>1. \A k \in DOMAIN s : ~Mentions(s[k], j)
      BY <1>1, <2>1, <2>3
    <3>. QED BY <1>1, <2>3, <3>1 DEF Ends
  <2>. QED BY <2>2, <2>3
<1>. QED BY <1>2, <1>3 DEF Ends, t

\* A backlog alone decides about every job.
LEMMA EndsBacklog ==
    ASSUME NEW s \in Seq(Message), NEW list, NEW j, NEW Q,
           Len(s) = 1, s[1].type = "backlog"
    PROVE  Ends(s, list, j, Q) <=> (Says(s[1], j) <=> j \in Q)
<1>1. DOMAIN s = {1} /\ Mentions(s[1], j)
  BY LenProperties DEF Mentions
<1>2. LastOf(s, j, 1)
  BY <1>1 DEF LastOf
<1>. QED BY <1>1, <1>2 DEF Ends

\* A list that is right ends right, whatever list was replaced.
LEMMA EndsFresh ==
    ASSUME NEW s \in Seq(Message), NEW list, NEW next, NEW j, NEW Q,
           Ends(s, list, j, Q), j \in next <=> j \in Q
    PROVE  Ends(s, next, j, Q)
BY DEF Ends

\* Only whether j is queued matters.
LEMMA EndsSame ==
    ASSUME NEW s, NEW list, NEW j, NEW Q, NEW R, j \in Q <=> j \in R,
           Ends(s, list, j, Q)
    PROVE  Ends(s, list, j, R)
BY DEF Ends

\* What is skipped when the channel is full was announced, and is no backlog.
LEMMA FirstLiveProperties ==
    ASSUME NEW s \in Seq(Message), StreamOK(s)
    PROVE  /\ FirstLive(s) \in {1, 2}
           /\ Full(s) => /\ FirstLive(s) \in 1..Len(s)
                         /\ s[FirstLive(s)] \in Announcement
<1>1. Len(s) \in Nat /\ DOMAIN s = 1..Len(s)
  BY LenProperties
<1>2. s # << >> => Len(s) > 0 /\ Head(s) = s[1]
  BY <1>1, EmptySeq
<1>3. FirstLive(s) \in {1, 2}
  BY DEF FirstLive
<1>4. ASSUME Full(s)
      PROVE  FirstLive(s) \in 1..Len(s) /\ s[FirstLive(s)] \in Announcement
  <2>1. FirstLive(s) \in 1..Len(s)
    BY <1>1, <1>3, <1>4, PageAssumption DEF Full
  <2>2. s[FirstLive(s)].type # "backlog"
    BY <1>1, <1>2, <2>1 DEF FirstLive, StreamOK
  <2>3. s[FirstLive(s)] \in Message
    BY <2>1, ElementOfSeq
  <2>. QED BY <2>1, <2>2, <2>3 DEF Message
<1>. QED BY <1>3, <1>4

\* A message added to a stream keeps it within the channel.
LEMMA StreamAppend ==
    ASSUME NEW s \in Seq(Message), NEW m \in Announcement,
           \A i \in DOMAIN s : i > 1 => s[i].type # "backlog",
           Len(s) - FirstLive(s) + 1 < Capacity
    PROVE  Append(s, m) \in Seq(Message) /\ StreamOK(Append(s, m))
<1> DEFINE t == Append(s, m)
<1>1. m \in Message /\ m.type # "backlog"
  BY DEF Announcement, Message
<1>2. /\ DOMAIN s = 1..Len(s) /\ Len(s) \in Nat
      /\ t \in Seq(Message)
      /\ Len(t) = Len(s) + 1
      /\ DOMAIN t = 1..(Len(s) + 1)
      /\ t[Len(s) + 1] = m
      /\ \A i \in 1..Len(s) : t[i] = s[i]
  BY <1>1, AppendProperties, LenProperties
<1>3. t # << >> /\ Head(t) = t[1]
  BY <1>2, EmptySeq
<1>4. s = << >> <=> Len(s) = 0
  BY <1>2, EmptySeq
<1>5. s # << >> => Head(s) = s[1]
  OBVIOUS
<1>. HIDE DEF t
<1>6. FirstLive(t) = FirstLive(s)
  <2>1. CASE s = << >>
    BY <1>1, <1>2, <1>3, <1>4, <2>1 DEF FirstLive
  <2>2. CASE s # << >>
    <3>1. t[1] = s[1]
      BY <1>2, <1>4, <2>2
    <3>. QED BY <1>3, <1>5, <2>2, <3>1 DEF FirstLive
  <2>. QED BY <2>1, <2>2
<1>7. FirstLive(s) \in {1, 2}
  BY DEF FirstLive
<1>8. Len(t) - FirstLive(t) + 1 <= Capacity
  BY <1>2, <1>6, <1>7, PageAssumption
<1>9. \A i \in DOMAIN t : i > 1 => t[i].type # "backlog"
  BY <1>1, <1>2
<1>. QED BY <1>2, <1>8, <1>9 DEF StreamOK, t

\* A full channel that forgets its oldest message has room for one.
LEMMA StreamSkip ==
    ASSUME NEW s \in Seq(Message), StreamOK(s), Full(s)
    PROVE  LET t == RemoveAt(s, FirstLive(s))
           IN  /\ t \in Seq(Message)
               /\ \A i \in DOMAIN t : i > 1 => t[i].type # "backlog"
               /\ Len(t) - FirstLive(t) + 1 < Capacity
<1> DEFINE p == FirstLive(s)
           t == RemoveAt(s, p)
<1>1. Len(s) \in Nat /\ DOMAIN s = 1..Len(s)
  BY LenProperties
<1>2. p \in {1, 2} /\ p \in 1..Len(s) /\ s[p].type # "backlog"
  BY FirstLiveProperties DEF Announcement
<1>3. s # << >> /\ Head(s) = s[1]
  BY <1>1, <1>2, EmptySeq
<1>4. p = 1 \/ (p = 2 /\ s[1].type = "backlog")
  BY <1>3 DEF FirstLive
<1>. HIDE DEF p
<1>5. /\ t \in Seq(Message)
      /\ Len(t) = Len(s) - 1
      /\ DOMAIN t = 1..(Len(s) - 1)
      /\ \A i \in DOMAIN t : t[i] = IF i < p THEN s[i] ELSE s[i + 1]
  <2>1. /\ t \in Seq(Message)
        /\ Len(t) = Len(s) - 1
        /\ \A i \in 1..(Len(s) - 1) : t[i] = IF i < p THEN s[i] ELSE s[i + 1]
    BY <1>2, RemoveAtProperties
  <2>. QED BY <2>1, LenProperties
<1>6. t # << >> => 1 \in DOMAIN t /\ Head(t) = t[1]
  BY <1>1, <1>5, EmptySeq
<1>. HIDE DEF t
<1>7. \A i \in DOMAIN t : i > 1 => t[i].type # "backlog"
  <2> SUFFICES ASSUME NEW i \in DOMAIN t, i > 1 PROVE t[i].type # "backlog"
    OBVIOUS
  <2>1. i \in DOMAIN s /\ i + 1 \in DOMAIN s
    BY <1>1, <1>5
  <2>. QED BY <1>5, <2>1 DEF StreamOK
<1>8. FirstLive(t) >= p
  <2>1. CASE p = 1
    BY <2>1 DEF FirstLive
  <2>2. CASE p = 2 /\ s[1].type = "backlog"
    <3>1. t # << >>
      <4> SUFFICES ASSUME t = << >> PROVE FALSE
        OBVIOUS
      <4>1. Len(t) = 0
        BY <1>5, EmptySeq
      <4>2. Len(s) - 1 = 0 /\ Len(s) \in Nat
        BY <1>1, <1>5, <4>1
      <4>3. 2 \in 1..Len(s)
        BY <1>2, <2>2
      <4>4. \A n \in Nat : n - 1 = 0 => 2 \notin 1..n
        OBVIOUS
      <4>. QED BY ONLY <4>2, <4>3, <4>4, Zenon
    <3>. QED BY <1>5, <1>6, <2>2, <3>1 DEF FirstLive
  <2>. QED BY <1>4, <2>1, <2>2
<1>9. FirstLive(t) \in {1, 2}
  BY DEF FirstLive
<1>10. Len(s) - p + 1 = Capacity
  BY DEF Full, p
<1>11. Len(t) - FirstLive(t) + 1 < Capacity
  BY <1>1, <1>2, <1>5, <1>8, <1>9, <1>10, PageAssumption
<1>. QED BY <1>5, <1>7, <1>11 DEF t, p

\* A broadcast reaches a stream.
LEMMA StreamPush ==
    ASSUME NEW s \in Seq(Message), NEW m \in Announcement, StreamOK(s)
    PROVE  Push(s, m) \in Seq(Message) /\ StreamOK(Push(s, m))
<1>1. CASE Full(s)
  BY <1>1, StreamSkip, StreamAppend DEF Push
<1>2. CASE ~Full(s)
  <2>1. FirstLive(s) \in {1, 2} /\ Len(s) \in Nat
    BY FirstLiveProperties, LenProperties
  <2>2. Len(s) - FirstLive(s) + 1 < Capacity
    BY <1>2, <2>1, PageAssumption DEF StreamOK, Full
  <2>3. \A i \in DOMAIN s : i > 1 => s[i].type # "backlog"
    BY DEF StreamOK
  <2>. QED BY <1>2, <2>2, <2>3, StreamAppend DEF Push
<1>. QED BY <1>1, <1>2

\* What it leads a page to, unless a message about the job was skipped.
LEMMA EndsPush ==
    ASSUME NEW s \in Seq(Message), NEW m \in Announcement, StreamOK(s),
           NEW list, NEW j, NEW Q,
           Full(s) => j \notin About(s[FirstLive(s)]),
           IF Mentions(m, j) THEN Says(m, j) <=> j \in Q ELSE Ends(s, list, j, Q)
    PROVE  Ends(Push(s, m), list, j, Q)
<1>1. m \in Message
  BY DEF Announcement, Message
<1>2. CASE Full(s)
  <2> DEFINE t == RemoveAt(s, FirstLive(s))
  <2>1. t \in Seq(Message)
    BY <1>2, StreamSkip
  <2>2. FirstLive(s) \in 1..Len(s) /\ ~Mentions(s[FirstLive(s)], j)
    BY <1>2, FirstLiveProperties DEF Mentions, Announcement
  <2>3. Ends(s, list, j, Q) => Ends(t, list, j, Q)
    BY <2>2, EndsSkip
  <2>. HIDE DEF t
  <2>4. Ends(Append(t, m), list, j, Q)
    BY <1>1, <2>1, <2>3, EndsAppend
  <2>. QED BY <1>2, <2>4 DEF Push, t
<1>3. CASE ~Full(s)
  BY <1>1, <1>3, EndsAppend DEF Push
<1>. QED BY <1>2, <1>3

\* A page takes the first message.
LEMMA StreamTail ==
    ASSUME NEW s \in Seq(Message), StreamOK(s), s # << >>
    PROVE  Head(s) \in Message /\ Tail(s) \in Seq(Message) /\ StreamOK(Tail(s))
<1> DEFINE t == Tail(s)
<1>1. /\ DOMAIN s = 1..Len(s) /\ Len(s) \in Nat \ {0}
      /\ Head(s) \in Message /\ t \in Seq(Message)
      /\ Len(t) = Len(s) - 1
      /\ DOMAIN t = 1..(Len(s) - 1)
      /\ Head(s) = s[1]
      /\ \A i \in DOMAIN t : t[i] = s[i + 1]
  BY HeadTailProperties, LenProperties, EmptySeq
<1>2. t # << >> => 1 \in DOMAIN t /\ Head(t) = t[1]
  BY <1>1, EmptySeq
<1>. HIDE DEF t
<1>3. \A i \in DOMAIN t : t[i].type # "backlog"
  <2> TAKE i \in DOMAIN t
  <2>1. i + 1 \in DOMAIN s /\ i + 1 > 1
    BY <1>1
  <2>. QED BY <1>1, <2>1 DEF StreamOK
<1>4. FirstLive(t) = 1 /\ FirstLive(s) \in {1, 2}
  BY <1>2, <1>3 DEF FirstLive
<1>5. Len(t) - FirstLive(t) + 1 <= Capacity
  BY <1>1, <1>4, PageAssumption DEF StreamOK
<1>. QED BY <1>1, <1>3, <1>5 DEF StreamOK, t

\* A stream within the channel is as short as the type says.
LEMMA StreamLength ==
    ASSUME NEW s \in Seq(Message), StreamOK(s)
    PROVE  Len(s) <= Capacity + 1
<1>1. Len(s) \in Nat /\ FirstLive(s) \in {1, 2}
  BY LenProperties, FirstLiveProperties
<1>. QED BY <1>1, PageAssumption DEF StreamOK

-----------------------------------------------------------------------------
(* Types and streams *)

\* Every stream stays within the channel, with the backlog in front.
LEMMA StreamsNext ==
    ASSUME TypeOK, StreamsOK, [Next]_vars
    PROVE  stream' \in [Page -> Seq(Message)] /\ StreamsOK'
<1>1. \A c \in Page : stream[c] \in Seq(Message) /\ StreamOK(stream[c])
  BY DEF TypeOK, StreamsOK
<1>2. CASE UNCHANGED <<conn, stream>>
  BY <1>2 DEF TypeOK, StreamsOK
<1>3. ASSUME NEW r \in Req, AnnounceToPages(r)
      PROVE  stream' \in [Page -> Seq(Message)] /\ StreamsOK'
  <2>1. task[r].about \in Announcement
    BY <1>3 DEF AnnounceToPages, Announce, TypeOK, Task, Free
  <2>2. /\ stream' = [c \in Page |-> IF conn[c] = "open" THEN Push(stream[c], task[r].about)
                                   ELSE stream[c]]
        /\ conn' = conn
    BY <1>3 DEF AnnounceToPages, Broadcast
  <2>3. \A c \in Page : stream'[c] \in Seq(Message) /\ StreamOK(stream'[c])
    BY <1>1, <2>1, <2>2, StreamPush
  <2>. QED BY <2>2, <2>3 DEF StreamsOK
<1>4. CASE RestartAndDisconnect
  <2>1. StreamOK(<< >>)
    BY EmptySeq, PageAssumption DEF StreamOK, FirstLive
  <2>2. /\ stream' = [c \in Page |-> << >>]
        /\ \A c \in Page : conn'[c] # "subscribing"
    BY <1>4 DEF RestartAndDisconnect
  <2>. QED BY <2>1, <2>2 DEF StreamsOK
<1>5. ASSUME NEW c \in Page, EventsBacklog(c)
      PROVE  stream' \in [Page -> Seq(Message)] /\ StreamsOK'
  <2> DEFINE m == [type |-> "backlog", jobs |-> queue]
  <2>1. m \in Message
    BY DEF TypeOK, Message
  <2>2. /\ <<m>> \in Seq(Message)
        /\ Len(<<m>>) = 1
        /\ <<m>>[1] = m
        /\ Head(<<m>>) = m
    BY <2>1
  <2>3. StreamOK(<<m>>)
    <3>1. FirstLive(<<m>>) = 2
      BY <2>2 DEF FirstLive
    <3>2. DOMAIN <<m>> = {1}
      BY <2>2, LenProperties
    <3>. QED BY <2>2, <3>1, <3>2, PageAssumption DEF StreamOK
  <2>4. /\ stream' = [stream EXCEPT ![c] = <<m>>]
        /\ conn' = [conn EXCEPT ![c] = "subscribing"]
    BY <1>5 DEF EventsBacklog
  <2>. HIDE DEF m
  <2>5. m.type = "backlog"
    BY DEF m
  <2>. QED BY <1>1, <2>2, <2>3, <2>4, <2>5 DEF StreamsOK, TypeOK
<1>6. ASSUME NEW c \in Page, EventsSubscribe(c)
      PROVE  stream' \in [Page -> Seq(Message)] /\ StreamsOK'
  BY <1>6 DEF EventsSubscribe, StreamsOK, TypeOK
<1>7. ASSUME NEW c \in Page, Disconnect(c)
      PROVE  stream' \in [Page -> Seq(Message)] /\ StreamsOK'
  <2>1. StreamOK(<< >>)
    BY EmptySeq, PageAssumption DEF StreamOK, FirstLive
  <2>. QED BY <1>7, <2>1 DEF Disconnect, StreamsOK, TypeOK
<1>8. ASSUME NEW c \in Page, Receive(c)
      PROVE  stream' \in [Page -> Seq(Message)] /\ StreamsOK'
  <2>1. Tail(stream[c]) \in Seq(Message) /\ StreamOK(Tail(stream[c]))
    BY <1>1, <1>8, StreamTail DEF Receive
  <2>2. /\ stream' = [stream EXCEPT ![c] = Tail(stream[c])]
        /\ conn' = conn
        /\ conn[c] = "open"
    BY <1>8 DEF Receive
  <2>. QED BY <1>1, <2>1, <2>2 DEF StreamsOK, TypeOK
<1>9. ASSUME NEW c \in Page, NEW f \in Fetch, Open(c, f)
      PROVE  stream' \in [Page -> Seq(Message)] /\ StreamsOK'
  BY <1>9 DEF Open, StreamsOK, TypeOK
<1>10. ASSUME NEW c \in Page, NEW f \in Fetch,
              Refresh(c, f) \/ LoadServed(c, f) \/ LoadArrives(c, f) \/ LoadFails(c, f)
       PROVE  UNCHANGED <<conn, stream>>
  BY <1>10 DEF Refresh, LoadServed, LoadArrives, LoadFails
<1>11. ASSUME NEW r \in Req,
              (Change(r) /\ UNCHANGED pvars) \/ SaveUnannounced(r) \/ CancelUnannounced(r)
       PROVE  UNCHANGED <<conn, stream>>
  BY <1>11 DEF pvars, SaveUnannounced, CancelUnannounced
<1>12. CASE UNCHANGED vars
  BY <1>2, <1>12 DEF vars, pvars
<1>. QED
  BY <1>2, <1>3, <1>4, <1>5, <1>6, <1>7, <1>8, <1>9, <1>10, <1>11, <1>12
     DEF Next, QueueStep, PageStep

\* What the queue's own steps do to its variables.
LEMMA QueueTypes ==
    ASSUME queue \in SUBSET JobId, task \in [Req -> Task], QNext
    PROVE  queue' \in SUBSET JobId /\ task' \in [Req -> Task]
<1>1. ASSUME NEW r \in Req, NEW j \in JobId, Hold(r, j) \/ File(r, j) \/ Fail(r, j)
      PROVE  queue' \in SUBSET JobId /\ task' \in [Req -> Task]
  <2>1. ASSUME NEW type \in {"new_job", "gone", "job_error"}, Changed(r, type, j)
        PROVE  task' \in [Req -> Task]
    <3>1. [at |-> "save", about |-> [type |-> type, id |-> j]] \in Task
      BY DEF Task, Announcement
    <3>. QED BY <2>1, <3>1 DEF Changed
  <2>2. queue' \in SUBSET JobId
    BY <1>1 DEF Hold, File, Fail
  <2>. QED BY <1>1, <2>1, <2>2 DEF Hold, File, Fail
<1>2. ASSUME NEW r \in Req, Save(r)
      PROVE  queue' \in SUBSET JobId /\ task' \in [Req -> Task]
  <2>1. [task[r] EXCEPT !.at = "announce"] \in Task
    BY <1>2 DEF Save, Task, Free
  <2>2. task' = [task EXCEPT ![r] = [task[r] EXCEPT !.at = "announce"]]
    BY <1>2 DEF Save
  <2>3. queue' \in SUBSET JobId
    BY <1>2 DEF Save
  <2>. QED BY <2>1, <2>2, <2>3
<1>3. ASSUME NEW r \in Req, Announce(r) \/ Cancel(r)
      PROVE  queue' \in SUBSET JobId /\ task' \in [Req -> Task]
  BY <1>3 DEF Announce, Cancel, Task
<1>4. CASE Recover
  BY <1>4 DEF Recover, Task
<1>. QED BY <1>1, <1>2, <1>3, <1>4 DEF QNext, Change

\* A step of Console is one of the queue, or leaves it alone.
LEMMA QueueNext ==
    ASSUME [Next]_vars
    PROVE  [QNext]_qvars
BY DEF Next, QueueStep, PageStep, SaveUnannounced, AnnounceToPages, CancelUnannounced,
       RestartAndDisconnect, Open, EventsBacklog, EventsSubscribe, Disconnect, Receive,
       Refresh, LoadServed, LoadArrives, LoadFails, QNext, vars

\* A step of Console keeps every variable of its type.
LEMMA ConsoleTypeNext ==
    ASSUME TypeOK, StreamsOK, [Next]_vars
    PROVE  TypeOK'
<1>1. queue' \in SUBSET JobId /\ task' \in [Req -> Task]
  BY QueueNext, QueueTypes DEF TypeOK, qvars
<1>2. /\ stream' \in [Page -> Seq(Message)]
      /\ \A c \in Page : Len(stream'[c]) <= Capacity + 1
  BY StreamsNext, StreamLength DEF StreamsOK
<1>3. ASSUME NEW c \in Page, NEW f \in Fetch, Ask(c, f)
      PROVE  load' \in [Page -> [Fetch -> Load]]
  BY <1>3 DEF Ask, TypeOK, Load, Asked
<1> DEFINE Rest == /\ conn' \in [Page -> Conn]
                   /\ load' \in [Page -> [Fetch -> Load]]
                   /\ rows' \in [Page -> SUBSET JobId]
                   /\ doubt' \in [Page -> SUBSET JobId]
<1>4. ASSUME UNCHANGED <<conn, load, rows>>, doubt' \in [Page -> SUBSET JobId] PROVE Rest
  BY <1>4 DEF TypeOK
<1>5. ASSUME NEW r \in Req, Change(r), UNCHANGED pvars PROVE Rest
  BY <1>4, <1>5 DEF pvars, TypeOK
<1>6. ASSUME NEW r \in Req, SaveUnannounced(r) PROVE Rest
  BY <1>4, <1>6 DEF SaveUnannounced, TypeOK
<1>7. ASSUME NEW r \in Req, CancelUnannounced(r) PROVE Rest
  <2>1. About(task[r].about) \subseteq JobId
    BY <1>7 DEF CancelUnannounced, Cancel, TypeOK, Task, Free, Announcement, About
  <2>. QED BY <1>4, <1>7, <2>1 DEF CancelUnannounced, TypeOK
<1>8. ASSUME NEW r \in Req, AnnounceToPages(r) PROVE Rest
  <2> DEFINE m == task[r].about
  <2>1. m \in Announcement
    BY <1>8 DEF AnnounceToPages, Announce, TypeOK, Task, Free
  <2>. HIDE DEF m
  <2>2. About(m) \subseteq JobId /\ TooLate(m) \subseteq JobId
    BY <2>1 DEF Announcement, About, TooLate
  <2>3. \A c \in Page : Unheard(c, m) \subseteq JobId
    BY <2>2 DEF Unheard
  <2>4. ASSUME NEW c \in Page PROVE Skipped(c) \subseteq JobId
    <3>1. Full(stream[c]) => stream[c][FirstLive(stream[c])] \in Announcement
      BY FirstLiveProperties DEF TypeOK, StreamsOK
    <3>. QED BY <3>1 DEF Skipped, About, Announcement
  <2>5. /\ UNCHANGED <<conn, load, rows>>
        /\ doubt' = [c \in Page |-> doubt[c] \cup Unheard(c, m) \cup Skipped(c) \cup TooLate(m)]
    BY <1>8 DEF AnnounceToPages, Broadcast, m
  <2>6. \A c \in Page : doubt[c] \cup Unheard(c, m) \cup Skipped(c) \cup TooLate(m) \in SUBSET JobId
    BY <2>2, <2>3, <2>4 DEF TypeOK
  <2>. QED BY <1>4, <2>5, <2>6
<1>9. ASSUME RestartAndDisconnect PROVE Rest
  <2>1. conn' \in [Page -> Conn]
    BY <1>9 DEF RestartAndDisconnect, Conn
  <2>2. load' \in [Page -> [Fetch -> Load]]
    BY <1>9 DEF RestartAndDisconnect, TypeOK, Load, NoLoad
  <2>. QED BY <1>9, <2>1, <2>2 DEF RestartAndDisconnect, TypeOK
<1>10. ASSUME NEW c \in Page, NEW f \in Fetch, Open(c, f) \/ Refresh(c, f) PROVE Rest
  BY <1>3, <1>10 DEF Open, Refresh, TypeOK, Conn
<1>11. ASSUME NEW c \in Page, EventsBacklog(c) \/ EventsSubscribe(c) \/ Disconnect(c) PROVE Rest
  BY <1>11 DEF EventsBacklog, EventsSubscribe, Disconnect, TypeOK, Conn
<1>12. ASSUME NEW c \in Page, Receive(c) PROVE Rest
  <2> DEFINE m == Head(stream[c])
  <2>1. m \in Message
    BY <1>12, StreamTail DEF Receive, TypeOK, StreamsOK
  <2>2. /\ UNCHANGED conn
        /\ rows' = [rows EXCEPT ![c] = Applied(m, rows[c])]
        /\ doubt' = [doubt EXCEPT ![c] = doubt[c] \cup Contradicted(c, m)]
        /\ (\E f \in Fetch : Ask(c, f)) \/ UNCHANGED load
    BY <1>12 DEF Receive
  <2>. HIDE DEF m
  <2>3. Applied(m, rows[c]) \in SUBSET JobId
    BY <2>1 DEF Applied, Message, Announcement, TypeOK
  <2>4. Contradicted(c, m) \in SUBSET JobId
    <3>1. (IF m.type = "backlog" THEN JobId ELSE About(m)) \subseteq JobId
      BY <2>1 DEF About, Message, Announcement
    <3>. QED BY <3>1 DEF Contradicted
  <2>. QED BY <1>3, <2>2, <2>3, <2>4 DEF TypeOK
<1>13. ASSUME NEW c \in Page, NEW f \in Fetch, LoadServed(c, f) PROVE Rest
  BY <1>13 DEF LoadServed, TypeOK, Load
<1>14. ASSUME NEW c \in Page, NEW f \in Fetch, LoadArrives(c, f) PROVE Rest
  <2>1. load[c][f].jobs \in SUBSET JobId
    BY <1>14 DEF LoadArrives, TypeOK, Load
  <2>. QED BY <1>14, <2>1 DEF LoadArrives, TypeOK, Load, NoLoad
<1>15. ASSUME NEW c \in Page, NEW f \in Fetch, LoadFails(c, f) PROVE Rest
  BY <1>15 DEF LoadFails, TypeOK, Load, NoLoad
<1>16. ASSUME UNCHANGED vars PROVE Rest
  BY <1>16 DEF vars, pvars, TypeOK
<1>17. Rest
  <2>. HIDE DEF Rest
  <2>. QED
    BY <1>5, <1>6, <1>7, <1>8, <1>9, <1>10, <1>11, <1>12, <1>13, <1>14, <1>15, <1>16
       DEF Next, QueueStep, PageStep
<1>. QED BY <1>1, <1>2, <1>17 DEF TypeOK

-----------------------------------------------------------------------------
(* What a page will end with *)

\* The page and the job are in doubt, or right, once nothing has changed that
\* either depends on.
LEMMA SameForPage ==
    ASSUME NEW c \in Page, NEW j \in JobId, InDoubtOrRight(c, j),
           conn'[c] = conn[c], stream'[c] = stream[c], rows'[c] = rows[c],
           load'[c] = load[c], j \in doubt[c] => j \in doubt'[c],
           j \in doubt'[c] \/ (Pending(j) => Pending(j)'),
           j \in doubt'[c] \/ Pending(j)' \/ (j \in queue' <=> j \in queue)
    PROVE  InDoubtOrRight(c, j)'
<1>1. CASE j \in queue' <=> j \in queue
  <2>1. \A list : Ends(stream[c], list, j, queue) => Ends(stream[c], list, j, queue')
    BY <1>1, EndsSame
  <2>. QED BY <2>1 DEF InDoubtOrRight, Right
<1>2. CASE j \in doubt'[c] \/ Pending(j)'
  BY <1>2 DEF InDoubtOrRight
<1>. QED BY <1>1, <1>2

\* Pending depends on the task that the handlers have.
LEMMA PendingOthers ==
    ASSUME NEW r \in Req, \A q \in Req \ {r} : task'[q] = task[q], NEW j,
           task[r] # Free /\ j \in About(task[r].about)
             => task'[r] # Free /\ j \in About(task'[r].about)
    PROVE  Pending(j) => Pending(j)'
BY DEF Pending

\* A job is filed under no announcement that says that it is gone and is queued.
LEMMA GoneNext ==
    ASSUME TypeOK, GoneIsGone, [Next]_vars
    PROVE  GoneIsGone'
<1>1. ASSUME NEW r \in Req, NEW j \in JobId, Hold(r, j) PROVE GoneIsGone'
  <2>1. \A t \in Req : task[t] # Free => task[t].about.id # j
    BY <1>1 DEF Hold
  <2>2. /\ task' = [task EXCEPT ![r] = [at |-> "save",
                                       about |-> [type |-> "new_job", id |-> j]]]
        /\ queue' = queue \cup {j}
    BY <1>1 DEF Hold, Changed
  <2>. QED BY <2>1, <2>2 DEF GoneIsGone, TypeOK
<1>2. ASSUME NEW r \in Req, NEW j \in JobId, File(r, j) PROVE GoneIsGone'
  BY <1>2 DEF File, Changed, GoneIsGone, TypeOK
<1>3. ASSUME NEW r \in Req, NEW j \in JobId, Fail(r, j) PROVE GoneIsGone'
  BY <1>3 DEF Fail, Changed, GoneIsGone, TypeOK
<1>4. ASSUME NEW r \in Req, Save(r) PROVE GoneIsGone'
  <2>1. /\ task' \in [Req -> Task] /\ queue' \subseteq queue
        /\ \A q \in Req : task'[q] # Free => task[q] # Free /\ task'[q].about = task[q].about
    BY <1>4 DEF Save, TypeOK, Task, Free
  <2>. QED BY <2>1 DEF GoneIsGone
<1>5. ASSUME NEW r \in Req, Announce(r) \/ Cancel(r) PROVE GoneIsGone'
  BY <1>5 DEF Announce, Cancel, GoneIsGone, TypeOK
<1>6. CASE Recover
  BY <1>6 DEF Recover, GoneIsGone
<1>7. CASE UNCHANGED qvars
  BY <1>7 DEF qvars, GoneIsGone
<1>. QED BY <1>1, <1>2, <1>3, <1>4, <1>5, <1>6, <1>7, QueueNext DEF QNext, Change

\* A handler's change of a job leaves every page in doubt about that job until
\* it is announced, and no page about another.
LEMMA ChangeDoubt ==
    ASSUME TypeOK, InDoubtIfWrong, NEW r \in Req, Change(r), UNCHANGED pvars
    PROVE  InDoubtIfWrong'
<1>1. PICK i \in JobId : Hold(r, i) \/ File(r, i) \/ Fail(r, i)
  BY DEF Change
<1> SUFFICES ASSUME NEW c \in Page, NEW j \in JobId PROVE InDoubtOrRight(c, j)'
  BY DEF InDoubtIfWrong
<1>2. /\ task[r] = Free
      /\ \A q \in Req \ {r} : task'[q] = task[q]
  BY <1>1 DEF Hold, File, Fail, Changed, TypeOK
<1>3. Pending(j) => Pending(j)'
  BY <1>2, PendingOthers
<1>4. Pending(j)' \/ (j \in queue' <=> j \in queue)
  <2>1. ASSUME NEW type \in {"new_job", "gone"}, Changed(r, type, j) PROVE Pending(j)'
    <3>1. task'[r] = [at |-> "save", about |-> [type |-> type, id |-> j]]
      BY <2>1 DEF Changed, TypeOK
    <3>. QED BY <3>1 DEF Pending, About, Free
  <2>2. CASE Hold(r, i) \/ File(r, i)
    BY <2>1, <2>2 DEF Hold, File
  <2>3. CASE Fail(r, i)
    BY <2>3 DEF Fail
  <2>. QED BY <1>1, <2>2, <2>3
<1>. QED BY <1>3, <1>4, SameForPage DEF InDoubtIfWrong, pvars

\* What a truncation drops, every page is in doubt about.
LEMMA SaveDoubt ==
    ASSUME TypeOK, InDoubtIfWrong, NEW r \in Req, SaveUnannounced(r)
    PROVE  InDoubtIfWrong'
<1> SUFFICES ASSUME NEW c \in Page, NEW j \in JobId PROVE InDoubtOrRight(c, j)'
  BY DEF InDoubtIfWrong
<1>1. /\ task[r] # Free
      /\ task' = [task EXCEPT ![r] = [task[r] EXCEPT !.at = "announce"]]
      /\ queue' \subseteq queue
      /\ doubt' = [p \in Page |-> doubt[p] \cup (queue \ queue')]
      /\ UNCHANGED <<conn, stream, load, rows>>
  BY DEF SaveUnannounced, Save
<1>2. task'[r] # Free /\ task'[r].about = task[r].about
  BY <1>1 DEF TypeOK, Task, Free
<1>3. Pending(j) => Pending(j)'
  BY <1>1, <1>2, PendingOthers DEF TypeOK
<1>. QED BY <1>1, <1>3, SameForPage DEF InDoubtIfWrong

\* So is it about a change that is never announced.
LEMMA CancelDoubt ==
    ASSUME TypeOK, InDoubtIfWrong, NEW r \in Req, CancelUnannounced(r)
    PROVE  InDoubtIfWrong'
<1> SUFFICES ASSUME NEW c \in Page, NEW j \in JobId PROVE InDoubtOrRight(c, j)'
  BY DEF InDoubtIfWrong
<1>1. /\ task' = [task EXCEPT ![r] = Free]
      /\ queue' = queue
      /\ doubt' = [p \in Page |-> doubt[p] \cup About(task[r].about)]
      /\ UNCHANGED <<conn, stream, load, rows>>
  BY DEF CancelUnannounced, Cancel
<1>2. j \in doubt'[c] \/ (Pending(j) => Pending(j)')
  <2>1. CASE j \in About(task[r].about)
    BY <1>1, <2>1
  <2>2. CASE j \notin About(task[r].about)
    BY <1>1, <2>2, PendingOthers DEF TypeOK
  <2>. QED BY <2>1, <2>2
<1>. QED BY <1>1, <1>2, SameForPage DEF InDoubtIfWrong

\* An announcement reaches the pages that listen, and puts in doubt those that
\* do not yet, and those that have to skip another for it.
LEMMA AnnounceDoubt ==
    ASSUME TypeOK, GoneIsGone, StreamsOK, InDoubtIfWrong,
           NEW r \in Req, AnnounceToPages(r)
    PROVE  InDoubtIfWrong'
<1> DEFINE m == task[r].about
<1> SUFFICES ASSUME NEW c \in Page, NEW j \in JobId, conn[c] \in {"subscribing", "open"},
                    j \notin doubt'[c], ~Pending(j)'
             PROVE  Right(c, j)'
  BY DEF InDoubtIfWrong, InDoubtOrRight, AnnounceToPages, Broadcast
<1>1. /\ task[r] # Free /\ task' = [task EXCEPT ![r] = Free]
      /\ queue' = queue
      /\ stream' = [p \in Page |-> IF conn[p] = "open" THEN Push(stream[p], m)
                                   ELSE stream[p]]
      /\ doubt' = [p \in Page |-> doubt[p] \cup Unheard(p, m) \cup Skipped(p) \cup TooLate(m)]
      /\ UNCHANGED <<conn, load, rows>>
  BY DEF AnnounceToPages, Announce, Broadcast
<1>2. /\ m \in Announcement
      /\ m.type = "gone" => m.id \notin queue
  BY <1>1 DEF TypeOK, GoneIsGone, Task
<1>3. j \notin About(m) => ~Pending(j)
  BY <1>1, PendingOthers DEF TypeOK
<1>. HIDE DEF m
<1>4. /\ j \notin doubt[c] /\ j \notin Unheard(c, m)
      /\ j \notin Skipped(c) /\ j \notin TooLate(m)
  BY <1>1
<1>5. ~Mentions(m, j) => Right(c, j)
  BY <1>3, <1>4 DEF Mentions, InDoubtIfWrong, InDoubtOrRight
<1>6. Mentions(m, j) => (Says(m, j) <=> j \in queue)
  BY <1>2, <1>4 DEF Mentions, Says, About, TooLate, Announcement
<1>7. ASSUME NEW list, ~Mentions(m, j) => Ends(stream[c], list, j, queue)
      PROVE  Ends(stream'[c], list, j, queue')
  <2>1. stream[c] \in Seq(Message) /\ StreamOK(stream[c])
    BY DEF TypeOK, StreamsOK
  <2>2. CASE conn[c] = "open"
    <3>1. Full(stream[c]) => j \notin About(stream[c][FirstLive(stream[c])])
      BY <1>4, <2>2 DEF Skipped
    <3>2. Ends(Push(stream[c], m), list, j, queue)
      BY <1>2, <1>6, <1>7, <2>1, <3>1, EndsPush
    <3>. QED BY <1>1, <2>2, <3>2
  <2>3. CASE conn[c] = "subscribing"
    <3>1. Len(stream[c]) = 1 /\ stream[c][1].type = "backlog"
      BY <2>3 DEF StreamsOK
    <3>2. Head(stream[c]) = stream[c][1]
      BY <2>1
    <3>3. CASE Mentions(m, j)
      <4>1. j \in About(m) /\ m.type # "backlog"
        BY <1>2, <3>3 DEF Mentions, Announcement
      <4>2. Applied(m, stream[c][1].jobs) = stream[c][1].jobs
        BY <1>4, <2>3, <3>2, <4>1 DEF Unheard
      <4>3. Says(m, j) <=> j \in stream[c][1].jobs
        BY <1>2, <4>1, <4>2 DEF Says, Applied, About, Announcement
      <4>4. Says(stream[c][1], j) <=> j \in queue
        BY <1>6, <3>1, <3>3, <4>3 DEF Says
      <4>5. Ends(stream[c], list, j, queue)
        BY <2>1, <3>1, <4>4, EndsBacklog
      <4>. QED BY <1>1, <2>3, <4>5
    <3>4. CASE ~Mentions(m, j)
      BY <1>1, <1>7, <2>3, <3>4
    <3>. QED BY <3>3, <3>4
  <2>. QED BY <2>2, <2>3
<1>8. Ends(stream'[c], rows'[c], j, queue')
  BY <1>1, <1>5, <1>7 DEF Right
<1>9. ASSUME NEW f \in Fetch, load'[c][f].at = "served"
      PROVE  Ends(stream'[c], load'[c][f].jobs, j, queue')
  BY <1>1, <1>5, <1>7, <1>9 DEF Right
<1>. QED BY <1>8, <1>9 DEF Right

\* A restart closes every stream.
LEMMA RestartDoubt ==
    ASSUME RestartAndDisconnect
    PROVE  InDoubtIfWrong'
BY DEF RestartAndDisconnect, InDoubtIfWrong, InDoubtOrRight

\* A step of one page leaves the others as they are.
LEMMA OtherPages ==
    ASSUME TypeOK, InDoubtIfWrong, NEW c \in Page, UNCHANGED qvars,
           \A p \in Page \ {c} : /\ conn'[p] = conn[p] /\ stream'[p] = stream[p]
                                /\ rows'[p] = rows[p] /\ load'[p] = load[p]
                                /\ doubt'[p] = doubt[p],
           \A j \in JobId : InDoubtOrRight(c, j)'
    PROVE  InDoubtIfWrong'
<1> SUFFICES ASSUME NEW p \in Page, NEW j \in JobId, p # c
             PROVE  InDoubtOrRight(p, j)'
  BY DEF InDoubtIfWrong
<1>1. InDoubtOrRight(p, j)
  BY DEF InDoubtIfWrong
<1>2. /\ conn'[p] = conn[p] /\ stream'[p] = stream[p] /\ rows'[p] = rows[p]
      /\ load'[p] = load[p] /\ doubt'[p] = doubt[p]
  OBVIOUS
<1>3. (Pending(j) => Pending(j)') /\ queue' = queue
  BY DEF qvars, Pending
<1>. QED BY <1>1, <1>2, <1>3, SameForPage

\* A backlog is the queue as it is, and ends every doubt.
LEMMA BacklogDoubt ==
    ASSUME TypeOK, InDoubtIfWrong, NEW c \in Page, EventsBacklog(c)
    PROVE  InDoubtIfWrong'
<1> DEFINE s == <<[type |-> "backlog", jobs |-> queue]>>
<1>1. s \in Seq(Message) /\ Len(s) = 1 /\ s[1].type = "backlog" /\ s[1].jobs = queue
  BY DEF TypeOK, Message
<1>2. stream' = [stream EXCEPT ![c] = s]
  BY DEF EventsBacklog
<1>. HIDE DEF s
<1>3. \A j \in JobId : \A list : Ends(s, list, j, queue)
  BY <1>1, EndsBacklog DEF Says
<1>4. \A j \in JobId : Right(c, j)'
  BY <1>2, <1>3 DEF EventsBacklog, Right, TypeOK, qvars
<1>5. \A j \in JobId : InDoubtOrRight(c, j)'
  BY <1>4 DEF InDoubtOrRight
<1>. QED BY <1>5, OtherPages DEF EventsBacklog, TypeOK

\* Connecting and subscribing change no list and no message.
LEMMA ConnectDoubt ==
    ASSUME TypeOK, InDoubtIfWrong, NEW c \in Page,
           EventsSubscribe(c) \/ Disconnect(c) \/ \E f \in Fetch : Open(c, f)
    PROVE  InDoubtIfWrong'
<1>1. CASE EventsSubscribe(c)
  <2>1. ASSUME NEW j \in JobId PROVE InDoubtOrRight(c, j)'
    <3>1. InDoubtOrRight(c, j)
      BY DEF InDoubtIfWrong
    <3>. QED BY <1>1, <3>1 DEF EventsSubscribe, InDoubtOrRight, Right, Pending, qvars
  <2>. QED BY <1>1, <2>1, OtherPages DEF EventsSubscribe, TypeOK
<1>2. CASE Disconnect(c) \/ \E f \in Fetch : Open(c, f)
  <2>1. \A j \in JobId : InDoubtOrRight(c, j)'
    BY <1>2 DEF Disconnect, Open, InDoubtOrRight, TypeOK
  <2>2. /\ UNCHANGED qvars
        /\ \A p \in Page \ {c} : /\ conn'[p] = conn[p] /\ stream'[p] = stream[p]
                                /\ rows'[p] = rows[p] /\ load'[p] = load[p]
                                /\ doubt'[p] = doubt[p]
    BY <1>2 DEF Disconnect, Open, Ask, TypeOK
  <2>. QED BY <2>1, <2>2, OtherPages
<1>. QED BY <1>1, <1>2

\* A request for the list is no answer yet.
LEMMA AskDoubt ==
    ASSUME TypeOK, NEW c \in Page, NEW f \in Fetch, Ask(c, f)
    PROVE  /\ \A p \in Page \ {c} : load'[p] = load[p]
           /\ \A g \in Fetch : load'[c][g].at = "served" => load'[c][g] = load[c][g]
BY DEF Ask, Asked, TypeOK

\* A page that takes a message goes on to the same end, and so does an answer on
\* its way, unless the message contradicts it.
LEMMA ReceiveDoubt ==
    ASSUME TypeOK, StreamsOK, InDoubtIfWrong, NEW c \in Page, Receive(c)
    PROVE  InDoubtIfWrong'
<1> DEFINE m == Head(stream[c])
<1>1. /\ UNCHANGED <<qvars, conn>>
      /\ conn[c] = "open" /\ stream[c] # << >>
      /\ stream' = [stream EXCEPT ![c] = Tail(stream[c])]
      /\ rows' = [rows EXCEPT ![c] = Applied(m, rows[c])]
      /\ doubt' = [doubt EXCEPT ![c] = doubt[c] \cup Contradicted(c, m)]
      /\ (\E f \in Fetch : Ask(c, f)) \/ UNCHANGED load
  BY DEF Receive
<1>2. stream[c] \in Seq(Message) /\ m \in Message
  BY <1>1, StreamTail DEF TypeOK, StreamsOK
<1>3. /\ \A p \in Page \ {c} : load'[p] = load[p]
      /\ \A f \in Fetch : load'[c][f].at = "served" => load'[c][f] = load[c][f]
  BY <1>1, AskDoubt
<1>4. ASSUME NEW j \in JobId PROVE InDoubtOrRight(c, j)'
  <2> SUFFICES ASSUME j \notin doubt'[c], ~Pending(j)' PROVE Right(c, j)'
    BY DEF InDoubtOrRight
  <2>1. j \notin doubt[c] /\ j \notin Contradicted(c, m)
    BY <1>1 DEF TypeOK
  <2>2. ~Pending(j)
    BY <1>1 DEF Pending, qvars
  <2>3. Right(c, j)
    BY <1>1, <2>1, <2>2 DEF InDoubtIfWrong, InDoubtOrRight
  <2>4. stream'[c] = Tail(stream[c]) /\ rows'[c] = Applied(m, rows[c]) /\ queue' = queue
    BY <1>1 DEF TypeOK, qvars
  <2>5. j \in Applied(m, rows[c]) <=> IF Mentions(m, j) THEN Says(m, j) ELSE j \in rows[c]
    BY <1>2 DEF Applied, Mentions, Says, About, Message, Announcement
  <2>6. Ends(Tail(stream[c]), Applied(m, rows[c]), j, queue)
    BY <1>1, <1>2, <2>3, <2>5, EndsTail DEF Right
  <2>7. ASSUME NEW f \in Fetch, load'[c][f].at = "served"
        PROVE  Ends(Tail(stream[c]), load'[c][f].jobs, j, queue)
    <3> DEFINE list == load[c][f].jobs
    <3>1. load[c][f].at = "served" /\ load'[c][f].jobs = list
      BY <1>3, <2>7
    <3>2. Mentions(m, j) => (j \in list <=> j \in Applied(m, rows[c]))
      BY <2>1, <3>1 DEF Contradicted, Mentions, Differ
    <3>3. Ends(stream[c], list, j, queue)
      BY <2>3, <3>1 DEF Right
    <3>. HIDE DEF list
    <3>4. j \in list <=> IF Mentions(m, j) THEN Says(m, j) ELSE j \in list
      BY <2>5, <3>2
    <3>5. Ends(Tail(stream[c]), list, j, queue)
      BY <1>1, <1>2, <3>3, <3>4, EndsTail
    <3>. QED BY <3>1, <3>5
  <2>. QED BY <2>4, <2>6, <2>7 DEF Right
<1>. HIDE DEF m
<1>. QED BY <1>1, <1>3, <1>4, OtherPages DEF TypeOK

\* An answer is the queue as it is when it is given, and becomes the list when it
\* arrives; nothing else about the page changes meanwhile.
LEMMA LoadDoubt ==
    ASSUME TypeOK, InDoubtIfWrong, NEW c \in Page, NEW f \in Fetch,
           \/ Refresh(c, f) \/ LoadServed(c, f) \/ LoadArrives(c, f) \/ LoadFails(c, f)
    PROVE  InDoubtIfWrong'
<1>1. /\ UNCHANGED <<qvars, conn, stream, doubt>>
      /\ \A p \in Page \ {c} : load'[p] = load[p] /\ rows'[p] = rows[p]
      /\ \A g \in Fetch \ {f} : load'[c][g] = load[c][g]
  BY DEF Refresh, LoadServed, LoadArrives, LoadFails, Ask, TypeOK
<1>2. stream[c] \in Seq(Message)
  BY DEF TypeOK
<1>3. /\ \/ rows'[c] = rows[c]
         \/ load[c][f].at = "served" /\ rows'[c] = load[c][f].jobs
      /\ load'[c][f].at = "served" => load'[c][f].jobs = queue
  BY DEF Refresh, LoadServed, LoadArrives, LoadFails, Ask, TypeOK, Asked, NoLoad
<1>4. ASSUME NEW j \in JobId PROVE InDoubtOrRight(c, j)'
  <2> SUFFICES ASSUME conn[c] \in {"subscribing", "open"}, j \notin doubt[c], ~Pending(j)
               PROVE  Right(c, j)'
    BY <1>1 DEF InDoubtOrRight, Pending, qvars
  <2>1. Right(c, j)
    BY DEF InDoubtIfWrong, InDoubtOrRight
  <2>2. Ends(stream[c], rows'[c], j, queue)
    BY <1>3, <2>1 DEF Right
  <2>3. ASSUME NEW g \in Fetch, load'[c][g].at = "served"
        PROVE  Ends(stream[c], load'[c][g].jobs, j, queue)
    <3>1. CASE g = f
      <4>1. Ends(stream[c], queue, j, queue)
        BY <1>2, <2>1, EndsFresh DEF Right
      <4>. QED BY <1>3, <2>3, <3>1, <4>1
    <3>2. CASE g # f
      BY <1>1, <2>1, <2>3, <3>2 DEF Right
    <3>. QED BY <3>1, <3>2
  <2>. QED BY <1>1, <2>2, <2>3 DEF Right, qvars
<1>. QED BY <1>1, <1>4, OtherPages

-----------------------------------------------------------------------------
(* The theorems *)

\* A page that knows nothing yet is not connected.
LEMMA ConsoleInvInit == Init => ConsoleInv
<1> SUFFICES ASSUME Init PROVE ConsoleInv
  OBVIOUS
<1>1. << >> \in Seq(Message) /\ Len(<< >>) = 0 /\ StreamOK(<< >>)
  BY EmptySeq, PageAssumption DEF StreamOK, FirstLive
<1>2. TypeOK
  BY <1>1, PageAssumption DEF Init, QInit, TypeOK, Task, Conn, Load, NoLoad
<1>. QED
  BY <1>1, <1>2 DEF Init, QInit, ConsoleInv, GoneIsGone, StreamsOK, InDoubtIfWrong, InDoubtOrRight

\* Every step of the handlers, the channel and the pages keeps it.
LEMMA ConsoleInvNext == ConsoleInv /\ [Next]_vars => ConsoleInv'
<1> SUFFICES ASSUME ConsoleInv, [Next]_vars PROVE ConsoleInv'
  OBVIOUS
<1>1. TypeOK /\ GoneIsGone /\ StreamsOK /\ InDoubtIfWrong
  BY DEF ConsoleInv
<1>2. TypeOK' /\ GoneIsGone' /\ StreamsOK'
  BY <1>1, ConsoleTypeNext, GoneNext, StreamsNext
<1>3. InDoubtIfWrong'
  <2>1. CASE UNCHANGED vars
    BY <1>1, <2>1 DEF vars, pvars, qvars, InDoubtIfWrong, InDoubtOrRight, Right, Pending
  <2>2. CASE QueueStep
    BY <1>1, <2>2, ChangeDoubt, SaveDoubt, AnnounceDoubt, CancelDoubt, RestartDoubt DEF QueueStep
  <2>3. ASSUME NEW c \in Page, PageStep(c) PROVE InDoubtIfWrong'
    BY <1>1, <2>3, BacklogDoubt, ConnectDoubt, ReceiveDoubt, LoadDoubt DEF PageStep
  <2>. QED BY <2>1, <2>2, <2>3 DEF Next
<1>. QED BY <1>2, <1>3 DEF ConsoleInv

\* The console's state stays well typed; in particular no stream holds more than
\* the channel's capacity and a backlog.
THEOREM ConsoleTypeCorrect == Spec => []TypeOK
<1>1. ConsoleInv => TypeOK
  BY DEF ConsoleInv
<1>. QED BY <1>1, ConsoleInvInit, ConsoleInvNext, PTL DEF Spec

\* A page with nothing on its way shows the queue, but for the jobs that were
\* dropped by a truncation, announced as new too late, announced before it had
\* subscribed, skipped by a full channel, or contradicted by a reload.
THEOREM PageIsWrongForCause == Spec => []WrongForCause
<1>1. ConsoleInv => WrongForCause
  <2> SUFFICES ASSUME ConsoleInv, NEW c \in Page, Settled(c),
                      NEW j \in Differ(rows[c], queue), j \notin doubt[c]
               PROVE  FALSE
    BY DEF WrongForCause
  <2>1. j \in JobId
    BY DEF ConsoleInv, TypeOK, Differ
  <2>2. ~Pending(j)
    BY DEF Settled, Pending
  <2>3. Ends(stream[c], rows[c], j, queue)
    BY <2>1, <2>2 DEF ConsoleInv, InDoubtIfWrong, InDoubtOrRight, Right, Settled
  <2>4. DOMAIN stream[c] = {}
    BY DEF Settled
  <2>5. j \in rows[c] <=> j \in queue
    BY <2>3, <2>4 DEF Ends
  <2>. QED BY <2>5 DEF Differ
<1>. QED BY <1>1, ConsoleInvInit, ConsoleInvNext, PTL DEF Spec
=============================================================================
