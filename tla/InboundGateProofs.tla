------------------------- MODULE InboundGateProofs -------------------------
(***************************************************************************)
(* For any printers, lists of printers, labels and secrets: the list of a  *)
(* node's printers is a directory, whatever the console and the control    *)
(* plane do to it, and a label is refused for a named cause only.          *)
(***************************************************************************)
EXTENDS InboundGate, SequenceTheorems, FiniteSetTheorems, WellFoundedInduction, TLAPS

\* A set of positions has a smallest.
LEMMA MinOf ==
    ASSUME NEW K \in SUBSET Nat, K # {}
    PROVE  Min(K) \in K /\ \A k \in K : Min(K) <= k
<1>1. K \subseteq Nat
  OBVIOUS
<1>2. PICK x \in K : \A y \in K : ~ (<<y, x>> \in OpToRel(<, Nat))
  BY <1>1, NatLessThanWellFounded, WFMin
<1>3. \A y \in K : x <= y
  <2> TAKE y \in K
  <2>1. y \in Nat /\ x \in Nat
    BY <1>1
  <2>2. ~ (<<y, x>> \in OpToRel(<, Nat))
    BY <1>2
  <2>3. ~ (y < x)
    BY <2>1, <2>2 DEF OpToRel
  <2>. QED BY <2>1, <2>3
<1>. QED BY <1>3 DEF Min

\* Names that are the same but for case, and for blanks if both have them.
Alike(s, t) == s.name = t.name /\ (s.written = "padded" <=> t.written = "padded")

\* Trimmed names match if they are the same but for case; a padded one matches
\* padded ones only.
LEMMA SameName ==
    ASSUME NEW s \in Spelling, NEW t \in Spelling
    PROVE  /\ Trim(s) \in Spelling /\ Trim(s).name = s.name /\ Trim(s).written # "padded"
           /\ s.written # "padded" => Trim(s) = s
           /\ ToLower(s) = ToLower(t) <=> Alike(s, t)
BY DEF Spelling, Trim, ToLower, Alike

\* What matches a name, of a list.
LEMMA MatchesOf ==
    ASSUME NEW list \in Seq(Printer), NEW s \in Spelling
    PROVE  /\ Matches(list, s) \subseteq DOMAIN list
           /\ Matches(list, s) \in SUBSET Nat
           /\ \A i \in DOMAIN list : list[i] \in Printer
           /\ \A i \in DOMAIN list :
                i \in Matches(list, s) <=> Alike(list[i].name, s)
<1>1. DOMAIN list = 1..Len(list) /\ Len(list) \in Nat
  BY LenProperties
<1>2. \A i \in DOMAIN list : list[i] \in Printer /\ list[i].name \in Spelling
  <2> TAKE i \in DOMAIN list
  <2>1. list[i] \in Printer
    BY <1>1, ElementOfSeq
  <2>. QED BY <2>1 DEF Printer
<1>3. \A i \in DOMAIN list : ToLower(list[i].name) = ToLower(s) <=> Alike(list[i].name, s)
  BY <1>2, SameName
<1>. QED BY <1>1, <1>2, <1>3 DEF Matches

\* A name leads to the first printer of the list that has it, if there is one.
LEMMA FindFirst ==
    ASSUME NEW list \in Seq(Printer), NEW s \in Spelling
    PROVE  LET found == Matches(list, Trim(s))
           IN  /\ found = {} => FindPrinter(list, s) = Nowhere
               /\ \A k \in found : (\A m \in found : k <= m) =>
                     FindPrinter(list, s) = list[k].ip
               /\ found # {} => \E k \in found : \A m \in found : k <= m
<1> DEFINE found == Matches(list, Trim(s))
<1>1. found \in SUBSET Nat
  BY SameName, MatchesOf
<1>2. FindPrinter(list, s) = IF found = {} THEN Nowhere ELSE list[Min(found)].ip
  BY DEF FindPrinter
<1>. HIDE DEF found
<1>3. found # {} => Min(found) \in found /\ \A m \in found : Min(found) <= m
  BY <1>1, MinOf
<1>4. ASSUME NEW k \in found, \A m \in found : k <= m
      PROVE  FindPrinter(list, s) = list[k].ip
  <2>1. Min(found) <= k /\ k <= Min(found) /\ Min(found) \in Nat /\ k \in Nat
    BY <1>1, <1>3, <1>4
  <2>2. Min(found) = k
    BY <2>1
  <2>. QED BY <1>2, <2>2
<1>. QED BY <1>2, <1>3, <1>4 DEF found

\* It leads to an address, or nowhere if no printer has it.
LEMMA FindSomewhere ==
    ASSUME NEW list \in Seq(Printer), NEW s \in Spelling
    PROVE  /\ FindPrinter(list, s) \in Address \cup {Nowhere}
           /\ FindPrinter(list, s) = Nowhere <=> Matches(list, Trim(s)) = {}
<1> DEFINE found == Matches(list, Trim(s))
<1>1. CASE found = {}
  BY <1>1, FindFirst
<1>2. CASE found # {}
  <2>1. PICK k \in found : \A m \in found : k <= m
    BY <1>2, FindFirst
  <2>2. FindPrinter(list, s) = list[k].ip
    BY <2>1, FindFirst
  <2>3. list[k] \in Printer
    BY SameName, MatchesOf
  <2>. QED BY <1>2, <2>2, <2>3, GateAssumption DEF Printer
<1>. QED BY <1>1, <1>2

-----------------------------------------------------------------------------
(* Removing printers *)

\* Nth enumerates a finite set of positions in order.
LEMMA NthInOrder ==
    ASSUME NEW K \in SUBSET Nat, IsFiniteSet(K)
    PROVE  /\ Cardinality(K) \in Nat
           /\ \A i \in 1..Cardinality(K) : Nth(K, i) \in K
           /\ \A i, j \in 1..Cardinality(K) : i < j => Nth(K, i) < Nth(K, j)
           /\ \A k \in K : \E i \in 1..Cardinality(K) : Nth(K, i) = k
<1> DEFINE upto(k) == {m \in K : m <= k}
           n == Cardinality(K)
           rank == [k \in K |-> Cardinality(upto(k))]
<1>1. n \in Nat
  BY FS_CardinalityType
<1>2. ASSUME NEW k \in K
      PROVE  IsFiniteSet(upto(k)) /\ rank[k] \in 1..n
  <2>1. upto(k) \in SUBSET K /\ upto(k) # {}
    OBVIOUS
  <2>2. IsFiniteSet(upto(k)) /\ Cardinality(upto(k)) <= n
    BY <2>1, FS_Subset
  <2>3. Cardinality(upto(k)) \in Nat /\ Cardinality(upto(k)) # 0
    BY <2>1, <2>2, FS_CardinalityType, FS_EmptySet
  <2>. QED BY <1>1, <2>2, <2>3
<1>3. ASSUME NEW k \in K, NEW l \in K, k < l
      PROVE  rank[k] < rank[l]
  <2>1. upto(k) \in SUBSET upto(l) /\ l \in upto(l) /\ l \notin upto(k)
    <3>. HIDE DEF rank, n
    <3>1. k \in Nat /\ l \in Nat /\ \A m \in K : m \in Nat
      OBVIOUS
    <3>2. \A m \in K : m <= k => m <= l
      BY <1>3, <3>1
    <3>3. l <= l /\ ~(l <= k)
      BY <1>3, <3>1
    <3>. QED BY <3>2, <3>3
  <2>2. IsFiniteSet(upto(l))
    BY <1>2
  <2>3. rank[k] \in Nat /\ rank[l] \in Nat
    BY <1>1, <1>2
  <2>4. rank[k] = Cardinality(upto(k)) /\ rank[l] = Cardinality(upto(l))
    OBVIOUS
  <2>. HIDE DEF upto, rank
  <2>5. rank[k] <= rank[l] /\ rank[k] # rank[l]
    <3>1. upto(k) # upto(l)
      BY <2>1
    <3>. QED BY <2>1, <2>2, <2>4, <3>1, FS_Subset
  <2>. QED BY <2>3, <2>5
<1>4. rank \in Injection(K, 1..n)
  <2>1. \A k, l \in K : k # l => rank[k] # rank[l]
    <3> SUFFICES ASSUME NEW k \in K, NEW l \in K, k # l PROVE rank[k] # rank[l]
      OBVIOUS
    <3>1. k < l \/ l < k
      OBVIOUS
    <3>. QED BY <1>2, <1>3, <3>1
  <2>2. rank \in [K -> 1..n]
    BY <1>2
  <2>. HIDE DEF rank
  <2>. QED BY <2>1, <2>2 DEF Injection, IsInjective
<1>5. rank \in Surjection(K, 1..n)
  <2>1. IsFiniteSet(1..n) /\ Cardinality(1..n) = n
    BY <1>1, FS_Interval
  <2>. HIDE DEF rank
  <2>. QED BY <1>4, <2>1, FS_Injection
<1>6. ASSUME NEW i \in 1..n PROVE Nth(K, i) \in K /\ rank[Nth(K, i)] = i
  <2>1. \E k \in K : rank[k] = i
    <3>. HIDE DEF rank
    <3>. QED BY <1>5 DEF Surjection
  <2>. QED BY <2>1 DEF Nth
<1>7. ASSUME NEW k \in K PROVE Nth(K, rank[k]) = k
  <2>1. rank[k] \in 1..n
    BY <1>2
  <2>2. Nth(K, rank[k]) \in K /\ rank[Nth(K, rank[k])] = rank[k]
    BY <1>6, <2>1
  <2>. HIDE DEF rank
  <2>. QED BY <1>4, <2>2 DEF Injection, IsInjective
<1>8. ASSUME NEW i \in 1..n, NEW j \in 1..n, i < j PROVE Nth(K, i) < Nth(K, j)
  <2> DEFINE k == Nth(K, i)
             l == Nth(K, j)
  <2>1. k \in K /\ l \in K /\ rank[k] = i /\ rank[l] = j
    BY <1>6
  <2>. HIDE DEF k, l, rank
  <2>2. k # l
    BY <1>8, <2>1
  <2>3. l < k => rank[l] < rank[k]
    BY <1>3, <2>1
  <2>4. ~(l < k)
    BY <1>1, <1>8, <2>1, <2>3
  <2>5. k \in Nat /\ l \in Nat
    BY <2>1
  <2>6. k < l
    BY <2>2, <2>4, <2>5
  <2>. QED BY <2>6 DEF k, l
<1>. QED BY <1>1, <1>2, <1>6, <1>7, <1>8

\* retain keeps what does not match, in its order.
LEMMA RemovedKeeps ==
    ASSUME NEW list \in Seq(Printer), NEW s \in Spelling
    PROVE  LET kept == DOMAIN list \ Matches(list, s)
               rest == Removed(list, s)
           IN  /\ rest \in Seq(Printer)
               /\ \A i \in DOMAIN rest : Nth(kept, i) \in kept /\ rest[i] = list[Nth(kept, i)]
               /\ \A i, j \in DOMAIN rest : i < j => Nth(kept, i) < Nth(kept, j)
               /\ \A k \in kept : \E i \in DOMAIN rest : Nth(kept, i) = k
<1> DEFINE kept == DOMAIN list \ Matches(list, s)
           rest == Removed(list, s)
<1>1. /\ DOMAIN list = 1..Len(list) /\ Len(list) \in Nat
      /\ \A k \in DOMAIN list : list[k] \in Printer
  BY LenProperties, ElementOfSeq
<1>2. kept \in SUBSET Nat /\ IsFiniteSet(kept)
  <2>1. kept \in SUBSET (1..Len(list))
    BY <1>1
  <2>2. IsFiniteSet(1..Len(list))
    BY <1>1, FS_Interval
  <2>. QED BY <1>1, <2>1, <2>2, FS_Subset
<1>3. rest = [i \in 1..Cardinality(kept) |-> list[Nth(kept, i)]] /\ kept \subseteq DOMAIN list
  BY DEF Removed
<1>. HIDE DEF kept, rest
<1>4. /\ Cardinality(kept) \in Nat
      /\ \A i \in 1..Cardinality(kept) : Nth(kept, i) \in kept
      /\ \A i, j \in 1..Cardinality(kept) : i < j => Nth(kept, i) < Nth(kept, j)
      /\ \A k \in kept : \E i \in 1..Cardinality(kept) : Nth(kept, i) = k
  BY <1>2, NthInOrder
<1>5. rest \in [1..Cardinality(kept) -> Printer]
  BY <1>1, <1>3, <1>4
<1>6. rest \in Seq(Printer)
  BY <1>4, <1>5, SeqDef
<1>7. DOMAIN rest = 1..Cardinality(kept)
  BY <1>3
<1>. QED BY <1>3, <1>4, <1>6, <1>7 DEF kept, rest

\* A removal frees the name that it is given, unless that has blanks around it,
\* and leaves every other where it led.
LEMMA RemovalFrees ==
    ASSUME NEW list \in Seq(Printer), NEW s \in Spelling, NEW t \in Spelling
    PROVE  FindPrinter(Removed(list, s), t) =
             IF t.name = s.name /\ s.written # "padded" THEN Nowhere ELSE FindPrinter(list, t)
<1> DEFINE kept == DOMAIN list \ Matches(list, s)
           rest == Removed(list, s)
           u == Trim(t)
<1>1. u \in Spelling /\ u.name = t.name /\ u.written # "padded"
  BY SameName
<1>2. /\ rest \in Seq(Printer)
      /\ \A i \in DOMAIN rest : Nth(kept, i) \in kept /\ rest[i] = list[Nth(kept, i)]
      /\ \A i, j \in DOMAIN rest : i < j => Nth(kept, i) < Nth(kept, j)
      /\ \A k \in kept : \E i \in DOMAIN rest : Nth(kept, i) = k
  BY RemovedKeeps
<1>3. \A k \in DOMAIN list :
        /\ k \in Matches(list, s) <=> Alike(list[k].name, s)
        /\ k \in Matches(list, u) <=> list[k].name.name = t.name /\ list[k].name.written # "padded"
  <2> TAKE k \in DOMAIN list
  <2>1. k \in Matches(list, s) <=> Alike(list[k].name, s)
    <3>. HIDE DEF kept, rest, u
    <3>. QED BY MatchesOf
  <2>2. k \in Matches(list, u) <=> list[k].name.name = t.name /\ list[k].name.written # "padded"
    <3>. HIDE DEF u
    <3>. QED BY <1>1, MatchesOf DEF Alike
  <2>. QED BY <2>1, <2>2
<1>4. \A k \in kept : k \in DOMAIN list /\ k \notin Matches(list, s)
  OBVIOUS
<1>. HIDE DEF rest
<1>5. \A i \in DOMAIN rest :
        i \in Matches(rest, u) <=> rest[i].name.name = t.name /\ rest[i].name.written # "padded"
  BY <1>1, <1>2, MatchesOf DEF Alike
<1>. HIDE DEF u
<1>6. \A i \in DOMAIN rest : i \in Matches(rest, u) <=> Nth(kept, i) \in Matches(list, u)
  BY <1>2, <1>3, <1>4, <1>5
<1>7. Matches(rest, u) \subseteq DOMAIN rest /\ Matches(list, u) \subseteq DOMAIN list
  BY DEF Matches
<1>8. CASE t.name = s.name /\ s.written # "padded"
  <2>1. Matches(rest, u) = {}
    BY <1>2, <1>3, <1>4, <1>6, <1>7, <1>8 DEF Alike
  <2>. QED BY <1>2, <1>8, <2>1, FindFirst DEF rest, u
<1>9. CASE ~(t.name = s.name /\ s.written # "padded")
  <2>1. \A k \in Matches(list, u) : k \in kept
    <3> TAKE k \in Matches(list, u)
    <3>1. k \in DOMAIN list
      BY <1>7
    <3>2. k \notin Matches(list, s)
      BY <1>3, <1>9, <3>1 DEF Alike
    <3>. QED BY <3>1, <3>2
  <2>. HIDE DEF kept
  <2>2. CASE Matches(list, u) = {}
    <3>1. Matches(rest, u) = {}
      BY <1>6, <1>7, <2>2
    <3>. QED BY <1>2, <1>9, <2>2, <3>1, FindFirst DEF rest, u
  <2>3. CASE Matches(list, u) # {}
    <3>1. PICK k \in Matches(list, u) : \A m \in Matches(list, u) : k <= m
      BY <2>3, FindFirst DEF u
    <3>2. PICK i \in DOMAIN rest : Nth(kept, i) = k
      BY <1>2, <2>1, <3>1
    <3>3. i \in Matches(rest, u)
      BY <1>6, <3>1, <3>2
    <3>4. \A m \in Matches(rest, u) : i <= m
      <4> TAKE m \in Matches(rest, u)
      <4>1. m \in DOMAIN rest /\ k <= Nth(kept, m)
        BY <1>6, <1>7, <3>1
      <4>2. m < i => Nth(kept, m) < k
        BY <1>2, <3>2, <4>1
      <4>3. DOMAIN rest = 1..Len(rest) /\ Len(rest) \in Nat
        BY <1>2, LenProperties
      <4>4. k \in Nat /\ Nth(kept, m) \in Nat
        <5>1. DOMAIN list = 1..Len(list)
          BY LenProperties
        <5>2. Nth(kept, m) \in DOMAIN list /\ k \in DOMAIN list
          BY <1>6, <1>7, <3>1, <4>1
        <5>. QED BY <5>1, <5>2
      <4>5. ~(m < i)
        BY <4>1, <4>2, <4>4
      <4>. QED BY <3>2, <4>1, <4>3, <4>5
    <3>5. FindPrinter(rest, t) = rest[i].ip
      BY <1>2, <3>3, <3>4, FindFirst DEF u
    <3>6. FindPrinter(list, t) = list[k].ip
      BY <3>1, FindFirst DEF u
    <3>7. rest[i] = list[k]
      BY <1>2, <3>2
    <3>. QED BY <1>9, <3>5, <3>6, <3>7 DEF rest
  <2>. QED BY <2>2, <2>3
<1>. QED BY <1>8, <1>9

-----------------------------------------------------------------------------
(* Adding and changing printers *)

\* In the new list, the first of the name's printers, or an additional one, has
\* the address.
ChangedAt(new, list, p, s, a) ==
    /\ new[p] = [name |-> s, ip |-> a]
    /\ \/ /\ Matches(list, s) = {}
          /\ p = Len(list) + 1
          /\ DOMAIN new = DOMAIN list \cup {p}
       \/ /\ p \in Matches(list, s)
          /\ \A m \in Matches(list, s) : p <= m
          /\ DOMAIN new = DOMAIN list
    /\ \A i \in DOMAIN list : i # p => new[i] = list[i]

\* An upsert changes one printer of the list or adds one, with its name trimmed.
LEMMA UpsertedList ==
    ASSUME NEW list \in Seq(Printer), NEW s \in Spelling, NEW a \in Address
    PROVE  /\ Upserted(list, s, a) \in Seq(Printer)
           /\ \E p \in DOMAIN Upserted(list, s, a) :
                ChangedAt(Upserted(list, s, a), list, p, Trim(s), a)
<1> DEFINE entry == [name |-> Trim(s), ip |-> a]
           found == Matches(list, Trim(s))
           new == Upserted(list, s, a)
<1>1. entry \in Printer /\ entry = [name |-> Trim(s), ip |-> a]
  BY SameName DEF Printer
<1>2. found \in SUBSET Nat /\ found \subseteq DOMAIN list
  BY SameName, MatchesOf
<1>3. new = IF found = {} THEN Append(list, entry) ELSE [list EXCEPT ![Min(found)] = entry]
  BY DEF Upserted
<1>4. DOMAIN list = 1..Len(list) /\ Len(list) \in Nat
  BY LenProperties
<1>. HIDE DEF entry, found, new
<1>5. CASE found = {}
  <2>1. /\ new \in Seq(Printer)
        /\ DOMAIN new = 1..(Len(list) + 1)
        /\ new[Len(list) + 1] = entry
        /\ \A i \in 1..Len(list) : new[i] = list[i]
    BY <1>1, <1>3, <1>5, AppendProperties, LenProperties
  <2>2. /\ DOMAIN new = DOMAIN list \cup {Len(list) + 1}
        /\ Len(list) + 1 \in DOMAIN new
    BY <1>4, <2>1
  <2>3. ChangedAt(new, list, Len(list) + 1, Trim(s), a)
    BY <1>1, <1>4, <1>5, <2>1, <2>2 DEF found, ChangedAt
  <2>. QED BY <2>1, <2>2, <2>3 DEF new
<1>6. CASE found # {}
  <2> DEFINE p == Min(found)
  <2>1. p \in found /\ \A m \in found : p <= m
    BY <1>2, <1>6, MinOf
  <2>2. new = [list EXCEPT ![p] = entry]
    BY <1>3, <1>6
  <2>. HIDE DEF p
  <2>3. p \in DOMAIN list
    BY <1>2, <2>1
  <2>4. new \in Seq(Printer)
    BY <1>1, <1>4, <2>2, <2>3, ExceptSeq
  <2>5. DOMAIN new = DOMAIN list /\ new[p] = entry /\ \A i \in DOMAIN list : i # p => new[i] = list[i]
    BY <2>2, <2>3
  <2>6. ChangedAt(new, list, p, Trim(s), a)
    BY <1>1, <2>1, <2>3, <2>5 DEF found, ChangedAt
  <2>. QED BY <2>3, <2>4, <2>5, <2>6 DEF new
<1>. QED BY <1>5, <1>6

\* It binds the name that it is given, and leaves every other where it led.
LEMMA UpsertBinds ==
    ASSUME NEW list \in Seq(Printer), NEW s \in Spelling, NEW a \in Address, NEW t \in Spelling
    PROVE  FindPrinter(Upserted(list, s, a), t) =
             IF t.name = s.name THEN a ELSE FindPrinter(list, t)
<1> DEFINE new == Upserted(list, s, a)
           u == Trim(t)
           v == Trim(s)
<1>1. /\ u \in Spelling /\ u.name = t.name /\ u.written # "padded"
      /\ v \in Spelling /\ v.name = s.name /\ v.written # "padded"
  BY SameName
<1>2. new \in Seq(Printer)
  BY UpsertedList
<1>3. PICK p \in DOMAIN new : ChangedAt(new, list, p, v, a)
  BY UpsertedList
<1>. HIDE DEF new, u, v
<1>4. /\ Matches(list, u) \subseteq DOMAIN list
      /\ Matches(list, v) \subseteq DOMAIN list
      /\ Matches(new, u) \subseteq DOMAIN new
      /\ \A i \in DOMAIN list :
            /\ i \in Matches(list, u) <=> list[i].name.name = t.name /\ list[i].name.written # "padded"
            /\ i \in Matches(list, v) <=> list[i].name.name = s.name /\ list[i].name.written # "padded"
      /\ \A i \in DOMAIN new :
            i \in Matches(new, u) <=> new[i].name.name = t.name /\ new[i].name.written # "padded"
  <2>1. /\ Matches(list, u) \subseteq DOMAIN list
        /\ \A i \in DOMAIN list :
            i \in Matches(list, u) <=> list[i].name.name = t.name /\ list[i].name.written # "padded"
    BY <1>1, MatchesOf DEF Alike
  <2>2. /\ Matches(list, v) \subseteq DOMAIN list
        /\ \A i \in DOMAIN list :
            i \in Matches(list, v) <=> list[i].name.name = s.name /\ list[i].name.written # "padded"
    BY <1>1, MatchesOf DEF Alike
  <2>3. /\ Matches(new, u) \subseteq DOMAIN new
        /\ \A i \in DOMAIN new :
            i \in Matches(new, u) <=> new[i].name.name = t.name /\ new[i].name.written # "padded"
    BY <1>1, <1>2, MatchesOf DEF Alike
  <2>. QED BY <2>1, <2>2, <2>3
<1>5. DOMAIN list = 1..Len(list) /\ Len(list) \in Nat
  BY LenProperties
<1>6. new[p].name = v /\ new[p].ip = a
  BY <1>3 DEF ChangedAt
<1>7. CASE t.name = s.name
  <2>1. p \in Matches(new, u)
    BY <1>1, <1>3, <1>4, <1>6, <1>7
  <2>2. \A m \in Matches(new, u) : m = p \/ m \in Matches(list, v)
    BY <1>3, <1>4, <1>7 DEF ChangedAt
  <2>3. \A m \in Matches(new, u) : p <= m
    <3>1. p \in Nat
      BY <1>3, <1>4, <1>5 DEF ChangedAt
    <3>. QED BY <1>3, <2>2, <3>1 DEF ChangedAt
  <2>4. FindPrinter(new, t) = new[p].ip
    BY <1>2, <2>1, <2>3, FindFirst DEF u
  <2>. QED BY <1>6, <1>7, <2>4 DEF new
<1>8. CASE t.name # s.name
  <2>1. p \notin Matches(new, u) /\ p \notin Matches(list, u)
    <3>1. p \notin Matches(new, u)
      BY <1>1, <1>3, <1>4, <1>6, <1>8
    <3>2. p \notin Matches(list, u)
      BY <1>3, <1>4, <1>5, <1>8 DEF ChangedAt
    <3>. QED BY <3>1, <3>2
  <2>2. Matches(new, u) = Matches(list, u)
    <3>1. ASSUME NEW i \in DOMAIN new, i # p
          PROVE  i \in DOMAIN list /\ new[i] = list[i]
      BY <1>3, <1>4, <3>1 DEF ChangedAt
    <3>2. \A i \in Matches(new, u) : i \in Matches(list, u)
      BY <1>4, <2>1, <3>1
    <3>3. \A i \in Matches(list, u) : i \in DOMAIN new /\ i # p
      BY <1>3, <1>4, <2>1 DEF ChangedAt
    <3>4. \A i \in Matches(list, u) : i \in Matches(new, u)
      BY <1>4, <3>1, <3>3
    <3>. QED BY <3>2, <3>4
  <2>3. CASE Matches(list, u) = {}
    BY <1>2, <1>8, <2>2, <2>3, FindFirst DEF u, new
  <2>4. CASE Matches(list, u) # {}
    <3>1. PICK k \in Matches(list, u) : \A m \in Matches(list, u) : k <= m
      BY <2>4, FindFirst DEF u
    <3>2. FindPrinter(list, t) = list[k].ip
      BY <3>1, FindFirst DEF u
    <3>3. FindPrinter(new, t) = new[k].ip
      BY <1>2, <2>2, <3>1, FindFirst DEF u
    <3>4. new[k] = list[k]
      BY <1>3, <1>4, <2>1, <3>1 DEF ChangedAt
    <3>. QED BY <1>8, <3>2, <3>3, <3>4 DEF new
  <2>. QED BY <2>3, <2>4
<1>. QED BY <1>7, <1>8

-----------------------------------------------------------------------------
(* The list is a directory *)

\* The lookup leads n to a, and every other name where it led.
Leads(new, old, n, a) ==
    \A t \in Spelling : FindPrinter(new, t) = IF t.name = n THEN a ELSE FindPrinter(old, t)

\* A directory that follows a list in which one name may have changed.
LEMMA DirectoryEdited ==
    ASSUME NEW old \in Seq(Printer), NEW new \in Seq(Printer), NEW n \in Name, NEW a,
           Leads(new, old, n, a)
    PROVE  Directory(new) = [Directory(old) EXCEPT ![n] = a]
<1>1. \A k \in Name : [name |-> k, written |-> "as is"] \in Spelling
  BY DEF Spelling
<1>2. \A k \in Name : FindPrinter(new, [name |-> k, written |-> "as is"])
         = IF k = n THEN a ELSE FindPrinter(old, [name |-> k, written |-> "as is"])
  BY <1>1 DEF Leads
<1>. QED BY <1>2 DEF Directory

\* A directory leads every name to an address or nowhere.
LEMMA DirectoryType ==
    ASSUME NEW list \in Seq(Printer)
    PROVE  Directory(list) \in [Name -> Address \cup {Nowhere}]
<1>1. \A k \in Name : [name |-> k, written |-> "as is"] \in Spelling
  BY DEF Spelling
<1>2. \A k \in Name : FindPrinter(list, [name |-> k, written |-> "as is"]) \in Address \cup {Nowhere}
  BY <1>1, FindSomewhere
<1>. QED BY <1>2 DEF Directory

\* Trimming makes no difference to the lookup, and it disregards case.
LEMMA FindsPlain ==
    ASSUME NEW list \in Seq(Printer), NEW s \in Spelling
    PROVE  FindPrinter(list, s) = Directory(list)[s.name]
<1> DEFINE p == [name |-> s.name, written |-> "as is"]
<1>1. p \in Spelling /\ s.name \in Name
  BY DEF Spelling
<1>2. ToLower(Trim(s)) = ToLower(Trim(p))
  BY <1>1, SameName DEF Alike
<1>3. FindPrinter(list, s) = FindPrinter(list, p)
  BY <1>2 DEF FindPrinter, Matches
<1>. QED BY <1>1, <1>3 DEF Directory

-----------------------------------------------------------------------------
(* Types *)

\* The type invariant holds at the start.
LEMMA GateTypeInit == Init => TypeOK
<1> SUFFICES ASSUME Init PROVE TypeOK
  OBVIOUS
<1>1. PICK x \in Secret :
        /\ node_config = [version |-> 1, printers |-> << >>, secret |-> x]
        /\ inbound_secret = x
        /\ d365 = [version |-> 1, secret |-> x]
  BY DEF Init
<1>2. 1 \in 1..MaxVersion /\ 0 \in 0..MaxRestarts
  BY GateAssumption
<1>3. node_config \in Config
  BY <1>1, <1>2, GateAssumption DEF Config
<1>4. d365 \in [version : 1..MaxVersion, secret : Secret \cup {NoSecret}]
  BY <1>1, <1>2
<1>5. printers \in Seq(Printer)
  BY EmptySeq DEF Init
<1>. QED BY <1>1, <1>2, <1>3, <1>4, <1>5 DEF Init, TypeOK, Post

\* A printer that is looked for has a name.
LEMMA AdmittedName ==
    ASSUME TypeOK, NEW l \in Label, Complete(l)
    PROVE  PrinterOf(l) \in Spelling
BY GateAssumption DEF TypeOK, Label, Complete, PrinterOf

\* Every step keeps every variable of its type; the list of the printers is the
\* one of the configuration until the console has edited it.
LEMMA GateTypeNext == TypeOK /\ [Next]_vars => TypeOK'
<1> SUFFICES ASSUME TypeOK, [Next]_vars PROVE TypeOK'
  OBVIOUS
<1>. USE DEF TypeOK
<1>1. node_config.printers \in Seq(Printer) /\ cached.printers \in Seq(Printer)
  BY GateAssumption DEF Config
<1>2. CASE UpdateConfig
  <2>1. PICK list \in ConfigLists, x \in Secret \cup {NoSecret} :
          node_config' = [version |-> node_config.version + 1, printers |-> list, secret |-> x]
    BY <1>2 DEF UpdateConfig
  <2>2. node_config.version + 1 \in 1..MaxVersion
    BY <1>2, GateAssumption DEF UpdateConfig, Config
  <2>3. node_config' \in Config
    BY <2>1, <2>2 DEF Config
  <2>. QED BY <1>2, <2>3 DEF UpdateConfig, env, node
<1>3. CASE SetUpD365
  <2>1. d365' \in [version : 1..MaxVersion, secret : Secret \cup {NoSecret}]
    BY <1>3 DEF SetUpD365, Config
  <2>. QED BY <1>3, <2>1 DEF SetUpD365, env, node
<1>4. CASE ApplyConfig
  <2>1. inbound_secret' \in Secret \cup {NoSecret}
    BY <1>4 DEF ApplyConfig, Overlaid, Config
  <2>. QED BY <1>1, <1>4, <2>1 DEF ApplyConfig, env, others
<1>5. CASE Restart
  <2>1. inbound_secret' \in Secret \cup {NoSecret}
    BY <1>5 DEF Restart, Overlaid, Config
  <2>2. restarts' \in 0..MaxRestarts
    BY <1>5, GateAssumption DEF Restart
  <2>. QED BY <1>1, <1>5, <2>1, <2>2 DEF Restart, env, others, Post
<1>6. ASSUME NEW x \in Spelling, RemovePrinter(x) PROVE TypeOK'
  <2>1. printers' \in Seq(Printer)
    BY <1>6, RemovedKeeps DEF RemovePrinter
  <2>2. FindPrinter(printers, x) \in Address \cup {Nowhere} /\ x.name \in Name
    BY FindSomewhere DEF Spelling
  <2>3. edit' \in Name \X (Address \cup {Nowhere}) /\ edit' # << >>
    BY <1>6, <2>2 DEF RemovePrinter
  <2>. QED BY <1>6, <2>1, <2>3 DEF RemovePrinter, env, others
<1>7. ASSUME NEW e \in Entered, UpsertPrinter(e[1], e[2]) PROVE TypeOK'
  <2>1. e[1] \in Spelling /\ e[2] \in Address
    BY GateAssumption
  <2>2. printers' \in Seq(Printer)
    BY <1>7, <2>1, UpsertedList DEF UpsertPrinter
  <2>3. edit' \in Name \X (Address \cup {Nowhere}) /\ edit' # << >>
    BY <1>7, <2>1 DEF UpsertPrinter, Spelling
  <2>. QED BY <1>7, <2>2, <2>3 DEF UpsertPrinter, env, others
<1>8. ASSUME post' \in Post, UNCHANGED <<env, others, node, restarts>> PROVE TypeOK'
  BY <1>8 DEF env, others, node
<1>9. ASSUME NEW from, from.version \in 1..MaxVersion, from.secret \in Secret \cup {NoSecret},
             NEW our_site \in BOOLEAN, NEW body \in Body, NEW name \in Named,
             Send(from, our_site, body, name)
      PROVE  TypeOK'
  <2>1. [version |-> from.version, secret |-> from.secret, our_site |-> our_site,
         body |-> body, printer |-> name] \in Label
    BY <1>9 DEF Label
  <2>2. post' \in Post
    BY <1>9, <2>1 DEF Send, Post
  <2>. QED BY <1>8, <1>9, <2>2 DEF Send
<1>10. CASE SendLabel
  BY <1>9, <1>10 DEF SendLabel
<1>11. CASE TestPrint
  <2>1. FALSE \in BOOLEAN /\ "text" \in Body
    BY DEF Body
  <2>2. node_config.version \in 1..MaxVersion /\ node_config.secret \in Secret \cup {NoSecret}
    BY DEF Config
  <2>. QED BY <1>9, <1>11, <2>1, <2>2 DEF TestPrint
<1>12. CASE Authenticate
  <2> DEFINE l == post.label
  <2>1. l \in Label /\ l.version \in 1..MaxVersion
    BY <1>12 DEF Authenticate, Post, NoPost, Label
  <2>2. post' \in Post
    BY <1>12, <2>1, AdmittedName DEF Authenticate, Refuse, Post
  <2>. QED BY <1>8, <1>12, <2>2 DEF Authenticate
<1>13. CASE LookUp
  <2>1. post.printer \in Spelling
    BY <1>13 DEF LookUp, Post, NoPost
  <2>2. post' \in Post
    BY <1>13, <2>1, FindSomewhere DEF LookUp, Refuse, Post
  <2>. QED BY <1>8, <1>13, <2>2 DEF LookUp
<1>14. CASE Answer
  BY <1>8, <1>14 DEF Answer, Post
<1>15. CASE UNCHANGED vars
  BY <1>15 DEF vars, env, others, node
<1>. QED
  BY <1>2, <1>3, <1>4, <1>5, <1>6, <1>7, <1>10, <1>11, <1>12, <1>13, <1>14, <1>15 DEF Next

-----------------------------------------------------------------------------
(* What the console lists *)

\* Names are trimmed, and differ in more than case.
OneEach(list) ==
    /\ \A i \in DOMAIN list : list[i].name.written # "padded"
    /\ \A i, j \in DOMAIN list : list[i].name.name = list[j].name.name => i = j

\* The printers of a clean configuration, edited or not.
ListInv == Clean(cached.printers) => OneEach(printers)

\* A clean list has one printer for each name.
LEMMA CleanList ==
    ASSUME NEW list \in Seq(Printer), Clean(list)
    PROVE  OneEach(list)
<1>1. \A i \in DOMAIN list : list[i].name \in Spelling
  <2>1. \A i \in DOMAIN list : list[i] \in Printer
    BY LenProperties, ElementOfSeq
  <2>. QED BY <2>1 DEF Printer
<1>2. ASSUME NEW i \in DOMAIN list, NEW j \in DOMAIN list,
             list[i].name.name = list[j].name.name
      PROVE  i = j
  <2>1. Matches(list, list[j].name) = {j}
    BY DEF Clean
  <2>2. Alike(list[i].name, list[j].name)
    BY <1>2 DEF Clean, Alike
  <2>3. i \in Matches(list, list[j].name)
    BY <1>1, <2>2, MatchesOf
  <2>. QED BY <2>1, <2>3
<1>. QED BY <1>2 DEF OneEach, Clean

\* Edits of the console keep it so.
LEMMA ListInvNext == TypeOK /\ ListInv /\ [Next]_vars => ListInv'
<1> SUFFICES ASSUME TypeOK, ListInv, [Next]_vars PROVE ListInv'
  OBVIOUS
<1>1. printers \in Seq(Printer) /\ node_config.printers \in Seq(Printer) /\ cached.printers \in Seq(Printer)
  BY GateAssumption DEF TypeOK, Config
<1>2. CASE ApplyConfig \/ Restart
  <2>1. printers' = cached'.printers /\ printers' \in Seq(Printer)
    BY <1>1, <1>2 DEF ApplyConfig, Restart
  <2>. QED BY <2>1, CleanList DEF ListInv
<1>3. ASSUME NEW x \in Spelling, RemovePrinter(x) PROVE ListInv'
  <2> DEFINE kept == DOMAIN printers \ Matches(printers, x)
             rest == Removed(printers, x)
  <2>1. printers' = rest /\ cached' = cached
    BY <1>3 DEF RemovePrinter
  <2>2. /\ \A i \in DOMAIN rest : Nth(kept, i) \in kept /\ rest[i] = printers[Nth(kept, i)]
        /\ \A i, j \in DOMAIN rest : i < j => Nth(kept, i) < Nth(kept, j)
        /\ rest \in Seq(Printer)
    BY <1>1, RemovedKeeps
  <2>3. kept \subseteq DOMAIN printers
    OBVIOUS
  <2>. HIDE DEF kept, rest
  <2>4. ASSUME OneEach(printers) PROVE OneEach(rest)
    <3>1. \A i \in DOMAIN rest : rest[i].name.written # "padded"
      BY <2>2, <2>3, <2>4 DEF OneEach
    <3>2. ASSUME NEW i \in DOMAIN rest, NEW j \in DOMAIN rest,
                 rest[i].name.name = rest[j].name.name
          PROVE  i = j
      <4>1. Nth(kept, i) = Nth(kept, j)
        BY <2>2, <2>3, <2>4, <3>2 DEF OneEach
      <4>2. i \in Nat /\ j \in Nat /\ Nth(kept, i) \in Nat
        <5>1. DOMAIN rest = 1..Len(rest) /\ DOMAIN printers = 1..Len(printers)
          BY <1>1, <2>2, LenProperties
        <5>2. Nth(kept, i) \in 1..Len(printers)
          BY <2>2, <2>3, <5>1
        <5>. QED BY <5>1, <5>2
      <4>3. ~(i < j) /\ ~(j < i)
        BY <2>2, <4>1, <4>2
      <4>. QED BY <4>2, <4>3
    <3>. QED BY <3>1, <3>2 DEF OneEach
  <2>. QED BY <2>1, <2>4 DEF ListInv
<1>4. ASSUME NEW e \in Entered, UpsertPrinter(e[1], e[2]) PROVE ListInv'
  <2> DEFINE x == e[1]
             v == Trim(x)
  <2>1. x \in Spelling /\ e[2] \in Address
    BY GateAssumption
  <2>2. v \in Spelling /\ v.name = x.name /\ v.written # "padded"
    BY <2>1, SameName
  <2>3. printers' = Upserted(printers, x, e[2]) /\ cached' = cached
    BY <1>4 DEF UpsertPrinter
  <2>4. PICK p \in DOMAIN printers' : ChangedAt(printers', printers, p, v, e[2])
    BY <1>1, <2>1, <2>3, UpsertedList
  <2>. HIDE DEF x, v
  <2>5. /\ Matches(printers, v) \subseteq DOMAIN printers
        /\ \A i \in DOMAIN printers :
              i \in Matches(printers, v)
                <=> printers[i].name.name = v.name /\ printers[i].name.written # "padded"
    BY <1>1, <2>2, MatchesOf DEF Alike
  <2>6. ASSUME OneEach(printers) PROVE OneEach(printers')
    <3>1. \A i \in DOMAIN printers' : i # p => i \in DOMAIN printers /\ printers'[i] = printers[i]
      BY <2>4, <2>5 DEF ChangedAt
    <3>2. printers'[p].name = v
      BY <2>4 DEF ChangedAt
    <3>3. \A i \in DOMAIN printers : i # p => printers[i].name.name # v.name
      BY <2>4, <2>5, <2>6 DEF ChangedAt, OneEach
    <3>4. \A i \in DOMAIN printers' : printers'[i].name.written # "padded"
      BY <2>2, <2>6, <3>1, <3>2 DEF OneEach
    <3>5. ASSUME NEW i \in DOMAIN printers', NEW j \in DOMAIN printers',
                 printers'[i].name.name = printers'[j].name.name
          PROVE  i = j
      <4>1. CASE i = p \/ j = p
        BY <3>1, <3>2, <3>3, <3>5, <4>1
      <4>2. CASE i # p /\ j # p
        BY <2>6, <3>1, <3>5, <4>2 DEF OneEach
      <4>. QED BY <4>1, <4>2
    <3>. QED BY <3>4, <3>5 DEF OneEach
  <2>. QED BY <2>3, <2>6 DEF ListInv
<1>5. CASE UNCHANGED <<cached, printers>>
  BY <1>5 DEF ListInv
<1>6. CASE UpdateConfig \/ SetUpD365 \/ SendLabel \/ TestPrint \/ Authenticate \/ LookUp
             \/ Answer \/ UNCHANGED vars
  BY <1>5, <1>6 DEF UpdateConfig, SetUpD365, SendLabel, TestPrint, Send, Authenticate, LookUp,
                    Answer, vars, node
<1>. QED BY <1>2, <1>3, <1>4, <1>6 DEF Next

-----------------------------------------------------------------------------
(* Whose secret *)

\* Who has the same version has the same secret.
SameRow(x, y) == x.version = y.version => x.secret = y.secret

\* No version is newer than the row's.
Issued(x) == x.version <= node_config.version /\ SameRow(x, node_config)

RowInv ==
    /\ Issued(d365) /\ Issued(cached) /\ SameRow(d365, cached)
    /\ post.at = "sent" =>
         /\ Issued(post.label) /\ SameRow(post.label, cached)

\* The node runs with the secret of its configuration, if that has one.
InForce == cached.secret # NoSecret => inbound_secret = cached.secret

\* The parts of a version stay together.
LEMMA RowInvNext == TypeOK /\ RowInv /\ InForce /\ [Next]_vars => RowInv' /\ InForce'
<1> SUFFICES ASSUME TypeOK, RowInv, InForce, [Next]_vars PROVE RowInv' /\ InForce'
  OBVIOUS
<1>1. /\ node_config.version \in Nat /\ cached.version \in Nat /\ d365.version \in Nat
      /\ post.at = "sent" => post.label.version \in Nat
  BY DEF TypeOK, Config, Post, NoPost, Label
<1>2. CASE UpdateConfig
  <2>1. node_config'.version = node_config.version + 1
    BY <1>2 DEF UpdateConfig
  <2>. QED BY <1>1, <1>2, <2>1 DEF UpdateConfig, RowInv, InForce, Issued, SameRow, node
<1>3. CASE SetUpD365
  <2>1. d365'.version = node_config.version /\ d365'.secret = node_config.secret
    BY <1>3 DEF SetUpD365
  <2>. QED BY <1>1, <1>3, <2>1 DEF SetUpD365, RowInv, InForce, Issued, SameRow, node
<1>4. CASE ApplyConfig
  BY <1>1, <1>4 DEF ApplyConfig, Overlaid, RowInv, InForce, Issued, SameRow, others
<1>5. CASE Restart
  BY <1>5 DEF Restart, Overlaid, RowInv, InForce, Issued, SameRow, others, NoPost
<1>6. ASSUME UNCHANGED <<others, cached, inbound_secret, post>> PROVE RowInv' /\ InForce'
  BY <1>6 DEF RowInv, InForce, Issued, SameRow, others
<1>7. ASSUME NEW x \in Spelling, RemovePrinter(x) PROVE RowInv' /\ InForce'
  BY <1>6, <1>7 DEF RemovePrinter
<1>8. ASSUME NEW e \in Entered, UpsertPrinter(e[1], e[2]) PROVE RowInv' /\ InForce'
  BY <1>6, <1>8 DEF UpsertPrinter
<1>9. ASSUME NEW from, Issued(from), SameRow(from, cached),
             NEW our_site, NEW body, NEW name, Send(from, our_site, body, name)
      PROVE  RowInv' /\ InForce'
  <2>1. post'.label.version = from.version /\ post'.label.secret = from.secret
    BY <1>9 DEF Send
  <2>. QED BY <1>9, <2>1 DEF Send, RowInv, InForce, Issued, SameRow, others, node
<1>10. CASE SendLabel
  BY <1>9, <1>10 DEF SendLabel, RowInv
<1>11. CASE TestPrint
  <2>1. Issued(node_config) /\ SameRow(node_config, cached)
    BY <1>1 DEF RowInv, Issued, SameRow
  <2>. QED BY <1>9, <1>11, <2>1 DEF TestPrint
<1>12. CASE Authenticate \/ LookUp \/ Answer
  <2>1. post'.at # "sent"
    BY <1>12 DEF Authenticate, LookUp, Answer, Refuse, NoPost
  <2>2. UNCHANGED <<others, cached, inbound_secret>>
    BY <1>12 DEF Authenticate, LookUp, Answer, node
  <2>. QED BY <2>1, <2>2 DEF RowInv, InForce, Issued, SameRow, others
<1>13. CASE UNCHANGED vars
  BY <1>6, <1>13 DEF vars, node
<1>. QED
  BY <1>2, <1>3, <1>4, <1>5, <1>7, <1>8, <1>10, <1>11, <1>12, <1>13 DEF Next

-----------------------------------------------------------------------------
(* The theorems *)

GateInv == TypeOK /\ ListInv /\ RowInv /\ InForce

\* A node starts enrolled, without printers.
LEMMA GateInvInit == Init => GateInv
<1> SUFFICES ASSUME Init PROVE GateInv
  OBVIOUS
<1>1. ListInv
  BY EmptySeq DEF Init, ListInv, OneEach
<1>2. RowInv /\ InForce
  BY DEF Init, RowInv, InForce, Issued, SameRow, NoPost
<1>. QED BY <1>1, <1>2, GateTypeInit DEF GateInv

\* Every step keeps the invariant.
LEMMA GateInvNext == GateInv /\ [Next]_vars => GateInv'
BY GateTypeNext, ListInvNext, RowInvNext DEF GateInv

\* The gate's state stays well typed; in particular the printers are those of the
\* configuration until the console has edited one.
THEOREM GateTypeCorrect == Spec => []TypeOK
<1>1. GateInv => TypeOK
  BY DEF GateInv
<1>. QED BY <1>1, GateInvInit, GateInvNext, PTL DEF Spec

\* Every printer that the console lists is the one that a label for its name is
\* printed on, unless the control plane has sent names that are not clean.
THEOREM ListedPrintersAreFound == Spec => []ListedIsFound
<1>1. GateInv => ListedIsFound
  <2> SUFFICES ASSUME GateInv, Clean(cached.printers), NEW i \in DOMAIN printers
               PROVE  FindPrinter(printers, printers[i].name) = printers[i].ip
    BY DEF ListedIsFound
  <2> DEFINE s == printers[i].name
             u == Trim(s)
  <2>1. printers \in Seq(Printer) /\ OneEach(printers)
    BY DEF GateInv, TypeOK, ListInv
  <2>2. s \in Spelling
    <3>1. printers[i] \in Printer
      BY <2>1, LenProperties, ElementOfSeq
    <3>. QED BY <3>1 DEF Printer
  <2>3. u = s /\ s.written # "padded"
    BY <2>1, <2>2, SameName DEF OneEach
  <2>4. /\ Matches(printers, s) \subseteq DOMAIN printers
        /\ \A k \in DOMAIN printers : k \in Matches(printers, s) <=> Alike(printers[k].name, s)
    BY <2>1, <2>2, MatchesOf
  <2>5. i \in Matches(printers, s)
    BY <2>4 DEF Alike
  <2>6. \A k \in Matches(printers, s) : k = i
    BY <2>1, <2>4 DEF Alike, OneEach
  <2>7. i \in Nat
    BY <2>1, LenProperties
  <2>. QED BY <2>1, <2>2, <2>3, <2>5, <2>6, <2>7, FindFirst
<1>. QED BY <1>1, GateInvInit, GateInvNext, PTL DEF Spec

\* A label whose sender and node are at the same version of the configuration is
\* admitted, and one for a listed printer finds it.
LEMMA StepRefuses ==
    ASSUME GateInv
    PROVE  /\ LET l == post.label
              IN  Authenticate /\ l.version = cached.version /\ l.secret # NoSecret
                    /\ SiteOk(l) /\ Complete(l) => post'.at = "admitted"
           /\ LookUp /\ post.version = cached.version /\ edit = << >> /\ Listed(post.printer)
                => post'.at = "accepted"
<1>1. ASSUME Authenticate, post.label.version = cached.version, post.label.secret # NoSecret,
             SiteOk(post.label), Complete(post.label)
      PROVE  post'.at = "admitted"
  <2>1. post.label.secret = cached.secret
    BY <1>1 DEF GateInv, RowInv, SameRow, Authenticate
  <2>2. SecretOk(post.label)
    BY <1>1, <2>1 DEF GateInv, InForce, SecretOk
  <2>. QED BY <1>1, <2>2 DEF Authenticate
<1>2. ASSUME LookUp, edit = << >>, Listed(post.printer)
      PROVE  post'.at = "accepted"
  <2> DEFINE u == Trim(post.printer)
  <2>1. printers = cached.printers /\ printers \in Seq(Printer)
    BY <1>2 DEF GateInv, TypeOK
  <2>2. post.printer \in Spelling
    BY <1>2 DEF GateInv, TypeOK, LookUp, Post, NoPost
  <2>3. PICK i \in DOMAIN printers : ToLower(u) = ToLower(printers[i].name)
    BY <1>2, <2>1 DEF Listed
  <2>4. i \in Matches(printers, u)
    BY <2>3 DEF Matches
  <2>5. FindPrinter(printers, post.printer) # Nowhere
    BY <2>1, <2>2, <2>4, FindSomewhere
  <2>. QED BY <1>2, <2>5 DEF LookUp
<1>. QED BY <1>1, <1>2

\* A label is refused only if sender and node are at different versions, the row
\* has no secret, the label is for another site or incomplete, or its printer is
\* not listed or not listed any more.
THEOREM LabelsAreRefusedForCause == Spec => RefusedForCause
<1>1. GateInv /\ [Next]_vars =>
        [/\ LET l == post.label
            IN  Authenticate /\ l.version = cached.version /\ l.secret # NoSecret
                    /\ SiteOk(l) /\ Complete(l) => post'.at = "admitted"
         /\ LookUp /\ post.version = cached.version /\ edit = << >> /\ Listed(post.printer)
                => post'.at = "accepted"]_vars
  BY StepRefuses
<1>. QED BY <1>1, GateInvInit, GateInvNext, PTL DEF Spec, RefusedForCause

\* A step on the printers is an edit of one name or a replacement; nothing else
\* is seen of the directory.
LEMMA DirectoryNext == GateInv /\ [Next]_vars => [Dir!Next]_(Dir!vars)
<1> SUFFICES ASSUME GateInv, [Next]_vars PROVE Dir!Next \/ UNCHANGED Dir!vars
  OBVIOUS
<1>1. TypeOK /\ printers \in Seq(Printer)
  BY DEF GateInv, TypeOK
<1>2. /\ cached.version \in Nat /\ node_config.version \in Nat /\ restarts \in Nat
      /\ node_config.printers \in Seq(Printer) /\ cached.printers \in Seq(Printer)
  BY <1>1, GateAssumption DEF TypeOK, Config
<1>3. CASE ApplyConfig \/ Restart
  <2>1. printers' \in Seq(Printer) /\ edit' = << >>
    BY <1>2, <1>3 DEF ApplyConfig, Restart
  <2>2. Directory(printers)' \in [Name -> Address \cup {Nowhere}]
    <3>1. Directory(printers') \in [Name -> Address \cup {Nowhere}]
      BY <2>1, DirectoryType
    <3>. QED BY <3>1 DEF Directory
  <2>3. (cached.version - 1 + restarts)' > cached.version - 1 + restarts
    <3>1. CASE ApplyConfig
      BY <1>2, <3>1 DEF ApplyConfig
    <3>2. CASE Restart
      BY <1>2, <3>2 DEF Restart
    <3>. QED BY <1>3, <3>1, <3>2
  <2>. QED BY <2>1, <2>2, <2>3 DEF Dir!Next, Dir!Replace
<1>4. ASSUME NEW x \in Spelling, RemovePrinter(x) PROVE Dir!Next
  <2> DEFINE a == IF x.written = "padded" THEN FindPrinter(printers, x) ELSE Nowhere
  <2>1. Trim(x) = x <=> x.written # "padded"
    BY SameName
  <2>2. printers' = Removed(printers, x) /\ edit' = <<x.name, a>>
        /\ UNCHANGED <<cached, restarts>>
    BY <1>4, <2>1 DEF RemovePrinter
  <2>3. a \in Address \cup {Nowhere} /\ x.name \in Name
    BY <1>1, FindSomewhere DEF Spelling
  <2>4. Removed(printers, x) \in Seq(Printer)
    BY <1>1, RemovedKeeps
  <2>5. Leads(Removed(printers, x), printers, x.name, a)
    <3>1. \A t \in Spelling : t.name = x.name => FindPrinter(printers, t) = FindPrinter(printers, x)
      BY <1>1, FindsPlain
    <3>. QED BY <1>1, <3>1, RemovalFrees DEF Leads
  <2>. HIDE DEF a
  <2>6. Directory(Removed(printers, x)) = [Directory(printers) EXCEPT ![x.name] = a]
    BY <1>1, <2>3, <2>4, <2>5, DirectoryEdited
  <2>7. Directory(printers)' = [Directory(printers) EXCEPT ![x.name] = a]
    BY <2>2, <2>6 DEF Directory
  <2>. QED BY <2>2, <2>3, <2>7 DEF Dir!Next, Dir!Edit
<1>5. ASSUME NEW e \in Entered, UpsertPrinter(e[1], e[2]) PROVE Dir!Next
  <2> DEFINE x == e[1]
             a == e[2]
  <2>1. x \in Spelling /\ a \in Address /\ x.name \in Name
    BY GateAssumption DEF Spelling
  <2>2. printers' = Upserted(printers, x, a) /\ edit' = <<x.name, a>>
        /\ UNCHANGED <<cached, restarts>>
    BY <1>5 DEF UpsertPrinter
  <2>. HIDE DEF x, a
  <2>3. Upserted(printers, x, a) \in Seq(Printer)
    BY <1>1, <2>1, UpsertedList
  <2>4. Leads(Upserted(printers, x, a), printers, x.name, a)
    BY <1>1, <2>1, UpsertBinds DEF Leads
  <2>5. Directory(Upserted(printers, x, a)) = [Directory(printers) EXCEPT ![x.name] = a]
    BY <1>1, <2>1, <2>3, <2>4, DirectoryEdited
  <2>6. Directory(printers)' = [Directory(printers) EXCEPT ![x.name] = a]
    BY <2>2, <2>5 DEF Directory
  <2>. QED BY <2>1, <2>2, <2>6 DEF Dir!Next, Dir!Edit
<1>6. ASSUME UNCHANGED <<cached, printers, edit, restarts>> PROVE UNCHANGED Dir!vars
  BY <1>6 DEF Dir!vars, Directory
<1>7. CASE UpdateConfig \/ SetUpD365 \/ SendLabel \/ TestPrint \/ Authenticate \/ LookUp
             \/ Answer \/ UNCHANGED vars
  BY <1>6, <1>7 DEF UpdateConfig, SetUpD365, SendLabel, TestPrint, Send, Authenticate, LookUp,
                    Answer, vars, node
<1>. QED BY <1>3, <1>4, <1>5, <1>7 DEF Next

\* The list of the printers, in which lookup, upsert, retain and the control plane
\* compare names in four ways, implements a directory.
THEOREM PrintersAreADirectory == Spec => ImplementsDirectory
<1>1. Init => Dir!Init
  <2> SUFFICES ASSUME Init PROVE Dir!Init
    OBVIOUS
  <2>1. printers \in Seq(Printer) /\ edit = << >> /\ restarts = 0 /\ cached.version = 1
    BY EmptySeq DEF Init
  <2>2. Directory(printers) \in [Name -> Address \cup {Nowhere}]
    BY <2>1, DirectoryType
  <2>. QED BY <2>1, <2>2 DEF Dir!Init
<1>. QED BY <1>1, GateInvInit, GateInvNext, DirectoryNext, PTL DEF Spec, ImplementsDirectory, Dir!Spec
=============================================================================
