-------------------------- MODULE PrinterRegistry --------------------------
(***************************************************************************)
(* The printer profiles of a node: the list that the console edits         *)
(* (printers.rs), that a configuration of the control plane replaces       *)
(* (state.rs) and in which every label looks its printer up (mod.rs).      *)
(*                                                                         *)
(* The four places compare names in different ways: the lookup trims what  *)
(* it looks for, upsert trims what it stores, remove and the control plane *)
(* trim nothing, and all of them disregard case.                           *)
(***************************************************************************)
EXTENDS Naturals, Sequences, FiniteSetsExt

CONSTANTS
    Name,     \* names, without regard to case and to blanks around them
    Address,  \* host and port of a printer
    Nowhere   \* no printer

\* A name as it is written: as is, in another case, or with blanks around it.
Spelling == [name : Name, written : {"as is", "in caps", "padded"}]

Printer == [name : Spelling, ip : Address]

Trim(s) == [s EXCEPT !.written = IF @ = "padded" THEN "as is" ELSE @]

ToLower(s) == [s EXCEPT !.written = IF @ = "in caps" THEN "as is" ELSE @]

\* Where the list has a name, but for case.
Matches(list, s) == {i \in DOMAIN list : ToLower(list[i].name) = ToLower(s)}

\* Mutant of FindPrinter: the name is looked for as it was sent.
FindUntrimmed(list, s) ==
    IF Matches(list, s) = {} THEN Nowhere ELSE list[Min(Matches(list, s))].ip

FindPrinter(list, s) ==
    LET found == Matches(list, Trim(s))
    IN  IF found = {} THEN Nowhere ELSE list[Min(found)].ip

\* Mutant of Upserted: names are compared as they are written.
UpsertedExactly(list, s, a) ==
    LET entry == [name |-> Trim(s), ip |-> a]
        found == {i \in DOMAIN list : list[i].name = Trim(s)}
    IN  IF found = {} THEN Append(list, entry) ELSE [list EXCEPT ![Min(found)] = entry]

Upserted(list, s, a) ==
    LET entry == [name |-> Trim(s), ip |-> a]
        found == Matches(list, Trim(s))
    IN  IF found = {} THEN Append(list, entry) ELSE [list EXCEPT ![Min(found)] = entry]

\* Mutant of Removed: only the first printer of the name is removed.
RemovedFirst(list, s) ==
    IF Matches(list, s) = {} THEN list
    ELSE SubSeq(list, 1, Min(Matches(list, s)) - 1)
         \o SubSeq(list, Min(Matches(list, s)) + 1, Len(list))

\* The i-th smallest of a set of positions.
Nth(positions, i) ==
    CHOOSE k \in positions : Cardinality({m \in positions : m <= k}) = i

Removed(list, s) ==
    LET kept == DOMAIN list \ Matches(list, s)
    IN  [i \in 1..Cardinality(kept) |-> list[Nth(kept, i)]]

\* The directory that the list amounts to.
Directory(list) == [n \in Name |-> FindPrinter(list, [name |-> n, written |-> "as is"])]
=============================================================================
