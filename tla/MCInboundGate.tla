--------------------------- MODULE MCInboundGate ---------------------------
(* Small instances of InboundGate for TLC. *)
EXTENDS InboundGate, TLC

P(n, w, a) == [name |-> [name |-> n, written |-> w], ip |-> a]

TwoNames     == {"LP1", "LP2"}
TwoAddresses == {"a1", "a2"}
CONSTANTS k1, k2
TwoSecrets   == {k1, k2}
SecretSymmetry == Permutations(TwoSecrets)

\* None; one in two cases, and one with a blank that hides it.
Lists == {<< >>, <<P("LP2", "padded", "a2"), P("LP1", "as is", "a1"), P("LP1", "in caps", "a2")>>}

\* One in two forms and with two addresses, and another.
Entries == {<<[name |-> "LP1", written |-> "in caps"], "a1">>,
            <<[name |-> "LP1", written |-> "padded"], "a2">>,
            <<[name |-> "LP2", written |-> "padded"], "a1">>}

Names == {NoName, [name |-> "LP1", written |-> "padded"],
          [name |-> "LP2", written |-> "in caps"]}

OneDefault == {NoName, [name |-> "LP1", written |-> "in caps"]}
=============================================================================
