---------------------------- MODULE MCReceiving ----------------------------
(* A small instance of Receiving for TLC. *)
EXTENDS Receiving

CONSTANTS A, B, a1, a2, b1, x, y

L(item, cnt) == [item |-> item, cnt |-> cnt]

\* B has an item twice; what its receipt has of it on the third line is not asked
\* for.
LinesOf == [o \in {A, B} |-> IF o = A THEN <<x, y>> ELSE <<y, y, x>>]

\* a1 has an item on two lines, a2 more of it than is printed.
ReceivedOf == [r \in {a1, a2, b1} |->
    CASE r = a1 -> <<L(x, 1), L(x, 1)>>
      [] r = a2 -> <<L(x, 3), L(y, 1)>>
      [] r = b1 -> <<L(y, 1), L(x, 2), L(y, 1)>>]

ForOrder == [r \in {a1, a2, b1} |-> IF r = b1 THEN B ELSE A]
=============================================================================
