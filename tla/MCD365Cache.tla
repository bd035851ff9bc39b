---------------------------- MODULE MCD365Cache ----------------------------
(* Small instances of D365Cache for TLC. *)
EXTENDS D365Cache, TLC

CONSTANTS r1, r2, V2, V1, Packing, Receipt, Posting

Requests   == {r1, r2}
Candidates == <<V2, V1, Packing>>
DateFields == <<Receipt, Posting>>

\* The candidates that serve receipts, and the date fields that they have.
Serving(v2, v1, packing) == (V2 :> v2) @@ (V1 :> v1) @@ (Packing :> packing)

Instances ==
    {[serves |-> Serving("absent", "filtered", "bare"),
      has    |-> Serving({}, {Posting}, {Receipt}),
      pin    |-> None, pinned_date |-> None],
     [serves |-> Serving("absent", "absent", "bare"),
      has    |-> Serving({}, {}, {}),
      pin    |-> None, pinned_date |-> None],
     [serves |-> Serving("absent", "absent", "absent"),
      has    |-> Serving({}, {}, {}),
      pin    |-> None, pinned_date |-> None],
     [serves |-> Serving("bare", "absent", "absent"),
      has    |-> Serving({Receipt}, {}, {}),
      pin    |-> V1, pinned_date |-> Posting]}

Symmetry == Permutations(Requests)
=============================================================================
