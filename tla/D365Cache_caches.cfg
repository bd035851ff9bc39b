\* Two requests that miss the caches together, with failing exchanges.
SPECIFICATION Spec
CONSTANTS
    r1 = r1
    r2 = r2
    V2 = V2
    V1 = V1
    Packing = Packing
    Receipt = Receipt
    Posting = Posting
    None = None
    Unset = Unset
    Req <- Requests
    Candidate <- Candidates
    DateField <- DateFields
    Instance <- Instances
    Lifetime = 3
    Default = 2
    Margin = 1
    MaxTime = 5
SYMMETRY Symmetry
INVARIANTS
    TypeOK
    FindsFirst
    OnlyServed
    FilterFits
PROPERTIES
    TokenOutlivesMargin
