\* Two hubs with the same token, broken connections, restarts, a failing database.
SPECIFICATION FairSpec
CONSTANTS
    h1 = h1
    h2 = h2
    t1 = t1
    t2 = t2
    Hub <- TwoHubs
    Token <- Tokens
    TokenOf <- SharedOne
    MaxRequests = 3
    MaxBreaks = 1
    MaxRestarts = 1
CHECK_DEADLOCK FALSE
INVARIANTS
    TypeOK
    CredsAreKnown
    SpentOnce
PROPERTIES
    EnrollsUnlessSpent
