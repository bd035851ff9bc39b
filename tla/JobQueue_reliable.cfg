\* No fault: every request is answered and every print recorded.
SPECIFICATION FairSpec
CONSTANTS
    r1 = r1
    r2 = r2
    p1 = p1
    Req <- TwoSlots
    Printer <- OneName
    MaxPending = 1
    MaxHistory = 4
    MaxJobs = 2
    MaxCopies = 2
    Faults <- NoFaults
INVARIANTS
    EveryPrintRecorded
PROPERTIES
    RequestsAnswered
    ImplementsChanges
