\* A release under way while the job is dismissed.
SPECIFICATION Spec
CONSTANTS
    r1 = r1
    r2 = r2
    p1 = p1
    Req <- TwoSlots
    Printer <- OneName
    MaxPending = 2
    MaxHistory = 4
    MaxJobs = 2
    MaxCopies = 1
    Faults <- NoFaults
INVARIANTS
    DismissedNeverPrinted
