\* What an answer promises, with every fault but those of the disk.
SPECIFICATION Spec
CONSTANTS
    r1 = r1
    r2 = r2
    p1 = p1
    Req <- TwoSlots
    Printer <- OneName
    MaxPending = 1
    MaxHistory = 1
    MaxJobs = 2
    MaxCopies = 1
    Faults <- NoDiskFault
SYMMETRY HandlerSymmetry
INVARIANTS
    AckedDurable
PROPERTIES
    LeavesQueueForCause
    ImplementsLedger
    LedgerClosedStaysClosed
