\* Two handlers with crashes, failing writes and an unreadable jobs.json.
SPECIFICATION Spec
CONSTANTS
    r1 = r1
    r2 = r2
    p1 = p1
    Req <- TwoSlots
    Printer <- OneName
    MaxPending = 1
    MaxHistory = 2
    MaxJobs = 2
    MaxCopies = 1
    Faults <- CrashDisk
SYMMETRY HandlerSymmetry
INVARIANTS
    TypeOK
    OneListOnly
    TruthfulHistory
