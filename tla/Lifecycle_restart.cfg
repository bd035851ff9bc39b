\* Restarts, updates and crashes, wherever update.sh runs.
SPECIFICATION NodeFairSpec
CONSTANTS
    s1 = s1
    s2 = s2
    s3 = s3
    Slot <- ThreeSlots
INVARIANTS
    NodeTypeOK
    OneAtATime
PROPERTIES
    FlagReleased
    RestartReturns
    InstalledReturns
