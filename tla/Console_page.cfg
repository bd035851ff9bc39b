\* One page with up to two reloads under way, two handlers, a channel of one message.
SPECIFICATION Spec
CONSTANTS
    r1 = r1
    r2 = r2
    j1 = j1
    j2 = j2
    c1 = c1
    f1 = f1
    f2 = f2
    Req <- TwoSlots
    JobId <- TwoJobs
    Page <- OnePage
    Mishaps <- AllMishaps
    Capacity = 1
    Fetch <- TwoLoads
SYMMETRY Symmetry
INVARIANTS
    TypeOK
    
