SPECIFICATION WSpec
CONSTANTS
    Runs = {1, 2}
    Workers = {w1, w2}
    Lease = 2
    NONE = NONE
SYMMETRY Crew
INVARIANTS
    WTypeOK
    HookedOnceCompleted
PROPERTIES
    AbandonedLeaseRunsOut
