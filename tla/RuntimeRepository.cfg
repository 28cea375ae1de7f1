SPECIFICATION Spec
CONSTANTS
    Runs = {1, 2}
    Workers = {w1, w2}
    SlotOf <- Shared
    Lease = 2
    Ahead = 0
    Behind = 1
    Reasons = {"input"}
    Errors = {"timeout"}
    Notes = {}
    MaxFence = 2
    MaxRevision = 1
    NONE = NONE
INVARIANTS
    RowsAgree
    OneMainRun
    JournalTellsTheRun
PROPERTIES
    LeaseRespected
    ProgressKept
    ImplementsLeaseFence
