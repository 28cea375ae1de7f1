SPECIFICATION Spec
CONSTANTS
    Runs = {1}
    Workers = {w1, w2}
    SlotOf <- Apart
    Lease = 1
    Ahead = 1
    Behind = 1
    Reasons = {"input"}
    Errors = {"timeout"}
    Notes = {}
    MaxFence = 2
    MaxRevision = 0
    NONE = NONE
PROPERTIES
    LeaseRespected
