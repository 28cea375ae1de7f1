SPECIFICATION ESpec
CONSTANTS
    Runs = {1}
    Workers = {w1}
    SlotOf <- Apart
    Lease = 1
    Ahead = 0
    Behind = 0
    Reasons = {"input"}
    Errors = {"timeout"}
    Notes = {}
    MaxFence = 2
    MaxRevision = 0
    NONE = NONE
    Operations = {op1}
    Calls = {call1}
    Refs = {ref1}
PROPERTIES
    ResumeReusesCompletedOperations
