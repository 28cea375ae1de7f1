SPECIFICATION JSpec
CONSTANTS
    Jobs = {1, 2}
    Keys = {key1, key2}
    Workers = {w1, w2}
    Lease = 2
    Reasons = {"input"}
    MaxFence = 3
    NONE = NONE
SYMMETRY Alike
INVARIANTS
    JobsAgree
PROPERTIES
    NewestLeaseWrites
    ImplementsLeaseFence
