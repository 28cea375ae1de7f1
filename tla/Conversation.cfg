SPECIFICATION CSpec
CONSTANTS
    Humans = {h1}
    Bots = {b1}
    Keys = {k1}
    Bodies = {x, y}
    Answer = answer
    Threads = {t1, t2}
    Quota = 1
    MaxMessages = 2
    MaxJoins = 2
    NONE = NONE
SYMMETRY Pool
INVARIANTS
    CTypeOK
    QuotaHolds
    CommitIsWhole
    MembersSeeAndSpeak
PROPERTIES
    ImplementsMessageLog
CHECK_DEADLOCK FALSE
