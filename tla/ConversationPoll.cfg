SPECIFICATION CSpec
CONSTANTS
    Humans = {h1}
    Bots = {b1}
    Keys = {k1}
    Bodies = {x}
    Answer = answer
    Threads = {t1}
    Quota = 1
    MaxMessages = 2
    MaxJoins = 1
    NONE = NONE
INVARIANTS
    PollingMissesNothing
CHECK_DEADLOCK FALSE
