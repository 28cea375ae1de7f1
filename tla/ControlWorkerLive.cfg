SPECIFICATION LuckyWSpec
CONSTANTS
    Runs = {1}
    Workers = {w1, w2}
    Lease = 2
    NONE = NONE
PROPERTIES
    RunsFinish
