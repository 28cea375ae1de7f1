SPECIFICATION Spec
CONSTANTS
    Humans = {ann, bob}
    Machines = {bot}
    Workspaces = {w1}
    Resources = {dataset}
    MaxGeneration = 4
    Tokens = {k1, k2}
    Ttls = {0, 1, 2}
    MaxNow = 5
    Reports = {r1}
    People = {cat, dan}
    Bots = {rob}
    MaxRevision = 2
    Callers = {p1, p2}
    TaskIds = {i1, i2}
    TaskKeys = {m1, m2}
    Inputs = {count, clean}
    Members = {b1, b2, b3}
    Strangers = {b4}
    Correlations = {c1}
    Stages = {s1}
    Contents = {hello}
    MaxHops = 4
    TurnThreads = {t1, t2}
    Turns = {u1, u2}
    Tools = {"write", "read"}
    Writes = {"write"}
    Granted = {"write", "read"}
    Handled = {"write", "read"}
    Payloads = {"one", "two"}
    Answers <- ModelAnswers
    MaxToolCalls = 2
    Memories <- Records
    Histories = {2, 5}
    Budget <- TokenBudget
    MaxTurns = 3
    Headers <- Header
    FileRows <- Table
    Empty = ""
    NULL = NULL
    Kind <- KindOf
    Amount <- AmountOf
    Stamp <- StampOf
    Rank <- RankOf
    MaxRows = 4
    Bins = 4
    TopLimit = 2
    MaxPairColumns = 2
    Required = {"a", "b"}
    UniqueColumns = {"a", "b"}
    Ranges <- RangeRules
    Permitted <- AllowedRules
    Patterns <- PatternRules
    Matches <- Fits
    RowCounts <- RowCountRule
    Expected <- ExpectedHeaders
    FreshColumn = "b"
    MaxAge = 5
    Age <- AgeOf
    PreviewLimit = 2
INVARIANTS
    ServicesTypeOK
    OwnersRemain
    PublishedAsReviewed
    RetriesGetTheTask
    HandoffsFormOneChain
    EffectsHappenOnce
    TurnTellsEffects
    ProfileIsExact
    QualityAgreesWithProfile
    AnalysesAgree
PROPERTIES
    GenerationTellsDecisions
    DeadSessionsStayDead
    VerdictsStand
CHECK_DEADLOCK FALSE
