SPECIFICATION MCSpec
CONSTANTS
    Calls = {x, y, z}
    NoCall = none
    Ids = {m, n}
    Strategy = strategy
    PROPOSAL_CAP_PER_TOKEN = 1
    MaxSeq = 2
    Keys <- MCKeys
    Records = {x, y, z}
    NoRecord = none
    Ticks = {m, n}
    LogHandlers = {m, n}
    FromBlock = "genesis"
    MaxLogs = 4
    MaxExtra = 2
    d1 = d1
    Threads = {d1, d2, d3}
    Drifted = {d3}
    Length <- MCLength
    TriggerTicks = {m, n}
    BATCH = 2
    MaxExecutions = 2
    MaxFaults = 1
    Passes = {m, n}
    Collateral = {0, 90, 100}
    CIRCUIT_BREAKER_DRAWDOWN_BPS = 500
    MaxRuns = 3
    Unknown = unknown
    BrokerCalls = {m, n}
    States = {m, n}
    NoGrant = none
    MaxTokens = 4
    RING_CAP = 3
    BACKPRESSURE_QUEUE_CAP = 2
    WATERMARK = 2
    MaxEvents = 6
    MaxEras = 2
    MaxDrops = 2
    Drains = {m, n}
    MAX_QUEUE_SIZE = 2
    ATTEMPTS = 2
    MaxDeliveries = 4
SYMMETRY Symmetric
\* Every part but the runtime may have nothing left to do.
CHECK_DEADLOCK FALSE
INVARIANTS
    OneExecution
    NonceCountsSwaps
    StatusAgrees
    RevisionsAreSound
    TokenSurvives
    ResumeIsExact
    HandledInOrder
    TripsAreSpaced
PROPERTIES
    StopIsFinal
    EndIsFinal
