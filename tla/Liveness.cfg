SPECIFICATION MCSpec
CONSTANTS
    Calls = {c1, c2, c3}
    NoCall = none
    Ids = {p1}
    Strategy = strategy
    PROPOSAL_CAP_PER_TOKEN = 1
    MaxSeq = 0
    Keys <- MCKeys
    d1 = d1
    Threads = {d1, d3}
    Drifted = {d3}
    Length <- MCLength
    TriggerTicks = {w1, w2}
    BATCH = 1
    MaxExecutions = 2
    MaxFaults = 1
    Drains = {q1, q2}
    MAX_QUEUE_SIZE = 2
    ATTEMPTS = 2
    MaxDeliveries = 4
\* A part may have nothing left to do.
CHECK_DEADLOCK FALSE
PROPERTIES
    CallsReturn
    UnansweredProposalsEnd
    ArmedEnds
    QueueDrains
