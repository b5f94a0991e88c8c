SPECIFICATION DirectivesSpec
CONSTANTS
    Threads = {d1, d2}
    Drifted = {}
    Length <- MCLength
    d1 = d1
    TriggerTicks = {t1}
    BATCH = 100
    MaxExecutions = 2
    MaxFaults = 0
INVARIANT
    ExecutedOnce
CHECK_DEADLOCK FALSE
