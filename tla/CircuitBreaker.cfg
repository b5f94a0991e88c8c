SPECIFICATION BreakerSpec
CONSTANTS
    Passes = {p1}
    Collateral = {0, 90, 100}
    CIRCUIT_BREAKER_DRAWDOWN_BPS = 500
    MaxRuns = 2
    Unknown = unknown
INVARIANT
    BaselineIsOfThisRun
CHECK_DEADLOCK FALSE
