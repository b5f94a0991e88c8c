SPECIFICATION FeedSpec
CONSTANTS
    MaxTime = 3
    Signers = {h1, h2, h3, h4}
    Faulty = {}
    FaultyPrices = {}
    MIN_SIGNERS = 3
    MAX_SIGNERS = 4
    MAX_AGE = 1
    FUTURE_SKEW = 0
    ROTATION_TIMELOCK = 1
    MaxEra = 2
    MaxPending = 1
    PosterKeys = {h1, h2, h3}
\* The clock is bounded; the cron goes on.
PROPERTY EpochCatchesUp
