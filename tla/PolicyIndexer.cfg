SPECIFICATION IndexerSpec
CONSTANTS
    LogHandlers = {h1, h2}
    FromBlock = "genesis"
    MaxLogs = 3
    MaxExtra = 0
\* Everything emitted and handled.
CHECK_DEADLOCK FALSE
INVARIANT RevokedRowIsDead
