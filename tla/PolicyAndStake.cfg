SPECIFICATION MCSpec
CONSTANTS
    alice = alice
    bob = bob
    dex = dex
    other = other
    swap = swap
    ping = ping
    GB = GB
    NoIso = NoIso
    NoOwner = NoOwner
    Factory = Factory
    Accounts = {alice, bob}
    Contracts = {dex, other}
    Selectors = {swap, ping}
    PricedSelectors = {swap}
    Isos = {GB}
    PresetHashes = {"custom", "balanced", "unknown"}
    CanonicalPresets = {"custom", "balanced"}
    PRESET_CUSTOM = "custom"
    Policies <- MCPolicies
    Ops <- MCOps
    DAY = 2
    MaxTime = 4
    MaxVersion = 1
    MaxBundle = 2
    Stakers = {a1, a2}
    Hashes = {h1, h2}
    MIN_STAKE = 2
    CHALLENGE_WINDOW = 1
    Supply = 4
    StakeEnds = 3
\* The clocks are bounded.
CHECK_DEADLOCK FALSE
SYMMETRY Symmetry
INVARIANTS
    BudgetHolds
    DayBound
    LockAccounting
    DisputesAreCovered
    Solvency
PROPERTIES
    NoExecutionAfterRevoke
    UnchallengedStakeStaysLocked
