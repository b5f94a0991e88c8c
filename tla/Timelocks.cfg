SPECIFICATION MCSpec
CONSTANTS
    v1 = v1 v2 = v2 v3 = v3
    Components = {v1, v2, v3}
    Accounts = {factory}
    Owner = owner
    NoAccount = none
    TIMELOCK = 2
    MAX_BATCH = 3
    MaxTime = 4
    s1 = s1 s2 = s2 s3 = s3 s4 = s4 f1 = f1 f2 = f2
    Selectors = {s1, s2, s3, s4}
    Facets = {f1, f2}
    NoFacet = nofacet
    Cuts <- MCCuts
    FirstCut <- MCFirstCut
    CUT_TIMELOCK = 1
    c1 = c1 c2 = c2
    Callers = {c1, c2}
    StartCap = 2
    Payloads <- MCPayloads
    RELAY_TIMELOCK = 1
    h1 = h1 h2 = h2 h3 = h3 h4 = h4
    Signers = {h1, h2, h3, h4}
    Faulty = {h4}
    FaultyPrices = {99}
    MIN_SIGNERS = 3
    MAX_SIGNERS = 4
    MAX_AGE = 1
    FUTURE_SKEW = 0
    ROTATION_TIMELOCK = 1
    MaxEra = 5
    MaxPending = 2
    a1 = a1 a2 = a2
    Attestors = {a1, a2}
    FirstAttestor = a1
    Signatures <- MCSignatures
    NoState = nostate
    ATTESTOR_TIMELOCK = 1
    Ticks = {t1, t2}
    Policies <- MCPolicies
    PosterKey = a1
    BACKDATE = 1
    VALIDITY = 1
    MaxVersion = 2
    MaxRows = 2
\* The clock is bounded, and a contract may have nothing left to do before it moves.
CHECK_DEADLOCK FALSE
SYMMETRY Symmetry
INVARIANTS
    RegistryIndexed
    ResumeBelongsToShutdown
    TablesAgree
    BlockBudget
    ReadingsAreAttested
PROPERTIES
    LoopsMissNobody
    CutsWait
    RelayWaits
    SignersWait
    AttestorWaits
    PriceIsOfThisEra
