SPECIFICATION MCSpec
CONSTANTS
    u1 = u1 u2 = u2 st1 = st1 st2 = st2 tsla = tsla amzn = amzn
    Users = {u1, u2}
    SideTokens = {st1, st2}
    Adapters = {primary, second}
    PrimaryAdapter = primary
    MAX_SIDE_ASSETS = 1
    Q96_ONE = 2
    Readings = {1, 4}
    Prices = {5}
    Unreadable = unreadable
    MaxBase = 3
    MaxShares = 3
    MaxSide = 1
    protocol = protocol treasury = treasury reserve = reserve r1 = r1 r2 = r2
    StreamIds = {protocol, treasury, reserve}
    STREAM_PAYMASTER_RESERVE = reserve
    Recipients = {r1, r2}
    Batches <- MCBatches
    PPM_DENOMINATOR = 3
    MaxHeld = 5
    Vaults = {v1}
    Assets = {tsla, amzn}
    Margins = {0, 1, 3, 5}
    BPS = 4
    MaxAmount = 3
    usdg = usdg k1 = k1 k2 = k2 h1 = h1
    AgentIds = {1, 2}
    Tokens = {usdg, tsla}
    Keys = {k1, k2}
    FirstKey = k1
    Holders = {h1}
    NoHolder = noholder
    Swaps <- MCSwaps
    Auths <- MCAuths
    MAX_PRICE_TTL = 2
    EMERGENCY_TIMELOCK = 1
    MaxBalance = 2
    MaxTime = 2
    Providers = {u1, u2}
    MINIMUM_LIQUIDITY = 1
    FEE_NUMERATOR = 3
    FEE_DENOMINATOR = 4
    MaxReserve = 6
    Ranges = {near}
    Manager = manager
    Direct = direct
    Nfts = {n1, n2}
    NoRange = norange
    V3_FEE = 3
    V3_FEE_UNIT = 4
    MIN_SWAP_AMOUNT = 1
    MaxLiquidity = 2
    MaxV3Tokens = 5
    Agents = {1}
    Swapper = swapper
    Lender = lender
    MaxSides = 2
    MaxDebt = 2
SYMMETRY Symmetry
INVARIANTS
    StreamsIndexed
    MarginProtects
    SignedOnce
    BooksAreBacked
PROPERTIES
    SharesKeepTheirValue
    AccrualsAreFair
