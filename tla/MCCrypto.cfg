SPECIFICATION Spec
CONSTANTS
    A = A
    B = B
    k1 = k1
    k2 = k2
    a1 = a1
    w1 = w1
    e1 = e1
    e2 = e2
    None = None
    One = 100
    PlatformFeeRate = 5
    CompletionDust = 1
    Market <- MCMarket
    Assets = {A, B}
    InitialCash = 300
    InitialAssets <- MCInitialAssets
    Plans <- MCPlans
    Keys = {k1, k2}
    Callers = {p1, p2}
    Behaviours <- MCBehaviours
    SingleLimit = 265
    RollingLimit = 265
    SpentElsewhere = {150}
    Addresses = {a1}
    AddressAsset <- MCAddressAsset
    Withdrawals = {w1}
    Quantities = {300}
    DepositEvents <- MCDepositEvents
    Requests = {r1, r2}
    Policy <- MCPolicy
    RiskContexts <- MCRiskContexts
    MaxClock = 2
INVARIANTS
    TypeOK
    BooksExplained
    ReviewCap
    NothingOversold
    CoolingServed
    RoutesWithinBudget
PROPERTIES
    WithdrawalsFollowCustodian
CHECK_DEADLOCK FALSE
