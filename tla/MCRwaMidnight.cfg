SPECIFICATION AdminSpec
CONSTANTS
    A = A
    B = B
    x1 = x1
    x2 = x2
    x3 = x3
    chain1 = chain1
    chain2 = chain2
    l1 = l1
    l2 = l2
    c1 = c1
    c2 = c2
    d1 = d1
    d2 = d2
    None = None
    Assets = {A, B}
    Addresses = {x1, x2, x3}
    AddressOwner <- MCAddressOwner
    ChainAddress <- MCChainAddress
    AddressCooling = 1
    Callers = {p1, p2}
    Plans <- OnlyCompared
    MaxClock = 2
    Customers = {c1, c2}
    Lots = {l1, l2}
    LotOwner <- MCLotOwner
    LotAsset <- MCLotAsset
    LotSize <- MCLotSize
    Vault = Vault
    Dividends = {d1, d2}
    One = 1000
    Rates = {4, 15}
    InitialCash = 1000
    MaxRuns = 2
INVARIANTS
    OneRunADay
CHECK_DEADLOCK FALSE
