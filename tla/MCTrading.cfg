SPECIFICATION TradingSpec
CONSTANTS
    o1 = o1
    o2 = o2
    o3 = o3
    r1 = r1
    Orders = {o1, o2, o3}
    Reservations = {r1}
    Quantities = {1, 3}
    Limits = {2, 3}
    Market = Market
    LastCursor = 2
    Bid <- MCBid
    Ask <- MCAsk
    WholeShare = 1
    Cent = 2
    InitialCash = 4
    NoOrder = NoOrder
    NoBuy = NoBuy
INVARIANTS
    TradingTypeOK
    FillsExplainBalances
    NeverOverspent
    LimitHonoured
PROPERTIES
    OrdersProgress
CHECK_DEADLOCK FALSE
