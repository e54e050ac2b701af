SPECIFICATION Spec
CONSTANTS
    o1 = o1
    a1 = a1
    f1 = f1
    w1 = w1
    w2 = w2
    adm1 = adm1
    adm2 = adm2
    Orders = {o1}
    Reservations = {}
    Quantities = {2}
    Limits = {2}
    Market = Market
    LastCursor = 1
    Bid <- LaterBid
    Ask <- LaterAsk
    WholeShare = 1
    Cent = 1
    NoOrder = NoOrder
    NoBuy = NoBuy
    Accounts = {a1}
    Fundings = {f1}
    Withdrawals = {w1}
    Admins = {adm1, adm2}
    Amounts = {3}
    MaxProposals = 0
    None = None
    InitialCash = 2
INVARIANTS
    WithdrawalsCovered
CHECK_DEADLOCK FALSE
