SPECIFICATION Spec
CONSTANTS
    o1 = o1
    a1 = a1
    f1 = f1
    w1 = w1
    w2 = w2
    adm1 = adm1
    adm2 = adm2
    Orders = {o1}
    Reservations = {}
    Quantities = {1}
    Limits = {}
    Market = Market
    LastCursor = 0
    Bid <- MCBid
    Ask <- MCAsk
    WholeShare = 1
    Cent = 1
    NoOrder = NoOrder
    NoBuy = NoBuy
    Accounts = {a1}
    Fundings = {f1}
    Withdrawals = {w1, w2}
    Admins = {adm1, adm2}
    Amounts = {2}
    MaxProposals = 2
    None = None
    InitialCash = 2
SYMMETRY Symmetric
INVARIANTS
    BankingTypeOK
    CashExplained
    OwnAccountsOnly
    CaseAgrees
    ShortfallIsSpent
CHECK_DEADLOCK FALSE
