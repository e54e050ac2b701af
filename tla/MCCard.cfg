SPECIFICATION Spec
CONSTANTS
    v1 = v1
    v2 = v2
    a1 = a1
    a2 = a2
    x1 = x1
    x2 = x2
    d1 = d1
    d2 = d2
    s1 = s1
    s2 = s2
    Cards = {v1, v2}
    Auths = {a1, a2}
    Captures = {x1, x2}
    Disputes = {d1}
    Statements = {s1}
    AuthAmounts = {1, 2}
    Modes = {"CASH_THEN_AUTO_SELL", "MONTHLY_STATEMENT"}
    Mandates = {"ENABLED"}
    CaptureAmounts = {1, 2}
    UsdAmounts = {2}
    Rate = 2
    MaxTip = 50
    SpendingCap = 4
    Loan = 1
    LimitPrice = 1
    Price = 2
    Retain = 0
    DailyMax = 2
    Seed = 2
    InitialCash = 3
    CashMoves <- MCCashMoves
    None = None
INVARIANTS
    TypeOK
    HoldsExplained
    BooksBalance
    GivenBackOnce
    ApprovalsCovered
SYMMETRY Interchangeable
CHECK_DEADLOCK FALSE
