SPECIFICATION Spec
CONSTANTS
    k1 = k1
    k2 = k2
    k3 = k3
    t1 = t1
    t2 = t2
    t3 = t3
    e1 = e1
    c1 = c1
    c2 = c2
    NoTx = NoTx
    NoEvent = NoEvent
    NoRequest = NoRequest
    NoChange = NoChange
    Client = {c1, c2}
    Key = {k1, k2, k3}
    Event = {e1}
    Account <- Accounts
    Tx = {t1, t2, t3}
    Post <- Posts
SYMMETRY Symmetric
INVARIANTS
    TypeOK
    AnswersStable
    NoWaitCycle
    BalancesExplained
PROPERTIES
    JournalSpec
