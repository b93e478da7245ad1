SPECIFICATION Spec
CONSTANTS
    t1 = t1
    t2 = t2
    d1 = d1
    d2 = d2
    c1 = c1
    p1 = p1
    h1 = h1
    h2 = h2
    TopUps = {t1, t2}
    Deposits = {d1, d2}
    CreditPayments = {c1}
    PublicPayments = {p1}
    Scenarios <- MCScenarios
    Amount <- MCAmount
    DailyLimit = 3
    Handlers = {h1, h2}
    MaxEvents <- MCMaxEvents
    MaxCrashes <- MCMaxCrashes
SYMMETRY Symmetry
INVARIANTS AppliedExactlyOnce ProcessedIsSettled
INVARIANTS ShippedOrRefunded DailyLimitHolds
CHECK_DEADLOCK FALSE
