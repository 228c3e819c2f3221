SPECIFICATION Spec
CONSTANTS
    t1 = t1
    t2 = t2
    r1 = r1
    r2 = r2
    d1 = d1
    d2 = d2
    Kind = "VWAP"
    Side <- MCSell
    Want = 2
    Operator = Operator
    NoTask = NoTask
    NoTicker = NoTicker
    Tickers = {t1, t2}
    Requests = {r1, r2}
    Forced = {r2}
    Direct = {d1, d2}
    Tasks = {r1, r2, d1, d2, Operator}
    Held <- MCHeld
    Target <- MCTarget
    Price <- MCPrice
    Seed = 2
    DirectOrder <- MCDirectOrder
    VolumeProfile <- MCVolumeProfile
    NumIntervals = 3
    MaxRetryPerSlice = 1
    ApiRetryCount = 2
    MaxArrivals = 2
    MaxFaults = 1
CHECK_DEADLOCK FALSE
INVARIANTS
    TypeOK
    CacheIsTable
    LedgerMatchesOrders
    KillStopsLists
    OneRebalancingAtATime
    TradesOnTruePortfolio
    LedgerNeverStuck
