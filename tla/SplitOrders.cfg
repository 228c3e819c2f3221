SPECIFICATION Spec
CONSTANTS
    t1 = t1
    t2 = t2
    r1 = r1
    r2 = r2
    d1 = d1
    d2 = d2
    Kind = "TWAP"
    Side = 1
    Want = 3
    Operator = Operator
    NoTask = NoTask
    NoTicker = NoTicker
    Tickers = {t1}
    Requests = {}
    Forced = {}
    Direct = {d1}
    Tasks = {d1, Operator}
    Held <- MCHeld
    Target <- MCTarget
    Price <- MCPrice
    Seed = 2
    DirectOrder <- MCDirectOrder
    VolumeProfile <- MCVolumeProfile
    NumIntervals = 2
    MaxRetryPerSlice = 2
    ApiRetryCount = 3
    MaxArrivals = 1
    MaxFaults = 0
CHECK_DEADLOCK FALSE
INVARIANT SentWithinOrder
