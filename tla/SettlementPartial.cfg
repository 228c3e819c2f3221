SPECIFICATION FairSpec
CONSTANTS
    o1 = o1
    o2 = o2
    Big = 2
    Orders = {o1}
    Ticker <- SameTicker
    Qty <- MCQty
    KnownId = {o1}
    Cancels = {}
    EarlyJob = FALSE
    POLL_MAX_RETRIES = 5
    MaxNotices = 2
    MaxFaults = 0
CHECK_DEADLOCK FALSE
PROPERTY PartialSettles
