SPECIFICATION Spec
CONSTANTS
    o1 = o1
    o2 = o2
    Big = 2
    Orders = {o1}
    Ticker <- SameTicker
    Qty <- MCQty
    KnownId = {o1}
    Cancels = {o1}
    EarlyJob = FALSE
    POLL_MAX_RETRIES = 2
    MaxNotices = 2
    MaxFaults = 0
CHECK_DEADLOCK FALSE
PROPERTY TerminalIsFinal
