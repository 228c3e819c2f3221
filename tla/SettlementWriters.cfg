SPECIFICATION Spec
CONSTANTS
    o1 = o1
    o2 = o2
    Big = 2
    Orders = {o1, o2}
    Ticker <- OwnTicker
    Qty <- MCQty
    KnownId = {o1}
    Cancels = {o2}
    EarlyJob = TRUE
    POLL_MAX_RETRIES = 1
    MaxNotices = 1
    MaxFaults = 1
CHECK_DEADLOCK FALSE
INVARIANT RowNeverAheadOfBroker
PROPERTIES
    ImplementsLifecycle
    TerminalOnlyOverwrittenByCancel
