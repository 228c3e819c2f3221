SPECIFICATION Spec
CONSTANTS
    N = 2
    MaxDay = 1
    TradingDays = {1}
    LateErrors = FALSE
    MaxFaults = 1
CHECK_DEADLOCK FALSE
INVARIANT OncePerDay
