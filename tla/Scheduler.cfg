SPECIFICATION FairSpec
CONSTANTS
    N = 3
    MaxDay = 3
    TradingDays = {1, 3}
    LateErrors = TRUE
    MaxFaults = 3
CHECK_DEADLOCK FALSE
INVARIANTS
    TypeOK
    OncePerDayUnlessExcused
PROPERTIES
    OnSchedule
    DayIsWorkedOff
