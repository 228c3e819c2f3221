SPECIFICATION FairSpec
CONSTANTS
    t1 = t1
    t2 = t2
    t3 = t3
    ExecNotice = ExecNotice
    NoTopic = NoTopic
    Tickers = {t1, t2, t3}
    MAX_SUBSCRIPTIONS = 2
    MaxConns = 3
INVARIANTS
    TypeOK
    SubscribedOnThisConnection
    NothingForgotten
    LimitKeptByOneBatch
    ClosedLeavesNoConnection
PROPERTY FeedComesBack
