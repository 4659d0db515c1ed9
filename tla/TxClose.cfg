\* Three routines contend for two objects while the transport is closed.
CONSTANTS
    c1 = c1
    c2 = c2
    ticker = ticker
    Caller = {c1, c2, ticker}
    Ticker = ticker
    KindOf <- MCPaired
    PoolSize = 2
    BatchSize = 1
    TxchSize = 2
    MayClose = TRUE
    MayFail = TRUE
    MaxCall = 1
SPECIFICATION FairSpec
INVARIANT LostOnlyAsync
PROPERTY WaitersReturn
CHECK_DEADLOCK FALSE
