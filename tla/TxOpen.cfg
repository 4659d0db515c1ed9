\* Two routines make every kind of call, with and without FlushPeriod(); a
\* write may fail.
CONSTANTS
    c1 = c1
    c2 = c2
    ticker = ticker
    Caller = {c1, c2, ticker}
    Ticker = ticker
    KindOf <- MCOpen
    PoolSize = 3
    BatchSize = 2
    TxchSize = 2
    MayClose = FALSE
    MayFail = TRUE
    MaxCall = 1
SPECIFICATION FairSpec
INVARIANTS TypeOK OneOwner InOrder AckedOnWire
PROPERTIES FlushedReturn WaitersReturn
CHECK_DEADLOCK FALSE
