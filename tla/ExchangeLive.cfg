\* One routine on each end, b1 opening its streams with a nil callback; every
\* call is eventually over.
CONSTANTS
    PeerA = A
    PeerB = B
    a1 = a1
    a2 = a2
    b1 = b1
    Caller = {a1, b1}
    Home <- MCHomeBoth
    Opaque = {11, 21}
    OpaqueOf <- MCDisjointOne
    ChanSize = 2
    DeferredClose = FALSE
    NilCallback = {b1}
    MaxExch = 3
    MaxMsg = 0
SPECIFICATION FairSpec
INVARIANTS RoutedRight PoolExclusive
PROPERTIES RequestsReturn StreamsComeBack
CHECK_DEADLOCK FALSE
