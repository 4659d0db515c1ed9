\* Two routines on one end and one on the other contend for their streams.
CONSTANTS
    PeerA = A
    PeerB = B
    a1 = a1
    a2 = a2
    b1 = b1
    Caller = {a1, a2, b1}
    Home <- MCHome
    Opaque = {11, 21}
    OpaqueOf <- MCDisjointOne
    ChanSize = 2
    DeferredClose = FALSE
    NilCallback = {}
    MaxExch = 3
    MaxMsg = 1
SPECIFICATION Spec
SYMMETRY MCSymmetry
INVARIANTS
    TypeOK
    RoutedRight
    PoolExclusive
    QuiescentClean
CHECK_DEADLOCK FALSE
