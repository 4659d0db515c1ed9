\* The initiator closes a stream some time after the remote has.
CONSTANTS
    PeerA = A
    PeerB = B
    a1 = a1
    a2 = a2
    b1 = b1
    Caller = {a1, a2}
    Home <- MCHomeA
    Opaque = {11, 21}
    OpaqueOf <- MCDisjointOne
    ChanSize = 2
    DeferredClose = TRUE
    NilCallback = {}
    MaxExch = 2
    MaxMsg = 0
SPECIFICATION Spec
INVARIANT RoutedRight
CHECK_DEADLOCK FALSE
