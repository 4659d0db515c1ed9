\* Two routines, two streams; the transport is closed
\* or breaks at any moment.
CONSTANTS
    c1 = c1
    c2 = c2
    Caller = {c1, c2}
    KindOf <- MCKindOf
    NumStrm = 2
    RxchSize = 1
    MaxCall = 1
SPECIFICATION FairSpec
INVARIANTS TypeOK LeakOnlyByFailure
PROPERTIES ToldOfClose AllStop
CHECK_DEADLOCK FALSE
