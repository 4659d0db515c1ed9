\* One client and one server, for every benchmark but verify.
CONSTANTS
    Options <- MCOptions
SPECIFICATION FairSpec
INVARIANTS TypeOK CloseLosesNothing ReportHonest
PROPERTIES ClientFinishes AllStreamed
CHECK_DEADLOCK FALSE
