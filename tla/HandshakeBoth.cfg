\* Both ends shake hands, ask each other and send heartbeats.
CONSTANTS
    PeerA = A
    PeerB = B
    gzip = gzip
    lzw = lzw
    Version = {1, 2}
    VersionOf <- MCVersionOf
    Tag = {gzip, lzw}
    TagsOf <- MCTagsOf
    Factory <- MCFactory
    None = None
    EarlyBeat = TRUE
    MaxAsk = 2
    MaxBeat = 1
SPECIFICATION FairSpec
INVARIANTS TypeOK Decodable Acquainted
PROPERTY HandshakesReturn
CHECK_DEADLOCK FALSE
