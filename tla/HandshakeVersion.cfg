\* What PeerVersion() is after the handshake.
CONSTANTS
    PeerA = A
    PeerB = B
    gzip = gzip
    lzw = lzw
    Version = {1, 2}
    VersionOf <- MCVersionOf
    Tag = {gzip, lzw}
    TagsOf <- MCTagsOf
    Factory <- MCFactory
    None = None
    EarlyBeat = FALSE
    MaxAsk = 0
    MaxBeat = 0
SPECIFICATION Spec
INVARIANT PeerVersionRight
CHECK_DEADLOCK FALSE
