\* Sizes on both sides of every step of the header length; rxch and the pool
\* of data blocks are full after one packet.
CONSTANTS
    BufferSize = 65600
    PeerBuffer = 65600
    Opaque = {65535, 65536}
    DataLen <- MCDataLen
    MaxFrame = 2
    ChanSize = 1
    PoolSize = 1
SPECIFICATION RFairSpec
INVARIANTS
    InSync
    FrameInv
    DataIntact
    BlocksApart
PROPERTY
    EveryFrameHandled
CHECK_DEADLOCK FALSE
