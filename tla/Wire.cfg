\* Sizes and tags around their limits, the counter at every value.
SPECIFICATION FairSpec
CONSTANTS
    INT_MAX = 511
    tag_ub = 1712128
    SEND_SPARSE = 8192
    SEND_RECV_BASE = 4096
    Stride = 131072
    NQUEUE = 4
    StructSize = 12
    Programs <- SafePrograms
INVARIANTS
    TypeOK
    TagsLegal
    RightSlot
    SparseCovered
    KnownWhole
PROPERTY
    WireTermination
