\* A known receive of INT_MAX bytes or more is posted too short.
SPECIFICATION Spec
CONSTANTS
    INT_MAX = 511
    tag_ub = 1712128
    SEND_SPARSE = 8192
    SEND_RECV_BASE = 4096
    Stride = 131072
    NQUEUE = 4
    StructSize = 12
    Programs <- BigKnown
INVARIANT
    KnownWhole
