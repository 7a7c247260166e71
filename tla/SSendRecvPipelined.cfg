\* A program that always keeps a call queued and never more than two.
SPECIFICATION Spec
CONSTANTS
    Peers = {1, 2, 3}
    NQUEUE = 3
    Programs <- Pipelined
INVARIANT
    QueueHasRoom
CHECK_DEADLOCK FALSE
