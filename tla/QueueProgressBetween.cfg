\* A slot completes while the next one has sends pending.
SPECIFICATION Spec
CONSTANTS
    r1 = r1
    r2 = r2
    r3 = r3
    Proc = {r1, r2}
    NQUEUE = 2
    nbx_cycle = 4
    Programs <- ProgressBetween
INVARIANT
    QueueSendsReceived
CHECK_DEADLOCK FALSE
