\* Three ranks, two slots, and the smallest nbx_cycle the constructor accepts
\* without complaint, 2*NQUEUE.
SPECIFICATION LogSpec
CONSTANTS
    r1 = r1
    r2 = r2
    r3 = r3
    Proc = {r1, r2, r3}
    NQUEUE = 2
    nbx_cycle = 4
    Programs <- SafePrograms
INVARIANTS
    TypeOK
    QueueSendsReceived
    NoRequestForgotten
    QueueRightAssociation
    QueueDelivered
    CollectivesMatch
    ReductionsExecuted
    ReportMatches
    ReportComplete
PROPERTY
    QueueTermination
