\* Three ranks, two exchanges of at most one message per rank: a third rank lags behind.
SPECIFICATION Spec
CONSTANTS
    Proc = {r1, r2, r3}
    SendLists <- OneMessage
    nbx_cycle = 2
    MaxExchanges = 2
SYMMETRY Ranks
INVARIANTS
    TypeOK
    AllSendsReceived
    RightAssociation
    Delivered
    ForeignMeansComplete
