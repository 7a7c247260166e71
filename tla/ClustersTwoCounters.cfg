\* An exchange of one object directly after one of another.
SPECIFICATION ClustersSpec
CONSTANTS
    Proc = {r1, r2}
    SendLists <- OneMessage
    nbx_cycle = 2
    MaxExchanges = 2
    Programs <- TwoCounters
INVARIANT RightAssociation
