\* Two ranks; no symmetry: liveness.
SPECIFICATION ClustersFair
CONSTANTS
    Proc = {r1, r2}
    SendLists <- OneMessage
    nbx_cycle = 2
    MaxExchanges = 3
    Programs <- SafePrograms
INVARIANTS
    ClustersTypeOK
    LibraryUsable
    LastOneFinalizes
    RightAssociation
PROPERTIES
    KeepsPromise
    ClustersTermination
