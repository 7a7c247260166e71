\* Two ranks, three exchanges of two messages and an empty entry at most:
\* NBX_cnt wraps around, two messages share a channel.  No symmetry: liveness.
SPECIFICATION FairSpec
CONSTANTS
    Proc = {r1, r2}
    SendLists <- TwoMessages
    nbx_cycle = 2
    MaxExchanges = 3
PROPERTIES
    KeepsPromise
    Termination
