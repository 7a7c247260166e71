\* One rank with three peers, three slots.
SPECIFICATION Spec
CONSTANTS
    Peers = {1, 2, 3}
    NQUEUE = 3
    Programs <- SafePrograms
INVARIANTS
    TypeOK
    MergedInOrder
    PackedWhileQueued
    SlotsSinceIdle
