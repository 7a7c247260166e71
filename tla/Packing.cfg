\* Three ranks, every layout, option and operation that fits it.
SPECIFICATION Spec
CONSTANTS
    Proc = {0, 1, 2}
    PropSize <- Sizes
    Header = 1
    Calls <- SafeCalls
INVARIANTS
    TypeOK
    SentToOwner
    ObjectsWhole
    SizesTell
