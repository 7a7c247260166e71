\* Known receivers and a buffer per property: what is sent where.
SPECIFICATION Spec
CONSTANTS
    Proc = {0, 1, 2}
    PropSize <- Sizes
    Header = 1
    Calls <- KnownPerProperty
INVARIANT SentToOwner
