\* Three Adults, one chunk held by two of them, one member leaving; the
\* transport may deliver a message twice (spec 5), nothing is lost.
CONSTANTS
    Adults = {a1, a2, a3}
    Addresses = {x}
    InitialHolders = {a1, a2}
    MaxLeft = 1
    Faults = {}
    Duplicates = TRUE
    NoAdult = NoAdult
SPECIFICATION RSafeSpec
PROPERTY ReplayRejected
CHECK_DEADLOCK FALSE
