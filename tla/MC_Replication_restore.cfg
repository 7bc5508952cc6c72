\* Five Adults, three chunks held by two of them (so the metadata can send
\* each chunk to a different new holder), one member leaving; the
\* transport neither loses nor duplicates, metadata does not fail.  The
\* replication of the one departure ends in a state with nothing left to
\* do, so that state is not a deadlock.
CONSTANTS
    Adults = {a1, a2, a3, a4, a5}
    Addresses = {x, y, z}
    InitialHolders = {a1, a2}
    MaxLeft = 1
    Faults = {}
    Duplicates = FALSE
    NoAdult = NoAdult
SPECIFICATION RSpec
PROPERTY LostReplicaRestored
CHECK_DEADLOCK FALSE
