\* One Elder, two members, one payment; collaborators (here the metadata
\* store's trigger_chunk_replication) may fail.
CONSTANTS
    Nodes = {n1}
    Members = {m1, m2}
    Credits = {c1, c2}
    PaymentIds = {p1}
    Quorum = 1
    Faults = {"Collaborator"}
    NoNode = NoNode
SPECIFICATION Spec
PROPERTY ErrorLeavesFundsUntouched
