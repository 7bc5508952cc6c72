\* Two nodes and one member that may leave and rejoin; no credits, no
\* payments, no collaborator fails and no message is lost.  An Elder's
\* EldersChanged push reaches the other Elder in its own time.
CONSTANTS
    Nodes = {n1, n2}
    Members = {m1}
    Credits = {}
    PaymentIds = {}
    Quorum = 1
    Faults = {}
    NoNode = NoNode
SPECIFICATION Spec
INVARIANT WalletsOfMembers
