\* Two Elders agreeing one credit, both votes needed (Quorum 2); one
\* payment, no wallet owners; every collaborator call may fail, messages
\* may be lost.  A push_state is in flight only alone (SyncAlone); state sync
\* between Elders is checked fully in the roles and stale_sync runs.
CONSTANTS
    Nodes = {n1, n2}
    Members = {}
    Credits = {c1}
    PaymentIds = {p1}
    Quorum = 2
    Faults = {"ChunksNew", "SectionKey", "Collaborator"}
    NoNode = NoNode
SPECIFICATION Spec
SYMMETRY Symmetry
VIEW StateView
CONSTRAINT SyncAlone
PROPERTY RewardAbstractSpec
