\* One node handling every duty: it is its own only Elder, so a round of
\* two credits completes on its own votes (Quorum 1).  Two members, one
\* payment; collaborators (chunk store, metadata, transfers, messaging)
\* may fail, Chunks::new and section_public_key do not.
CONSTANTS
    Nodes = {n1}
    Members = {m1, m2}
    Credits = {c1, c2}
    PaymentIds = {p1}
    Quorum = 1
    Faults = {"Collaborator"}
    NoNode = NoNode
SPECIFICATION Spec
INVARIANT TypeOK RoleExclusive WalletsOfMembers
PROPERTY RewardAbstractSpec
