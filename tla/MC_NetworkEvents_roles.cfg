\* Two nodes that routing promotes, demotes and relocates, with ages from
\* MIN_AGE to MIN_AGE + 2 and up to two pending events per node; no
\* collaborator fails.  Members, payments and credits play no part in roles.
CONSTANTS
    Nodes = {n1, n2}
    Members = {}
    Credits = {}
    PaymentIds = {p1}
    Quorum = 2
    Faults = {}
    NoNode = NoNode
    MIN_AGE = 4
    MaxAge = 6
    MaxEvents = 2
SPECIFICATION NESpec
INVARIANT RoleFollowsRouting
PROPERTY RewardAbstractSpec
SYMMETRY NESymmetry
VIEW NEView
