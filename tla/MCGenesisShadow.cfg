SPECIFICATION Spec
CONSTANTS
    NumSpaces = 2
    Candidates = {1, 2, 3}
    Roots = {1, 2}
    SpaceOf <- MCSpaceOf
    Edges = {1, 2, 3}
    EdgeSpace <- MCEdgeSpace
    EdgeRoot <- MCEdgeRoot
    Relations = {2}
    Present = {1, 2}
    Group <- MCGroup
    Scope <- MCScope
    Concepts = {1, 2}
    Clusters = {1}
    Floor = 1
    PendingCap = 2
    PreparesPerCycle = 2
    AttemptLimit = 1
    MaxMoves = 2
    MaxCrashes = 1
    Nobody = Nobody
    NoLease = NoLease
PROPERTIES PassedOwnsItsEvidence OrphansAreRecovered
INVARIANTS TypeOK NoGroupLost OwnedLeaseHasWork
