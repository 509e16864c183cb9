SPECIFICATION Spec
CONSTANTS
    r1 = r1
    r2 = r2
    r3 = r3
    s1 = s1
    Requests = {r1, r2, r3}
    Spaces = {s1}
    SpaceOf <- MCSpaceOf
    Explicit = {r1}
    Capacity = 1
    MaxBatch = 2
    Worker = worker
    Snapshots = {a1}
    Repairs = {c1}
INVARIANTS
    TypeOK
    AnswerIsTruth
    StoredHasOrigin
PROPERTIES
    StoreBehindFence
    HandlersAnswered
