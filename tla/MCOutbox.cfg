SPECIFICATION Spec
CONSTANTS
    s1 = s1
    Envelopes = {1, 2, 3, 4}
    Summaries = {1}
    Items = {2}
    Malformed = {4}
    Starts = {s1}
    StartOf <- MCStartOf
    Nobody = Nobody
    MaxFaults = 2
    MaxOnline = 1
INVARIANTS
    TypeOK
    RemovedWasApplied
    BriefAppliedOnce
    CopiesNeedASlip
PROPERTIES
    QueuedIsSettled
