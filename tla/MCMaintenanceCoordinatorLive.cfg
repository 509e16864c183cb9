SPECIFICATION FairSpec
CONSTANTS
    Manifests = {m1, m2}
    Digests = {d1}
    NoManifest = NoManifest
    NoDigest = NoDigest
    Callers = {c1, c2}
    Writers = {w1}
    Analysts = {a1}
    TokenLimit = 1
PROPERTIES
    RepairWaitersWake
    ReservationEnds
    OpenFenceAdmits
