SPECIFICATION LifecycleSpec
CONSTANTS
    Manifests = {m1, m2}
    Digests = {d1}
    NoManifest = NoManifest
    NoDigest = NoDigest
    Callers = {c1, c2}
    Writers = {w1}
    Analysts = {}
    TokenLimit = 1
    ReviewBound = {m1}
SYMMETRY CallerSymmetry
INVARIANTS
    LifecycleTypeOK
    UnverifiedIsFenced
    CommittedHasArtifact
    AtMostOneUnverified
    ReviewFollowsRepair
    CancelledNeverApplied
    SealFindsAllVerified
PROPERTIES
    WritesApprovedStateOnce
