SPECIFICATION LifecycleSpec
CONSTANTS
    Manifests = {m1}
    Digests = {d1}
    NoManifest = NoManifest
    NoDigest = NoDigest
    Callers = {c1}
    Writers = {w1}
    Analysts = {}
    TokenLimit = 1
    ReviewBound = {m1}
INVARIANTS
    MarkerAfterCommit
