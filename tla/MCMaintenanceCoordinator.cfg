SPECIFICATION Spec
CONSTANTS
    Manifests = {m1, m2}
    Digests = {d1, d2}
    NoManifest = NoManifest
    NoDigest = NoDigest
    Callers = {c1, c2}
    Writers = {w1}
    Analysts = {a1}
    TokenLimit = 2
SYMMETRY Symmetry
INVARIANTS
    TypeOK
    FenceExclusion
    SingleAttempt
    PendingOwnersLive
    NoLostWakeup
    ClaimExclusive
    SealExcludesAll
    FenceInv
PROPERTIES
    ReservationResolves
    TombstoneFinal
    FenceFailsClosed
    SealAndClaimPermanent
    ImplementsWriteFence
