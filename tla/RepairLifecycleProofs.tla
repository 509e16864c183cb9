------------------------- MODULE RepairLifecycleProofs -------------------------
(***************************************************************************)
(* Proofs about the repair lifecycle: what the durable store and the write *)
(* fence promise each other across handlers, errors, cancelled requests,   *)
(* crashes and restarts.  For every number of callers and writers, every   *)
(* set of manifests, review-bound or not, and every token width.           *)
(***************************************************************************)
EXTENDS RepairLifecycle, MaintenanceCoordinatorClaims

Artifacts ==
    [pending : {"none", "blank", "prepared"}, applied : BOOLEAN,
     verified : BOOLEAN, marker : BOOLEAN, cancelled : BOOLEAN]

\* Completed, of one manifest's artifacts k.
Proven(m, k) == k.applied /\ k.verified /\ (m \in ReviewBound => k.marker)

ApplyOwned == ApplySteps \cup {"applied", "failed"}
VerifyOwned == VerifySteps \cup {"verified", "unverified"}
Steps == ApplySteps \cup VerifySteps
           \cup {"idle", "acquired", "applied", "failed", "verified", "unverified"}

(***************************************************************************)
(* The inductive invariant.  The fence restarts with the process, so what  *)
(* it knows of the store is said of a daemon that is not down; what the    *)
(* store promises by itself is said of each manifest; and what a handler   *)
(* has found out and still relies on is said of the step it stands at.     *)
(***************************************************************************)
ServerSound ==
    /\ server = "up" <=> recovery_complete
    /\ server # "up" => \A t \in Tasks : phase[t] = "idle"

\* A handler runs exactly while its guard is live.  An apply has marked its
\* guard, a verification holds a durable lease: no drop loses the fence.
HandlersSound ==
    \A c \in Callers :
        /\ pc[c] = "idle" <=> ~GuardLive(c)
        /\ pc[c] \in ApplyOwned => guard[c].retain
        /\ pc[c] \in VerifyOwned => repair_lease.durable

\* What a handler at this step knows of artifacts k and target t of its
\* manifest m.
StepSound(m, step, k, t) ==
    /\ step \in ApplySteps \ {"lock"} => ~k.cancelled
    /\ step \in {"write", "commit", "publish"} => ~k.applied
    /\ step = "write" => k.pending = "blank"
    /\ step \in {"commit", "publish"} => k.pending = "prepared"
    /\ step = "commit" => t = "expected"
    /\ step \in {"finalize", "marker"} => k.applied /\ k.verified
    /\ step = "verified" => Proven(m, k)

StepsSound ==
    \A c \in Callers : pc[c] # "idle" =>
        StepSound(Manifest(c), pc[c], disk[Manifest(c)], target[Manifest(c)])

\* What holds of artifacts k, target t and review item v of each manifest m.
ManifestSound(m, k, t, v) ==
    /\ t = "repaired" => k.applied \/ k.pending = "prepared"
    /\ k.cancelled => k.pending = "none" /\ ~k.applied /\ t # "repaired"
    /\ m \in ReviewBound /\ v = "resolved" => k.applied /\ k.verified
    /\ m \in ReviewBound /\ v = "dismissed" /\ (k.applied \/ k.pending = "prepared")
          => Proven(m, k)

ManifestsSound ==
    \A m \in Manifests : ManifestSound(m, disk[m], target[m], review[m])

\* A daemon that is not down holds the lease of whatever is unverified, and
\* at most one manifest ever is.
StoreFenced ==
    /\ \A m \in Unverified : server # "down" => repair_lease.manifest = m
    /\ AtMostOneUnverified

\* A claim counts as complete only when the artifacts prove it.
ClaimProven ==
    /\ startup_claim_complete =>
          startup_claim \in Requests /\ Completed(startup_claim.manifest)
    /\ runtime_resumption # "none" => startup_claim_complete

LifecycleInv ==
    /\ ClaimInv
    /\ LifecycleTypeOK
    /\ ServerSound
    /\ HandlersSound
    /\ StepsSound
    /\ ManifestsSound
    /\ StoreFenced
    /\ ClaimProven

-----------------------------------------------------------------------------
(* The fence under the lifecycle *)

\* A new process starts with the invariant of the fence.
LEMMA FreshClaim == FreshCoordinator => ClaimInv'
<1>1. (Init => ClaimInv)'
  BY InitClaim, PTL
<1>2. FreshCoordinator => Init'
  BY DEF FreshCoordinator, Init
<1> QED
  BY <1>1, <1>2

\* Every step of the lifecycle but a crash is a step of the fence or leaves
\* the fence alone.
LEMMA StepOfFence ==
    ASSUME [LifecycleNext]_lifecycleVars
    PROVE  Crash \/ [Next]_vars
<1> USE DEF fenceVars
<1>1. CASE UNCHANGED lifecycleVars
  BY <1>1 DEF lifecycleVars
<1>2. CASE \E claim \in {{}} \cup {{r} : r \in Requests} : PrepareStartup(claim)
  BY <1>2 DEF PrepareStartup, Next
<1>3. CASE Serve \/ Background
  BY <1>3 DEF Serve, Background, Next
<1>4. CASE \E c \in Callers, r \in Requests : RequestApply(c, r)
  BY <1>4 DEF RequestApply, Next
<1>5. CASE \E c \in Callers, m \in Manifests : RequestVerify(c, m)
  BY <1>5 DEF RequestVerify, Next
<1>6. CASE \E c \in Callers : GiveUp(c) \/ AbandonAttempt(c)
  BY <1>6 DEF GiveUp, AbandonAttempt, Next, SettleAttempt
<1>7. CASE \E c \in Callers : ApplyStep(c)
  <2>1. PICK c \in Callers : ApplyStep(c)
    BY <1>7
  <2>2. CASE MarkUncertain(c)
    BY <2>2 DEF MarkUncertain, Next
  <2>3. CASE SettleApplied(c) \/ \E unreadable \in BOOLEAN :
                                    SettleFailedApply(c, unreadable)
    BY <2>3 DEF SettleApplied, SettleFailedApply, Next, SettleAttempt
  <2> QED
    BY <2>1, <2>2, <2>3
       DEF ApplyStep, LockApply, ApplyError, ReturnExistingReceipt,
           RecoverCommitted, DiscardPending, BeginApplyReceipt, WriteTarget,
           AbortWrite, RollbackFails, CommitWrite, PublishCommitted,
           PublishApplyReceipt
<1>8. CASE \E c \in Callers : VerifyStep(c)
  <2>1. PICK c \in Callers : VerifyStep(c)
    BY <1>8
  <2>2. CASE SettleVerified(c)
    BY <2>2 DEF SettleVerified, Next, SettleAttempt
  <2> QED
    BY <2>1, <2>2 DEF VerifyStep, PersistVerification, CommitVerification,
                      ReconcileReview, PublishMarker, VerifyError
<1>9. CASE \/ \E m \in Manifests : HandleCancel(m) \/ EditTarget(m)
           \/ \E w \in Writers, m \in Manifests : DismissReview(w, m)
  BY <1>9 DEF HandleCancel, EditTarget, DismissReview
<1>10. CASE (\E r \in Requests : ResumeSealed(r)) \/ ResumeDecides
  BY <1>10 DEF ResumeSealed, ResumeDecides, Next
<1> QED
  BY <1>1, <1>2, <1>3, <1>4, <1>5, <1>6, <1>7, <1>8, <1>9, <1>10 DEF LifecycleNext

\* So the lifecycle keeps the invariant of the fence.
LEMMA LifecycleClaim ==
    ASSUME ClaimInv, [LifecycleNext]_lifecycleVars
    PROVE  ClaimInv'
  BY StepOfFence, NextClaim, FreshClaim DEF Crash

\* A running handler: the server is up, its manifest is the leased one, and
\* no other handler runs.
LEMMA RunningHandler ==
    ASSUME LifecycleInv, NEW c \in Callers, GuardLive(c) \/ pc[c] # "idle"
    PROVE  /\ GuardLive(c) /\ pc[c] # "idle" /\ Owns(c) /\ Leased
           /\ Manifest(c) = repair_lease.manifest /\ Manifest(c) \in Manifests
           /\ server = "up" /\ recovery_complete
           /\ \A d \in Callers \ {c} : ~GuardLive(d) /\ pc[d] = "idle"
           /\ \A m \in Unverified : m = Manifest(c)
           /\ runtime_resumption = "none"
<1>0. FenceInv /\ TypeOK /\ ServerSound /\ HandlersSound /\ StoreFenced
  BY DEF LifecycleInv, ClaimInv, FenceInv
<1>1. GuardLive(c) /\ pc[c] # "idle"
  BY <1>0 DEF HandlersSound
<1>2. /\ Owns(c) /\ Leased /\ Manifest(c) = repair_lease.manifest
      /\ Manifest(c) \in Manifests /\ c \in Tasks
  BY <1>0, <1>1, LiveGuardOwns DEF Manifest, Leased, TypeOK
<1>3. server = "up" /\ recovery_complete
  BY <1>0, <1>1, <1>2 DEF ServerSound, GuardLive
<1>4. \A d \in Callers \ {c} : ~GuardLive(d) /\ pc[d] = "idle"
  BY <1>0, <1>1 DEF FenceInv, SingleAttempt, LiveGuards, HandlersSound
<1>5. \A m \in Unverified : m = Manifest(c)
  BY <1>0, <1>2, <1>3 DEF StoreFenced
<1>6. runtime_resumption = "none"
  BY <1>0, <1>2 DEF FenceInv, Compatible, Quiet
<1> QED
  BY <1>1, <1>2, <1>3, <1>4, <1>5, <1>6

-----------------------------------------------------------------------------
(* Steps of the fence that start and end no attempt *)

\* A step that leaves every handler and the store alone keeps the invariant
\* if the fence goes on covering what is unverified.
LEMMA QuietStep ==
    ASSUME LifecycleInv, ClaimInv', UNCHANGED <<pc, durableVars, guard>>,
           \A c \in Callers : GuardLive(c)' <=> GuardLive(c),
           repair_lease.durable => repair_lease'.durable,
           server' \in {"down", "armed", "up"}, ServerSound',
           \A m \in Unverified : server' # "down" => repair_lease'.manifest = m,
           ClaimProven'
    PROVE  LifecycleInv'
<1> USE DEF durableVars
<1>0. /\ LifecycleTypeOK /\ HandlersSound /\ StepsSound /\ ManifestsSound
      /\ StoreFenced
  BY DEF LifecycleInv
<1>1. LifecycleTypeOK'
  BY <1>0 DEF LifecycleTypeOK, ClaimInv, FenceInv
<1>2. HandlersSound'
  BY <1>0 DEF HandlersSound
<1>3. StepsSound'
  BY <1>0 DEF StepsSound, Manifest
<1>4. ManifestsSound'
  BY <1>0 DEF ManifestsSound
<1>5. StoreFenced'
  BY <1>0 DEF StoreFenced, AtMostOneUnverified, Unverified, Completed
<1> QED
  BY <1>1, <1>2, <1>3, <1>4, <1>5 DEF LifecycleInv

\* The clock, timers, writers and snapshots of a serving daemon.
LEMMA BackgroundLifecycle ==
    ASSUME LifecycleInv, ClaimInv', Background
    PROVE  LifecycleInv'
<1> USE DEF Background, durableVars
<1>0. FenceInv /\ ServerSound /\ StoreFenced /\ ClaimProven
  BY DEF LifecycleInv, ClaimInv
<1>1. /\ UNCHANGED <<startup_claim, startup_claim_complete, repair_lease, guard,
                     runtime_resumption>>
      /\ recovery_complete'
      /\ \A c \in Callers : GuardLive(c)' <=> GuardLive(c)
  <2>1. CASE ReservationFallsDue
    BY <1>0, <2>1 DEF ReservationFallsDue, admissionUnchanged, GuardLive, ServerSound
  <2>2. CASE ~ReservationFallsDue
    <3>1. BystanderStep
      BY <2>2 DEF BystanderStep
    <3>2. UNCHANGED runtime_resumption
      <4>1. CASE \E w \in Writers :
                   BeginBackground(w) \/ TryBeginBackground(w) \/ EndBackground(w)
        BY <4>1 DEF BeginBackground, TryBeginBackground, AdmitBackground,
                    EndBackground, admissionUnchanged
      <4>2. CASE \E a \in Analysts : BeginAnalysis(a) \/ EndAnalysis(a)
        BY <4>2 DEF BeginAnalysis, EndAnalysis, admissionUnchanged
      <4> QED
        BY <2>2, <4>1, <4>2
           DEF CancelAdmission, MatchesHandoff, ExpireReservedRepair,
               admissionUnchanged
    <3> QED
      BY <1>0, <3>1, <3>2, BystanderEffect DEF ServerSound
  <2> QED
    BY <2>1, <2>2
<1>2. ServerSound' /\ ClaimProven'
  BY <1>0, <1>1 DEF ServerSound, ClaimProven, Completed
<1> QED
  BY <1>0, <1>1, <1>2, QuietStep DEF StoreFenced

\* Startup arms the fence for the one manifest it finds, or finds none.
LEMMA PrepareStartupLifecycle ==
    ASSUME LifecycleInv, ClaimInv', NEW claim, PrepareStartup(claim)
    PROVE  LifecycleInv'
<1> USE DEF PrepareStartup
<1>0. FenceInv /\ ServerSound /\ StoreFenced /\ ClaimProven
  BY DEF LifecycleInv, ClaimInv
<1>1. CASE StartupFence(claim) = {} /\ UNCHANGED fenceVars
  <2>1. Unverified = {}
    BY <1>1 DEF StartupFence
  <2>2. UNCHANGED <<recovery_complete, repair_lease, startup_claim,
                    startup_claim_complete, runtime_resumption, phase, guard>>
    BY <1>1 DEF fenceVars, vars, coordinatorVars
  <2>3. ServerSound' /\ ClaimProven'
    BY <1>0, <2>2 DEF ServerSound, ClaimProven, Completed, durableVars
  <2> QED
    BY <2>1, <2>2, <2>3, QuietStep DEF GuardLive
<1>2. CASE \E r \in Requests : /\ StartupFence(claim) = {r.manifest}
                               /\ RearmApprovedRepair(r)
  <2>1. PICK r \in Requests : /\ StartupFence(claim) = {r.manifest}
                              /\ RearmApprovedRepair(r)
    BY <1>2
  <2>2. \A m \in Unverified : m = r.manifest
    BY <2>1 DEF StartupFence
  <2>3. /\ repair_lease'.manifest = r.manifest
        /\ repair_lease.durable => repair_lease'.durable
        /\ UNCHANGED <<recovery_complete, runtime_resumption, phase, guard>>
        /\ startup_claim_complete' = FALSE
    BY <2>1 DEF RearmApprovedRepair, Leased
  <2>4. runtime_resumption = "none"
    BY <1>0, <2>1 DEF FenceInv, Compatible, RearmApprovedRepair
  <2>5. ServerSound' /\ ClaimProven'
    BY <1>0, <2>3, <2>4 DEF ServerSound, ClaimProven
  <2> QED
    BY <2>2, <2>3, <2>5, QuietStep DEF GuardLive
<1> QED
  BY <1>1, <1>2

\* Serving opens the gates; the fence and the store are as startup left them.
LEMMA ServeLifecycle ==
    ASSUME LifecycleInv, ClaimInv', Serve
    PROVE  LifecycleInv'
<1> USE DEF Serve
<1>0. FenceInv /\ ServerSound /\ StoreFenced /\ ClaimProven
  BY DEF LifecycleInv, ClaimInv
<1>1. /\ UNCHANGED <<startup_claim, startup_claim_complete, repair_lease, guard>>
      /\ \A c \in Callers : GuardLive(c)' <=> GuardLive(c)
  BY <1>0, BystanderEffect DEF BystanderStep
<1>2. recovery_complete' /\ UNCHANGED runtime_resumption
  BY DEF FinishRecovery
<1>3. ServerSound' /\ ClaimProven'
  BY <1>0, <1>1, <1>2 DEF ServerSound, ClaimProven, Completed, durableVars
<1> QED
  BY <1>0, <1>1, <1>3, QuietStep DEF StoreFenced

\* The seal is only given to a daemon whose claim is complete.
LEMMA ResumeLifecycle ==
    ASSUME LifecycleInv, ClaimInv',
           (\E r \in Requests : ResumeSealed(r)) \/ ResumeDecides
    PROVE  LifecycleInv'
<1> USE DEF ResumeSealed, ResumeDecides
<1>0. FenceInv /\ ServerSound /\ StoreFenced /\ ClaimProven
  BY DEF LifecycleInv, ClaimInv
<1>1. BystanderStep /\ UNCHANGED <<server, pc, durableVars>>
  BY DEF BystanderStep
<1>2. /\ UNCHANGED <<startup_claim, startup_claim_complete, repair_lease, guard>>
      /\ \A c \in Callers : GuardLive(c)' <=> GuardLive(c)
  BY <1>0, <1>1, BystanderEffect
<1>3. /\ server = "up"
      /\ recovery_complete' = recovery_complete
      /\ runtime_resumption' # "none" => startup_claim_complete
  BY <1>0 DEF FenceInv, Compatible, ServerSound, ClaimProven,
              BeginRuntimeResumption, CommitResumption, DropResumption,
              sealUnchanged
<1>4. ServerSound' /\ ClaimProven'
  BY <1>0, <1>1, <1>2, <1>3 DEF ServerSound, ClaimProven, Completed, durableVars
<1> QED
  BY <1>0, <1>1, <1>2, <1>3, <1>4, QuietStep DEF StoreFenced, LifecycleInv, LifecycleTypeOK

\* A request that is refused, waits or withdraws starts nothing.
LEMMA WaitingLifecycle ==
    ASSUME LifecycleInv, ClaimInv', NEW c \in Callers,
           \/ DropRegistration(c)
           \/ \E r \in Requests : RefuseRepair(c, r) \/ RegisterAndWait(c, r),
           server = "up", UNCHANGED <<server, pc, durableVars>>
    PROVE  LifecycleInv'
<1> USE CoordinatorAssumption DEF admissionUnchanged, grantUnchanged
<1>0. /\ FenceInv /\ ServerSound /\ StoreFenced /\ ClaimProven /\ TypeOK
      /\ Lapsed \in BOOLEAN /\ (pending_repair' # pending_repair) \in BOOLEAN
      /\ Callers \subseteq Tasks
  BY DEF LifecycleInv, ClaimInv, FenceInv, TypeOK, Lapsed, Tasks
<1>1. UNCHANGED <<startup_claim, startup_claim_complete, repair_lease, guard,
                  recovery_complete, runtime_resumption>>
  BY DEF DropRegistration, RefuseRepair, RegisterAndWait
<1>2. \A d \in Callers : GuardLive(d)' <=> GuardLive(d)
  <2>1. PICK p \in {"idle", "leaving", "parked"}, notify \in BOOLEAN :
           Move(c, p, notify)
    BY <1>0 DEF DropRegistration, RefuseRepair, RegisterAndWait
  <2>2. ~GuardLive(c)
    BY DEF DropRegistration, RefuseRepair, RegisterAndWait, Looks, GuardLive
  <2> QED
    BY <1>0, <2>1, <2>2, MoveOthers DEF Phases, GuardLive
<1>3. ServerSound' /\ ClaimProven'
  BY <1>0, <1>1 DEF ServerSound, ClaimProven, Completed, durableVars
<1> QED
  BY <1>0, <1>1, <1>2, <1>3, QuietStep DEF StoreFenced, LifecycleInv, LifecycleTypeOK

-----------------------------------------------------------------------------
(* An attempt begins and ends *)

\* When caller c begins or ends its attempt, no other handler runs, and what
\* the store promises is untouched.
LEMMA AttemptStep ==
    ASSUME LifecycleInv, ClaimInv', NEW c \in Callers, NEW s \in Steps,
           pc' = [pc EXCEPT ![c] = s],
           s = "idle" <=> ~GuardLive(c)',
           \A d \in Callers \ {c} :
              ~GuardLive(d) /\ ~GuardLive(d)',
           s \in ApplyOwned => guard'[c].retain,
           s \in VerifyOwned => repair_lease'.durable,
           s # "idle" => StepSound(guard'[c].manifest, s,
                            disk[guard'[c].manifest], target[guard'[c].manifest]),
           UNCHANGED <<server, disk, target, review, recovery_complete>>,
           open_tx' \in Manifests \cup {NoManifest},
           server = "up",
           \A m \in Unverified : repair_lease'.manifest = m,
           ClaimProven'
    PROVE  LifecycleInv'
<1>0. /\ LifecycleTypeOK /\ HandlersSound /\ StepsSound /\ ManifestsSound
      /\ StoreFenced /\ ServerSound
  BY DEF LifecycleInv
<1>1. /\ pc' \in [Callers -> Steps] /\ pc'[c] = s
      /\ \A d \in Callers \ {c} : pc'[d] = "idle"
  BY <1>0 DEF LifecycleTypeOK, HandlersSound, Steps
<1>2. LifecycleTypeOK'
  BY <1>0, <1>1 DEF LifecycleTypeOK, ClaimInv, FenceInv, Steps
<1>3. HandlersSound'
  BY <1>1 DEF HandlersSound, ApplyOwned, VerifyOwned, ApplySteps, VerifySteps
<1>4. StepsSound'
  BY <1>1 DEF StepsSound, Manifest
<1>5. ManifestsSound'
  BY <1>0 DEF ManifestsSound
<1>6. StoreFenced'
  BY <1>0 DEF StoreFenced, AtMostOneUnverified, Unverified, Completed
<1>7. ServerSound'
  BY <1>0 DEF ServerSound
<1> QED
  BY <1>2, <1>3, <1>4, <1>5, <1>6, <1>7 DEF LifecycleInv

\* apply acquires the fence, or waits for it, or is refused.
LEMMA RequestApplyLifecycle ==
    ASSUME LifecycleInv, ClaimInv', NEW c \in Callers, NEW r \in Requests,
           RequestApply(c, r)
    PROVE  LifecycleInv'
<1> USE DEF RequestApply, durableVars
<1>0. /\ FenceInv /\ ReservationWhole /\ TypeOK /\ StoreFenced /\ ClaimProven
      /\ HandlersSound /\ pc \in [Callers -> Steps] /\ open_tx \in Manifests \cup {NoManifest}
  BY DEF LifecycleInv, ClaimInv, FenceInv, LifecycleTypeOK, Steps
<1>1. CASE Granted(c, r)
  <2>1. /\ phase'[c] = "active"
        /\ \A d \in Callers \ {c} : GuardLive(d)' <=> GuardLive(d)
        /\ repair_lease'.manifest = r.manifest
        /\ Leased => repair_lease.manifest = r.manifest
        /\ UNCHANGED <<recovery_complete, startup_claim, startup_claim_complete,
                       runtime_resumption>>
    BY <1>0, <1>1, GrantEffect DEF Granted
  <2>2. GuardLive(c)'
    BY <2>1 DEF GuardLive
  <2>3. \A d \in Callers \ {c} : ~GuardLive(d) /\ ~GuardLive(d)'
    BY <2>1, <2>2 DEF ClaimInv, FenceInv, SingleAttempt, LiveGuards
  <2>4. \A m \in Unverified : repair_lease'.manifest = m
    BY <1>0, <2>1, CoordinatorAssumption DEF StoreFenced, Leased, Unverified
  <2>5. ClaimProven'
    BY <1>0, <2>1 DEF ClaimProven, Completed
  <2>6. pc' = [pc EXCEPT ![c] = "acquired"]
    BY <2>1 DEF Goto
  <2> QED
    BY <1>0, <2>1, <2>2, <2>3, <2>4, <2>5, <2>6, AttemptStep
       DEF Steps, ApplyOwned, VerifyOwned, ApplySteps, VerifySteps, StepSound
<1>2. CASE ~Granted(c, r)
  <2>1. RefuseRepair(c, r) \/ RegisterAndWait(c, r)
    BY <1>2 DEF Acquire, Granted
  <2>2. phase'[c] # "active"
    <3>1. PICK p \in {"idle", "leaving", "parked"} : Move(c, p, Lapsed)
      BY <2>1 DEF RefuseRepair, RegisterAndWait
    <3>2. Lapsed \in BOOLEAN /\ c \in Tasks
      BY <1>0 DEF Lapsed, TypeOK, Tasks
    <3> QED
      BY <1>0, <3>1, <3>2, MoveOthers DEF Phases
  <2>3. pc' = pc
    BY <1>0, <2>2 DEF Goto
  <2> QED
    BY <2>1, <2>3, WaitingLifecycle
<1> QED
  BY <1>1, <1>2

\* verify takes over the idle durable lease.
LEMMA RequestVerifyLifecycle ==
    ASSUME LifecycleInv, ClaimInv', NEW c \in Callers, NEW m \in Manifests,
           RequestVerify(c, m)
    PROVE  LifecycleInv'
<1> USE DEF RequestVerify, durableVars
<1>0. /\ FenceInv /\ TypeOK /\ StoreFenced /\ ClaimProven /\ c \in Tasks
      /\ open_tx \in Manifests \cup {NoManifest} /\ Callers \subseteq Tasks
  BY DEF LifecycleInv, ClaimInv, FenceInv, LifecycleTypeOK, Tasks
<1>1. /\ repair_lease.manifest = m /\ repair_lease'.manifest = m
      /\ repair_lease'.durable
      /\ UNCHANGED <<recovery_complete, startup_claim, startup_claim_complete,
                     runtime_resumption>>
      /\ Move(c, "active", FALSE)
  BY DEF AcquireVerification, GrantAttempt, grantUnchanged
<1>2. /\ GuardLive(c)'
      /\ \A d \in Callers \ {c} : GuardLive(d)' <=> GuardLive(d)
  BY <1>0, <1>1, MoveOthers DEF Phases, GuardLive
<1>3. \A d \in Callers \ {c} : ~GuardLive(d) /\ ~GuardLive(d)'
  BY <1>2 DEF ClaimInv, FenceInv, SingleAttempt, LiveGuards
<1>4. \A n \in Unverified : repair_lease'.manifest = n
  BY <1>0, <1>1 DEF StoreFenced
<1>5. ClaimProven'
  BY <1>0, <1>1 DEF ClaimProven, Completed
<1> QED
  BY <1>0, <1>1, <1>2, <1>3, <1>4, <1>5, AttemptStep
     DEF Goto, Steps, ApplyOwned, VerifyOwned, ApplySteps, VerifySteps, StepSound

\* A settled attempt keeps the invariant if its lease outlives it as long as
\* its manifest is unverified.
LEMMA EndOfAttempt ==
    ASSUME LifecycleInv, ClaimInv', NEW c \in Callers, GuardLive(c),
           NEW notify \in BOOLEAN, Settle(c, notify), Goto(c, "idle"),
           UNCHANGED <<server, disk, target, review, recovery_complete>>,
           open_tx' \in Manifests \cup {NoManifest},
           Manifest(c) \in Unverified => repair_lease'.manifest = Manifest(c),
           ClaimProven'
    PROVE  LifecycleInv'
<1>0. TypeOK
  BY DEF LifecycleInv, ClaimInv, FenceInv
<1>1. /\ server = "up" /\ \A m \in Unverified : m = Manifest(c)
      /\ \A d \in Callers \ {c} : ~GuardLive(d)
  BY RunningHandler
<1>2. ~GuardLive(c)' /\ \A d \in Callers \ {c} : GuardLive(d)' <=> GuardLive(d)
  BY <1>0, SettleEffect
<1> QED
  BY <1>1, <1>2, AttemptStep
     DEF Goto, Steps, ApplyOwned, VerifyOwned, ApplySteps, VerifySteps

\* An apply that ends retains the fence unless its manifest is verified or
\* nothing of it reached the store.
LEMMA SettleApplyLifecycle ==
    ASSUME LifecycleInv, ClaimInv', NEW c \in Callers,
           \/ SettleApplied(c)
           \/ \E unreadable \in BOOLEAN : SettleFailedApply(c, unreadable)
    PROVE  LifecycleInv'
<1> USE DEF SettleApplied, SettleFailedApply, durableVars
<1>0. ClaimProven /\ open_tx \in Manifests \cup {NoManifest} /\ pc[c] # "idle"
  BY DEF LifecycleInv, LifecycleTypeOK
<1>1. /\ GuardLive(c) /\ Manifest(c) = repair_lease.manifest
  BY <1>0, RunningHandler
<1>2. \/ RetainUntilVerification(c)
      \/ ReleaseAfterPrecommitFailure(c) /\ Manifest(c) \notin Unverified
  BY DEF Unverified
<1>3. /\ Settle(c, TRUE)
      /\ UNCHANGED <<recovery_complete, startup_claim, startup_claim_complete,
                     runtime_resumption>>
      /\ Manifest(c) \in Unverified => repair_lease'.manifest = Manifest(c)
  <2> USE DEF settleUnchanged
  <2>1. CASE RetainUntilVerification(c)
    BY <1>1, <2>1 DEF RetainUntilVerification, IdleDurable
  <2>2. CASE ReleaseAfterPrecommitFailure(c) /\ Manifest(c) \notin Unverified
    BY <2>2 DEF ReleaseAfterPrecommitFailure
  <2> QED
    BY <1>2, <2>1, <2>2
<1>4. ClaimProven' /\ Goto(c, "idle") /\ UNCHANGED <<server, durableVars>>
  BY <1>0, <1>3 DEF ClaimProven, Completed
<1> QED
  BY <1>0, <1>1, <1>3, <1>4, EndOfAttempt

\* A verification ends the lease only with the proof on disk; a refused call
\* keeps it until the guard drops.
LEMMA SettleVerifiedLifecycle ==
    ASSUME LifecycleInv, ClaimInv', NEW c \in Callers, SettleVerified(c)
    PROVE  LifecycleInv'
<1> USE DEF SettleVerified, durableVars
<1>0. /\ ClaimProven /\ open_tx \in Manifests \cup {NoManifest} /\ pc[c] = "verified"
      /\ FenceInv /\ TypeOK /\ Callers \subseteq Tasks
  BY DEF LifecycleInv, LifecycleTypeOK, ClaimInv, FenceInv, Tasks
<1>1. /\ GuardLive(c) /\ Manifest(c) \in Manifests /\ server = "up"
      /\ \A d \in Callers \ {c} : ~GuardLive(d)
      /\ \A m \in Unverified : m = repair_lease.manifest
      /\ runtime_resumption = "none"
  BY <1>0, RunningHandler
<1>2. Completed(Manifest(c)) /\ repair_lease.durable
  BY <1>0 DEF LifecycleInv, StepsSound, StepSound, Proven, Completed,
              HandlersSound, VerifyOwned
<1>3. Manifest(c) \notin Unverified
  BY <1>2 DEF Unverified
<1>4. CASE ReleaseAfterVerification(c) /\ Goto(c, "idle")
  <2>1. /\ Settle(c, TRUE)
        /\ UNCHANGED <<recovery_complete, startup_claim, runtime_resumption>>
        /\ startup_claim_complete' =
              (startup_claim_complete \/ startup_claim.manifest = Manifest(c))
    BY <1>4 DEF ReleaseAfterVerification, settleUnchanged, Manifest
  <2>2. startup_claim.manifest \in Manifests => startup_claim \in Requests
    BY <1>0, CoordinatorAssumption DEF TypeOK, NoRequest
  <2>3. ClaimProven'
    BY <1>0, <1>1, <1>2, <2>1, <2>2 DEF ClaimProven, Completed
  <2> QED
    BY <1>0, <1>1, <1>3, <1>4, <2>1, <2>3, EndOfAttempt
<1>5. CASE (\E next \in Requests : HandoffAfterVerification(c, next)) /\ Goto(c, "idle")
  <2>1. PICK next \in Requests : HandoffAfterVerification(c, next)
    BY <1>5
  <2>2. /\ Settle(c, FALSE)
        /\ UNCHANGED <<recovery_complete, runtime_resumption>>
        /\ \/ startup_claim_complete' = FALSE
           \/ UNCHANGED <<startup_claim, startup_claim_complete>>
    BY <2>1 DEF HandoffAfterVerification, settleUnchanged
  <2>3. ClaimProven'
    BY <1>0, <1>1, <2>2 DEF ClaimProven, Completed
  <2> QED
    BY <1>0, <1>1, <1>3, <1>5, <2>2, <2>3, EndOfAttempt
<1>6. CASE SettleRefused(c) /\ Goto(c, "unverified")
  <2>1. /\ Move(c, "dropping", FALSE)
        /\ UNCHANGED <<recovery_complete, startup_claim, startup_claim_complete,
                       runtime_resumption, repair_lease, guard>>
    BY <1>6 DEF SettleRefused, settleUnchanged
  <2>2. GuardLive(c)' /\ \A d \in Callers \ {c} : GuardLive(d)' <=> GuardLive(d)
    BY <1>0, <2>1, MoveOthers DEF Phases, GuardLive
  <2>3. ClaimProven'
    BY <1>0, <2>1 DEF ClaimProven, Completed
  <2> QED
    BY <1>0, <1>1, <1>2, <1>6, <2>1, <2>2, <2>3, AttemptStep
       DEF Goto, Steps, ApplyOwned, VerifyOwned, ApplySteps, VerifySteps, StepSound
<1> QED
  BY <1>4, <1>5, <1>6

\* A dropped guard leaves its lease: an apply has marked it, a verification
\* holds a durable one.
LEMMA AbandonLifecycle ==
    ASSUME LifecycleInv, ClaimInv', NEW c \in Callers, AbandonAttempt(c)
    PROVE  LifecycleInv'
<1> USE DEF AbandonAttempt
<1>0. /\ ClaimProven /\ HandlersSound /\ open_tx \in Manifests \cup {NoManifest}
      /\ pc[c] \in ApplyOwned \cup VerifyOwned /\ pc[c] # "idle"
  BY DEF LifecycleInv, LifecycleTypeOK, ApplyOwned, VerifyOwned, ApplySteps,
         VerifySteps
<1>1. /\ GuardLive(c) /\ Owns(c) /\ Manifest(c) \in Manifests
      /\ Manifest(c) = repair_lease.manifest
  BY <1>0, RunningHandler
<1>2. /\ Settle(c, TRUE) /\ repair_lease' = IdleDurable
      /\ UNCHANGED <<recovery_complete, startup_claim, startup_claim_complete,
                     runtime_resumption>>
  BY <1>0, <1>1 DEF DropGuard, HandlersSound, settleUnchanged
<1>3. ClaimProven'
  BY <1>0, <1>2 DEF ClaimProven, Completed
<1>4. repair_lease'.manifest = Manifest(c)
  BY <1>1, <1>2 DEF IdleDurable
<1> QED
  BY <1>0, <1>1, <1>2, <1>3, <1>4, EndOfAttempt

\* Marking the guard is what lets an apply be abandoned.
LEMMA MarkUncertainLifecycle ==
    ASSUME LifecycleInv, ClaimInv', NEW c \in Callers, MarkUncertain(c)
    PROVE  LifecycleInv'
<1> USE DEF MarkUncertain, RetainOnUncertainDrop, durableVars
<1>0. /\ ClaimProven /\ open_tx \in Manifests \cup {NoManifest} /\ pc[c] # "idle"
      /\ guard \in [Callers -> [manifest : Manifests \cup {NoManifest},
                                token : 0..TokenLimit, retain : BOOLEAN]]
  BY DEF LifecycleInv, LifecycleTypeOK, TypeOK
<1>1. /\ GuardLive(c) /\ server = "up" /\ Manifest(c) = repair_lease.manifest
      /\ \A d \in Callers \ {c} : ~GuardLive(d)
      /\ \A m \in Unverified : m = Manifest(c)
  BY <1>0, RunningHandler
<1>2. guard'[c].retain = TRUE
  BY <1>0
<1>3. /\ UNCHANGED <<recovery_complete, startup_claim, startup_claim_complete,
                     runtime_resumption, repair_lease, phase>>
  BY DEF coordinatorVars
<1>4. ClaimProven' /\ GuardLive(c)' /\ \A d \in Callers \ {c} : ~GuardLive(d)'
  BY <1>0, <1>1, <1>3 DEF ClaimProven, Completed, GuardLive
<1> QED
  BY <1>0, <1>1, <1>2, <1>3, <1>4, AttemptStep
     DEF Goto, Steps, ApplyOwned, VerifyOwned, ApplySteps, VerifySteps, StepSound

\* A crash takes the fence and the handlers and leaves the store.
LEMMA CrashLifecycle ==
    ASSUME LifecycleInv, ClaimInv', Crash
    PROVE  LifecycleInv'
<1> USE DEF Crash
<1>0. LifecycleTypeOK /\ ManifestsSound /\ StoreFenced
  BY DEF LifecycleInv
<1>1. LifecycleTypeOK'
  BY <1>0 DEF LifecycleTypeOK, ClaimInv, FenceInv
<1>2. ServerSound' /\ ClaimProven' /\ StepsSound'
  BY DEF FreshCoordinator, ServerSound, ClaimProven, StepsSound
<1>3. HandlersSound'
  BY DEF FreshCoordinator, HandlersSound, GuardLive, Tasks, ApplyOwned,
         VerifyOwned, ApplySteps, VerifySteps
<1>4. ManifestsSound'
  BY <1>0 DEF ManifestsSound
<1>5. StoreFenced'
  BY <1>0 DEF StoreFenced, AtMostOneUnverified, Unverified, Completed
<1> QED
  BY <1>1, <1>2, <1>3, <1>4, <1>5 DEF LifecycleInv

-----------------------------------------------------------------------------
(* Steps on the store *)

\* What a write of the pending receipt does, and what it keeps.
LEMMA PendingWrite ==
    ASSUME NEW k0 \in Artifacts, NEW p \in {"none", "blank", "prepared"},
           NEW k, k = [k0 EXCEPT !.pending = p]
    PROVE  /\ k \in Artifacts /\ k.pending = p /\ k.applied = k0.applied
           /\ k.verified = k0.verified /\ k.marker = k0.marker
           /\ k.cancelled = k0.cancelled
  BY DEF Artifacts

\* The same of the final apply receipt.
LEMMA AppliedWrite ==
    ASSUME NEW k0 \in Artifacts, NEW k, k = [k0 EXCEPT !.applied = TRUE]
    PROVE  /\ k \in Artifacts /\ k.pending = k0.pending /\ k.applied = TRUE
           /\ k.verified = k0.verified /\ k.marker = k0.marker
           /\ k.cancelled = k0.cancelled
  BY DEF Artifacts

\* The same of the verification receipt.
LEMMA VerifiedWrite ==
    ASSUME NEW k0 \in Artifacts, NEW k, k = [k0 EXCEPT !.verified = TRUE]
    PROVE  /\ k \in Artifacts /\ k.pending = k0.pending /\ k.applied = k0.applied
           /\ k.verified = TRUE /\ k.marker = k0.marker
           /\ k.cancelled = k0.cancelled
  BY DEF Artifacts

\* The same of the review completion marker.
LEMMA MarkerWrite ==
    ASSUME NEW k0 \in Artifacts, NEW b \in BOOLEAN,
           NEW k, k = [k0 EXCEPT !.marker = b]
    PROVE  /\ k \in Artifacts /\ k.pending = k0.pending /\ k.applied = k0.applied
           /\ k.verified = k0.verified /\ k.marker = b
           /\ k.cancelled = k0.cancelled
  BY DEF Artifacts

\* The same of the cancellation marker.
LEMMA CancelledWrite ==
    ASSUME NEW k0 \in Artifacts, NEW k, k = [k0 EXCEPT !.cancelled = TRUE]
    PROVE  /\ k \in Artifacts /\ k.pending = k0.pending /\ k.applied = k0.applied
           /\ k.verified = k0.verified /\ k.marker = k0.marker
           /\ k.cancelled = TRUE
  BY DEF Artifacts

\* Handler c writes its own manifest and goes on to step s: the manifest stays
\* sound, the handler knows what its next step relies on, and a proof on disk
\* stays a proof.
HandlerWrites(c, s) ==
    LET m == Manifest(c) IN
    /\ UNCHANGED <<fenceVars, server>>
    /\ pc[c] # "idle" /\ s \in Steps \ {"idle"} /\ pc' = [pc EXCEPT ![c] = s]
    /\ \/ pc[c] \in ApplyOwned /\ s \in ApplyOwned
       \/ pc[c] \in VerifyOwned /\ s \in VerifyOwned
    /\ disk' \in [Manifests -> Artifacts]
    /\ target' \in [Manifests -> {"expected", "repaired", "edited"}]
    /\ review' \in [Manifests -> {"awaiting_review", "resolved", "dismissed"}]
    /\ open_tx' \in Manifests \cup {NoManifest}
    /\ \A n \in Manifests \ {m} :
          disk'[n] = disk[n] /\ target'[n] = target[n] /\ review'[n] = review[n]
    /\ StepSound(m, s, disk'[m], target'[m])
    /\ ManifestSound(m, disk'[m], target'[m], review'[m])
    /\ Proven(m, disk[m]) => Proven(m, disk'[m])

\* Such a step keeps the invariant.
LEMMA StoreStep ==
    ASSUME LifecycleInv, ClaimInv', NEW c \in Callers, NEW s, HandlerWrites(c, s)
    PROVE  LifecycleInv'
<1> DEFINE m == Manifest(c)
<1> USE DEF HandlerWrites
<1>0. /\ LifecycleTypeOK /\ HandlersSound /\ ManifestsSound /\ StoreFenced
      /\ ServerSound /\ ClaimProven
  BY DEF LifecycleInv
<1>1. /\ m \in Manifests /\ m = repair_lease.manifest /\ server = "up"
      /\ \A d \in Callers \ {c} : pc[d] = "idle"
      /\ \A n \in Unverified : n = m
      /\ GuardLive(c)
  BY RunningHandler
<1>2. UNCHANGED <<recovery_complete, repair_lease, startup_claim,
                  startup_claim_complete, runtime_resumption, phase, guard>>
  BY DEF fenceVars, vars, coordinatorVars
<1>3. pc \in [Callers -> Steps]
  BY <1>0 DEF LifecycleTypeOK, Steps
<1>7. /\ pc' \in [Callers -> Steps] /\ pc'[c] = s
      /\ \A d \in Callers \ {c} : pc'[d] = "idle"
  BY <1>1, <1>3
<1>8. LifecycleTypeOK'
  BY <1>0, <1>7
     DEF LifecycleTypeOK, ClaimInv, FenceInv, Artifacts, Steps
<1>9. ServerSound'
  BY <1>0, <1>2 DEF ServerSound
<1>10. HandlersSound'
  <2>1. pc'[c] # "idle" /\ GuardLive(c)'
    BY <1>1, <1>2, <1>7 DEF GuardLive
  <2>2. pc'[c] \in ApplyOwned => guard'[c].retain
    BY <1>0, <1>2, <1>7 DEF HandlersSound, ApplyOwned, VerifyOwned, ApplySteps,
                            VerifySteps
  <2>3. pc'[c] \in VerifyOwned => repair_lease'.durable
    BY <1>0, <1>2, <1>7 DEF HandlersSound, ApplyOwned, VerifyOwned, ApplySteps,
                            VerifySteps
  <2>4. \A d \in Callers \ {c} : /\ pc'[d] = "idle" /\ ~GuardLive(d)'
                                 /\ pc'[d] \notin ApplyOwned \cup VerifyOwned
    BY <1>0, <1>1, <1>2, <1>7 DEF HandlersSound, GuardLive, ApplyOwned,
                                  VerifyOwned, ApplySteps, VerifySteps
  <2> QED
    BY <2>1, <2>2, <2>3, <2>4 DEF HandlersSound
<1>11. StepsSound'
  <2>1. Manifest(c)' = m
    BY <1>2 DEF Manifest
  <2> QED
    BY <1>7, <2>1 DEF StepsSound
<1>12. ManifestsSound'
  BY <1>0 DEF ManifestsSound
<1>13. \A n \in Unverified' : n = m
  BY <1>1 DEF Unverified, Completed
<1>14. StoreFenced'
  BY <1>1, <1>2, <1>13 DEF StoreFenced, AtMostOneUnverified
<1>15. ClaimProven'
  <2>1. \A n \in Manifests : Completed(n) => Completed(n)'
    BY DEF Completed, Proven
  <2>2. startup_claim_complete => startup_claim.manifest \in Manifests
    BY <1>0 DEF ClaimProven, Requests
  <2> QED
    BY <1>0, <1>2, <2>1, <2>2 DEF ClaimProven
<1> QED
  BY <1>8, <1>9, <1>10, <1>11, <1>12, <1>14, <1>15 DEF LifecycleInv

\* What a running handler finds: its manifest is sound and as its step says.
LEMMA HandlerFinds ==
    ASSUME LifecycleInv, NEW c \in Callers, pc[c] # "idle"
    PROVE  /\ Manifest(c) \in Manifests
           /\ disk \in [Manifests -> Artifacts]
           /\ target \in [Manifests -> {"expected", "repaired", "edited"}]
           /\ review \in [Manifests -> {"awaiting_review", "resolved", "dismissed"}]
           /\ open_tx \in Manifests \cup {NoManifest}
           /\ ManifestSound(Manifest(c), disk[Manifest(c)], target[Manifest(c)],
                            review[Manifest(c)])
           /\ StepSound(Manifest(c), pc[c], disk[Manifest(c)], target[Manifest(c)])
<1>0. LifecycleTypeOK /\ ManifestsSound /\ StepsSound
  BY DEF LifecycleInv
<1>1. Manifest(c) \in Manifests
  BY RunningHandler
<1>2. /\ disk \in [Manifests -> Artifacts]
      /\ target \in [Manifests -> {"expected", "repaired", "edited"}]
      /\ review \in [Manifests -> {"awaiting_review", "resolved", "dismissed"}]
      /\ open_tx \in Manifests \cup {NoManifest}
  BY <1>0 DEF LifecycleTypeOK, Artifacts
<1>3. /\ ManifestSound(Manifest(c), disk[Manifest(c)], target[Manifest(c)],
                       review[Manifest(c)])
      /\ StepSound(Manifest(c), pc[c], disk[Manifest(c)], target[Manifest(c)])
  BY <1>0, <1>1 DEF ManifestsSound, StepsSound
<1> QED
  BY <1>1, <1>2, <1>3

\* Steps that write nothing: the lock is taken, or an error is noticed.
LEMMA NoWriteLifecycle ==
    ASSUME LifecycleInv, ClaimInv', NEW c \in Callers,
           LockApply(c) \/ ApplyError(c) \/ RollbackFails(c) \/ VerifyError(c)
    PROVE  LifecycleInv'
<1> USE DEF ApplySteps, VerifySteps, ApplyOwned, VerifyOwned, Steps, Goto, durableVars
<1>0. pc[c] # "idle"
  BY DEF LockApply, ApplyError, RollbackFails, VerifyError
<1>1. /\ Manifest(c) \in Manifests
      /\ disk \in [Manifests -> Artifacts]
      /\ target \in [Manifests -> {"expected", "repaired", "edited"}]
      /\ review \in [Manifests -> {"awaiting_review", "resolved", "dismissed"}]
      /\ open_tx \in Manifests \cup {NoManifest}
      /\ ManifestSound(Manifest(c), disk[Manifest(c)], target[Manifest(c)],
                       review[Manifest(c)])
  BY <1>0, HandlerFinds
<1>2. CASE LockApply(c)
  <2>1. StepSound(Manifest(c), "recover", disk[Manifest(c)], target[Manifest(c)])
    BY <1>2 DEF LockApply, StepSound
  <2>2. HandlerWrites(c, "recover")
    BY <1>0, <1>1, <1>2, <2>1 DEF LockApply, HandlerWrites
  <2> QED
    BY <2>2, StoreStep
<1>3. CASE ApplyError(c) \/ RollbackFails(c)
  <2>1. StepSound(Manifest(c), "failed", disk[Manifest(c)], target[Manifest(c)])
    BY DEF StepSound
  <2>2. HandlerWrites(c, "failed")
    BY <1>0, <1>1, <1>3, <2>1 DEF ApplyError, RollbackFails, HandlerWrites
  <2> QED
    BY <2>2, StoreStep
<1>4. CASE VerifyError(c)
  <2>1. StepSound(Manifest(c), "unverified", disk[Manifest(c)], target[Manifest(c)])
    BY DEF StepSound
  <2>2. HandlerWrites(c, "unverified")
    BY <1>0, <1>1, <1>4, <2>1 DEF VerifyError, HandlerWrites
  <2> QED
    BY <2>2, StoreStep
<1> QED
  BY <1>2, <1>3, <1>4

\* Steps that write the pending receipt and nothing else.
LEMMA PendingLifecycle ==
    ASSUME LifecycleInv, ClaimInv', NEW c \in Callers,
           \/ ReturnExistingReceipt(c) \/ DiscardPending(c)
           \/ BeginApplyReceipt(c) \/ WriteTarget(c) \/ AbortWrite(c)
    PROVE  LifecycleInv'
<1> DEFINE m == Manifest(c)
           k0 == disk[m]
           t == target[m]
           v == review[m]
<1> USE DEF ApplySteps, VerifySteps, ApplyOwned, VerifyOwned, Steps
<1>0. pc[c] # "idle" /\ pc[c] \in ApplyOwned
  BY DEF ReturnExistingReceipt, DiscardPending, BeginApplyReceipt, WriteTarget,
         AbortWrite
<1>1. /\ m \in Manifests /\ disk \in [Manifests -> Artifacts]
      /\ target \in [Manifests -> {"expected", "repaired", "edited"}]
      /\ review \in [Manifests -> {"awaiting_review", "resolved", "dismissed"}]
      /\ open_tx \in Manifests \cup {NoManifest}
      /\ ManifestSound(m, k0, t, v)
      /\ StepSound(m, pc[c], k0, t)
  BY <1>0, HandlerFinds
<1>2. PICK p \in {"none", "blank", "prepared"},
           s \in {"applied", "begin", "write", "commit", "failed"} :
         /\ disk' = [disk EXCEPT ![m].pending = p]
         /\ pc' = [pc EXCEPT ![c] = s]
         /\ UNCHANGED <<fenceVars, server, target, review, open_tx>>
         /\ s = "applied" => k0.applied /\ p = "none"
         /\ s = "begin" => /\ pc[c] = "recover" /\ ~k0.applied /\ p = "none"
                           /\ k0.pending # "none" => t # "repaired"
         /\ s = "write" => pc[c] = "begin" /\ ~k0.applied /\ p = "blank"
                           /\ k0.pending = "none"
         /\ s = "commit" => /\ pc[c] = "write" /\ p = "prepared" /\ t = "expected"
                            /\ m \in ReviewBound => v = "awaiting_review"
         /\ s = "failed" => pc[c] \in {"write", "commit"} /\ p = "none"
  <2> USE DEF Goto
  <2>1. CASE ReturnExistingReceipt(c)
    BY <2>1 DEF ReturnExistingReceipt
  <2>2. CASE DiscardPending(c)
    <3>1. Current(m) = "expected" => t # "repaired"
      BY DEF Current
    <3> QED
      BY <2>2, <3>1 DEF DiscardPending
  <2>3. CASE BeginApplyReceipt(c)
    BY <2>3 DEF BeginApplyReceipt
  <2>4. CASE WriteTarget(c)
    BY <2>4 DEF WriteTarget
  <2>5. CASE AbortWrite(c)
    BY <2>5 DEF AbortWrite
  <2> QED
    BY <2>1, <2>2, <2>3, <2>4, <2>5
<1> DEFINE k == [k0 EXCEPT !.pending = p]
<1>3. /\ disk' \in [Manifests -> Artifacts] /\ disk'[m] = k
      /\ \A n \in Manifests \ {m} : disk'[n] = disk[n]
      /\ k0 \in Artifacts
  BY <1>1, <1>2 DEF Artifacts
<1>4. /\ k.pending = p /\ k.applied = k0.applied
      /\ k.verified = k0.verified /\ k.marker = k0.marker
      /\ k.cancelled = k0.cancelled
  BY <1>3, PendingWrite
<1> HIDE DEF m, k0, k, t, v
<1>5. Proven(m, k) <=> Proven(m, k0)
  BY <1>4 DEF Proven
<1>6. StepSound(m, s, k, t)
  <2>0. /\ k0.pending \in {"none", "blank", "prepared"}
        /\ k0.applied \in BOOLEAN /\ k0.cancelled \in BOOLEAN
    BY <1>3 DEF Artifacts
  <2> QED
    BY <1>1, <1>2, <1>4, <1>5, <2>0 DEF StepSound, ManifestSound
<1>7. ManifestSound(m, k, t, v)
  BY <1>1, <1>2, <1>4, <1>5 DEF StepSound, ManifestSound
<1>8. HandlerWrites(c, s)
  BY <1>0, <1>1, <1>2, <1>3, <1>5, <1>6, <1>7 DEF HandlerWrites, m, k0, t, v
<1> QED
  BY <1>8, StoreStep

\* Publishing the apply receipt, wherever it is interrupted.
LEMMA PublishLifecycle ==
    ASSUME LifecycleInv, ClaimInv', NEW c \in Callers,
           RecoverCommitted(c) \/ PublishCommitted(c)
    PROVE  LifecycleInv'
<1> DEFINE m == Manifest(c)
           k0 == disk[m]
           k == disk'[m]
           t == target[m]
           v == review[m]
<1> USE DEF ApplySteps, VerifySteps, ApplyOwned, VerifyOwned, Steps
<1>0. pc[c] # "idle" /\ pc[c] \in {"recover", "publish"}
  BY DEF RecoverCommitted, PublishCommitted
<1>1. /\ m \in Manifests /\ disk \in [Manifests -> Artifacts]
      /\ target \in [Manifests -> {"expected", "repaired", "edited"}]
      /\ review \in [Manifests -> {"awaiting_review", "resolved", "dismissed"}]
      /\ open_tx \in Manifests \cup {NoManifest}
      /\ ManifestSound(m, k0, t, v)
      /\ StepSound(m, pc[c], k0, t)
  BY <1>0, HandlerFinds
<1>2. /\ PublishApplyReceipt(c)
      /\ ~k0.applied /\ ~k0.cancelled /\ k0.pending = "prepared"
  BY <1>1 DEF RecoverCommitted, PublishCommitted, StepSound
<1>3. PICK s \in {"applied", "failed"} :
         /\ pc' = [pc EXCEPT ![c] = s]
         /\ UNCHANGED <<fenceVars, server, target, review, open_tx>>
         /\ \/ disk' = [disk EXCEPT ![m].applied = TRUE, ![m].pending = "none"]
            \/ disk' = [disk EXCEPT ![m].applied = TRUE]
            \/ disk' = disk
  BY <1>2 DEF PublishApplyReceipt, Goto
<1>4. /\ disk' \in [Manifests -> Artifacts]
      /\ \A n \in Manifests \ {m} : disk'[n] = disk[n]
      /\ \/ k = [[k0 EXCEPT !.applied = TRUE] EXCEPT !.pending = "none"]
         \/ k = [k0 EXCEPT !.applied = TRUE]
         \/ k = k0
      /\ k0 \in Artifacts
  <2>1. k0 \in Artifacts
    BY <1>1
  <2>2. DEFINE k1 == [k0 EXCEPT !.applied = TRUE]
               k2 == [k1 EXCEPT !.pending = "none"]
  <2>3. k1 \in Artifacts
    BY <2>1, AppliedWrite
  <2>4. k2 \in Artifacts
    <3> HIDE DEF k1
    <3> QED
      BY <2>3, PendingWrite
  <2>5. CASE disk' = [disk EXCEPT ![m].applied = TRUE, ![m].pending = "none"]
    <3>1. disk' = [disk EXCEPT ![m] = k2]
      BY <1>1, <2>5
    <3> HIDE DEF k2
    <3>2. k = k2 /\ disk' \in [Manifests -> Artifacts]
          /\ \A n \in Manifests \ {m} : disk'[n] = disk[n]
      BY <1>1, <2>4, <3>1
    <3> QED
      BY <2>1, <3>2 DEF k2
  <2>6. CASE disk' = [disk EXCEPT ![m].applied = TRUE]
    <3>1. disk' = [disk EXCEPT ![m] = k1]
      BY <1>1, <2>6
    <3> HIDE DEF k1
    <3>2. k = k1 /\ disk' \in [Manifests -> Artifacts]
          /\ \A n \in Manifests \ {m} : disk'[n] = disk[n]
      BY <1>1, <2>3, <3>1
    <3> QED
      BY <2>1, <3>2 DEF k1
  <2>7. CASE disk' = disk
    BY <1>1, <2>1, <2>7
  <2> QED
    BY <1>3, <2>5, <2>6, <2>7
<1>5. /\ k.cancelled = k0.cancelled
      /\ k.applied = TRUE \/ k = k0
  <2>1. DEFINE k1 == [k0 EXCEPT !.applied = TRUE]
  <2>2. k1 \in Artifacts /\ k1.applied = TRUE /\ k1.cancelled = k0.cancelled
    BY <1>4, AppliedWrite
  <2>3. CASE k = [k1 EXCEPT !.pending = "none"]
    <3> HIDE DEF k1
    <3> QED
      BY <2>2, <2>3, PendingWrite
  <2> QED
    BY <1>4, <2>2, <2>3
<1> HIDE DEF m, k0, k, t, v
<1>6. ~Proven(m, k0)
  BY <1>2 DEF Proven
<1>7. StepSound(m, s, k, t)
  BY <1>3 DEF StepSound
<1>8. ManifestSound(m, k, t, v)
  BY <1>1, <1>2, <1>5, <1>6 DEF ManifestSound
<1>9. HandlerWrites(c, s)
  BY <1>0, <1>1, <1>3, <1>4, <1>6, <1>7, <1>8 DEF HandlerWrites, m, k0, k, t, v
<1> QED
  BY <1>9, StoreStep

\* COMMIT makes the repair visible, its receipt being on disk.
LEMMA CommitWriteLifecycle ==
    ASSUME LifecycleInv, ClaimInv', NEW c \in Callers, CommitWrite(c)
    PROVE  LifecycleInv'
<1> DEFINE m == Manifest(c)
<1> USE DEF CommitWrite, ApplySteps, VerifySteps, ApplyOwned, VerifyOwned, Steps
<1>1. /\ m \in Manifests /\ disk \in [Manifests -> Artifacts]
      /\ target \in [Manifests -> {"expected", "repaired", "edited"}]
      /\ review \in [Manifests -> {"awaiting_review", "resolved", "dismissed"}]
      /\ open_tx \in Manifests \cup {NoManifest}
      /\ ManifestSound(m, disk[m], target[m], review[m])
      /\ StepSound(m, "commit", disk[m], target[m])
  BY HandlerFinds
<1>2. /\ target' \in [Manifests -> {"expected", "repaired", "edited"}]
      /\ target'[m] = "repaired"
      /\ \A n \in Manifests \ {m} : target'[n] = target[n]
  BY <1>1
<1>3. StepSound(m, "publish", disk[m], "repaired")
  BY <1>1 DEF StepSound
<1>4. ManifestSound(m, disk[m], "repaired", review[m])
  BY <1>1 DEF StepSound, ManifestSound
<1>5. HandlerWrites(c, "publish")
  BY <1>1, <1>2, <1>3, <1>4 DEF HandlerWrites, Goto
<1> QED
  BY <1>5, StoreStep

\* The verification receipt is written for an applied repair only.
LEMMA PersistVerificationLifecycle ==
    ASSUME LifecycleInv, ClaimInv', NEW c \in Callers, PersistVerification(c)
    PROVE  LifecycleInv'
<1> DEFINE m == Manifest(c)
           k0 == disk[m]
           k == [k0 EXCEPT !.verified = TRUE]
<1> USE DEF PersistVerification, ApplySteps, VerifySteps, ApplyOwned, VerifyOwned,
            Steps
<1>1. /\ m \in Manifests /\ disk \in [Manifests -> Artifacts]
      /\ target \in [Manifests -> {"expected", "repaired", "edited"}]
      /\ review \in [Manifests -> {"awaiting_review", "resolved", "dismissed"}]
      /\ open_tx \in Manifests \cup {NoManifest}
      /\ ManifestSound(m, k0, target[m], review[m])
  BY HandlerFinds
<1>2. /\ disk' \in [Manifests -> Artifacts] /\ disk'[m] = k
      /\ \A n \in Manifests \ {m} : disk'[n] = disk[n]
      /\ k0 \in Artifacts /\ k0.applied /\ ~k0.verified
  BY <1>1 DEF Artifacts
<1>3. /\ k.pending = k0.pending /\ k.applied = k0.applied /\ k.verified = TRUE
      /\ k.marker = k0.marker /\ k.cancelled = k0.cancelled
  BY <1>2, VerifiedWrite
<1> HIDE DEF m, k0, k
<1>4. StepSound(m, "finalize", k, target[m])
  BY <1>2, <1>3 DEF StepSound
<1>5. ~Proven(m, k0)
  BY <1>2 DEF Proven
<1>6. ManifestSound(m, k, target[m], review[m])
  BY <1>1, <1>2, <1>3, <1>5 DEF ManifestSound
<1>7. HandlerWrites(c, "finalize")
  BY <1>1, <1>2, <1>4, <1>5, <1>6 DEF HandlerWrites, Goto, m, k0
<1> QED
  BY <1>7, StoreStep

\* The review item is resolved only with both receipts on disk.
LEMMA FinalizeLifecycle ==
    ASSUME LifecycleInv, ClaimInv', NEW c \in Callers,
           CommitVerification(c) \/ ReconcileReview(c)
    PROVE  LifecycleInv'
<1> DEFINE m == Manifest(c)
<1> USE DEF ApplySteps, VerifySteps, ApplyOwned, VerifyOwned, Steps
<1>0. /\ pc[c] \in {"finalize", "verify"} /\ review' = Finalized(m)
      /\ pc' = [pc EXCEPT ![c] = "marker"]
      /\ UNCHANGED <<fenceVars, server, disk, target, open_tx>>
      /\ pc[c] = "verify" => disk[m].applied /\ disk[m].verified
  BY DEF CommitVerification, ReconcileReview, Goto
<1>1. /\ m \in Manifests /\ disk \in [Manifests -> Artifacts]
      /\ target \in [Manifests -> {"expected", "repaired", "edited"}]
      /\ review \in [Manifests -> {"awaiting_review", "resolved", "dismissed"}]
      /\ open_tx \in Manifests \cup {NoManifest}
      /\ ManifestSound(m, disk[m], target[m], review[m])
      /\ StepSound(m, pc[c], disk[m], target[m])
  BY <1>0, HandlerFinds
<1>2. disk[m].applied /\ disk[m].verified
  BY <1>0, <1>1 DEF StepSound
<1>3. /\ review' \in [Manifests -> {"awaiting_review", "resolved", "dismissed"}]
      /\ review'[m] \in {review[m], "resolved"}
      /\ \A n \in Manifests \ {m} : review'[n] = review[n]
  BY <1>0, <1>1 DEF Finalized
<1>4. StepSound(m, "marker", disk[m], target[m])
  BY <1>2 DEF StepSound
<1>5. ManifestSound(m, disk[m], target[m], review'[m])
  BY <1>1, <1>2, <1>3 DEF ManifestSound
<1>6. HandlerWrites(c, "marker")
  BY <1>0, <1>1, <1>3, <1>4, <1>5 DEF HandlerWrites
<1> QED
  BY <1>6, StoreStep

\* The marker, for a review-bound manifest, completes the proof.
LEMMA PublishMarkerLifecycle ==
    ASSUME LifecycleInv, ClaimInv', NEW c \in Callers, PublishMarker(c)
    PROVE  LifecycleInv'
<1> DEFINE m == Manifest(c)
           k0 == disk[m]
           b == m \in ReviewBound
           k1 == [k0 EXCEPT !.marker = b]
           k == disk'[m]
<1> USE DEF ApplySteps, VerifySteps, ApplyOwned, VerifyOwned, Steps
<1>0. pc[c] = "marker"
  BY DEF PublishMarker
<1>1. /\ m \in Manifests /\ disk \in [Manifests -> Artifacts]
      /\ target \in [Manifests -> {"expected", "repaired", "edited"}]
      /\ review \in [Manifests -> {"awaiting_review", "resolved", "dismissed"}]
      /\ open_tx \in Manifests \cup {NoManifest}
      /\ ManifestSound(m, k0, target[m], review[m])
      /\ StepSound(m, "marker", k0, target[m])
  BY <1>0, HandlerFinds
<1>2. PICK s \in {"verified", "unverified"} :
         /\ pc' = [pc EXCEPT ![c] = s]
         /\ UNCHANGED <<fenceVars, server, target, review, open_tx>>
         /\ \/ disk' = [[disk EXCEPT ![m].marker = b] EXCEPT ![m].pending = "none"]
            \/ disk' = [disk EXCEPT ![m].marker = b]
  BY DEF PublishMarker, Goto
<1>3. k0 \in Artifacts /\ b \in BOOLEAN
  BY <1>1
<1>4. /\ k1 \in Artifacts /\ k1.pending = k0.pending /\ k1.applied = k0.applied
      /\ k1.verified = k0.verified /\ k1.marker = b /\ k1.cancelled = k0.cancelled
  <2> HIDE DEF k0, b
  <2> QED
    BY <1>3, MarkerWrite
<1>a. /\ disk' \in [Manifests -> Artifacts]
      /\ \A n \in Manifests \ {m} : disk'[n] = disk[n]
      /\ k = [k1 EXCEPT !.pending = "none"] \/ k = k1
  <2> DEFINE d == [disk EXCEPT ![m] = k1]
             k2 == [k1 EXCEPT !.pending = "none"]
  <2>1. disk' = [d EXCEPT ![m].pending = "none"] \/ disk' = d
    BY <1>2
  <2>2. k2 \in Artifacts
    <3> HIDE DEF k1
    <3> QED
      BY <1>4, PendingWrite
  <2> HIDE DEF k1
  <2>3. /\ d \in [Manifests -> Artifacts] /\ d[m] = k1
        /\ \A n \in Manifests \ {m} : d[n] = disk[n]
    BY <1>1, <1>4
  <2> HIDE DEF d
  <2>4. CASE disk' = d
    BY <2>3, <2>4
  <2>5. CASE disk' = [d EXCEPT ![m].pending = "none"]
    <3>1. disk' = [d EXCEPT ![m] = k2]
      BY <1>1, <2>3, <2>5
    <3> HIDE DEF k2
    <3>2. k = k2 /\ disk' \in [Manifests -> Artifacts]
          /\ \A n \in Manifests \ {m} : disk'[n] = disk[n]
      BY <1>1, <2>2, <2>3, <3>1
    <3> QED
      BY <3>2 DEF k2
  <2> QED
    BY <2>1, <2>4, <2>5
<1> HIDE DEF k1
<1>5. /\ k.applied = k0.applied /\ k.verified = k0.verified
      /\ k.marker = b /\ k.cancelled = k0.cancelled
      /\ k.pending = k0.pending \/ k.pending = "none"
  <2>1. CASE k = k1
    BY <1>4, <2>1
  <2>2. CASE k = [k1 EXCEPT !.pending = "none"]
    BY <1>4, <2>2, PendingWrite
  <2> QED
    BY <1>a, <2>1, <2>2
<1> HIDE DEF m, k0, k
<1>6. Proven(m, k)
  BY <1>1, <1>5 DEF StepSound, Proven
<1>7. StepSound(m, s, k, target[m])
  BY <1>2, <1>6 DEF StepSound
<1>8. ManifestSound(m, k, target[m], review[m])
  BY <1>1, <1>5, <1>6 DEF ManifestSound, StepSound
<1>9. HandlerWrites(c, s)
  BY <1>0, <1>1, <1>2, <1>a, <1>6, <1>7, <1>8 DEF HandlerWrites, m, k0, k
<1> QED
  BY <1>9, StoreStep


-----------------------------------------------------------------------------
(* Steps of everybody else *)

\* Somebody outside the handlers writes manifest m: its receipts stay, it
\* stays sound, and a handler working on it does not notice.
OutsideWrites(m) ==
    /\ UNCHANGED <<fenceVars, server, pc, open_tx>>
    /\ disk' \in [Manifests -> Artifacts]
    /\ target' \in [Manifests -> {"expected", "repaired", "edited"}]
    /\ review' \in [Manifests -> {"awaiting_review", "resolved", "dismissed"}]
    /\ \A n \in Manifests \ {m} :
          disk'[n] = disk[n] /\ target'[n] = target[n] /\ review'[n] = review[n]
    /\ disk'[m].pending = disk[m].pending /\ disk'[m].applied = disk[m].applied
    /\ disk'[m].verified = disk[m].verified /\ disk'[m].marker = disk[m].marker
    /\ ManifestSound(m, disk'[m], target'[m], review'[m])
    /\ \A c \in Callers : pc[c] # "idle" /\ Manifest(c) = m =>
          StepSound(m, pc[c], disk'[m], target'[m])

\* Such a step keeps the invariant.
LEMMA OutsideStep ==
    ASSUME LifecycleInv, ClaimInv', NEW m \in Manifests, OutsideWrites(m)
    PROVE  LifecycleInv'
<1> USE DEF OutsideWrites
<1>0. /\ LifecycleTypeOK /\ HandlersSound /\ ManifestsSound /\ StoreFenced
      /\ ServerSound /\ ClaimProven /\ StepsSound
  BY DEF LifecycleInv
<1>1. UNCHANGED <<recovery_complete, repair_lease, startup_claim,
                  startup_claim_complete, runtime_resumption, phase, guard>>
  BY DEF fenceVars, vars, coordinatorVars
<1>2. LifecycleTypeOK'
  BY <1>0 DEF LifecycleTypeOK, ClaimInv, FenceInv, Artifacts
<1>3. ServerSound' /\ HandlersSound'
  BY <1>0, <1>1 DEF ServerSound, HandlersSound, GuardLive
<1>4. StepsSound'
  <2>1. \A c \in Callers : pc[c] # "idle" => Manifest(c) \in Manifests
    BY RunningHandler
  <2>2. \A c \in Callers : Manifest(c)' = Manifest(c)
    BY <1>1 DEF Manifest
  <2> QED
    BY <1>0, <2>1, <2>2 DEF StepsSound
<1>5. ManifestsSound'
  BY <1>0 DEF ManifestsSound
<1>6. \A n \in Manifests : /\ Completed(n)' <=> Completed(n)
                           /\ n \in Unverified' <=> n \in Unverified
  BY DEF Completed, Unverified
<1>7. Unverified' = Unverified
  BY <1>6 DEF Unverified
<1>8. StoreFenced'
  BY <1>0, <1>1, <1>7 DEF StoreFenced, AtMostOneUnverified
<1>9. ClaimProven'
  <2>1. startup_claim_complete => startup_claim.manifest \in Manifests
    BY <1>0 DEF ClaimProven, Requests
  <2> QED
    BY <1>0, <1>1, <1>6, <2>1 DEF ClaimProven
<1> QED
  BY <1>2, <1>3, <1>4, <1>5, <1>8, <1>9 DEF LifecycleInv

\* Cancelling takes a manifest without artifacts, past nobody's lock.
LEMMA CancelLifecycle ==
    ASSUME LifecycleInv, ClaimInv', NEW m \in Manifests, HandleCancel(m)
    PROVE  LifecycleInv'
<1> DEFINE k0 == disk[m]
           k == [k0 EXCEPT !.cancelled = TRUE]
<1> USE DEF HandleCancel
<1>0. /\ disk \in [Manifests -> Artifacts]
      /\ target \in [Manifests -> {"expected", "repaired", "edited"}]
      /\ review \in [Manifests -> {"awaiting_review", "resolved", "dismissed"}]
      /\ ManifestSound(m, k0, target[m], review[m])
      /\ pc \in [Callers -> Steps]
  BY DEF LifecycleInv, LifecycleTypeOK, Artifacts, ManifestsSound, Steps
<1>1. /\ disk' \in [Manifests -> Artifacts] /\ disk'[m] = k
      /\ \A n \in Manifests \ {m} : disk'[n] = disk[n]
      /\ k0 \in Artifacts
  BY <1>0 DEF Artifacts
<1>2. /\ k.pending = k0.pending /\ k.applied = k0.applied
      /\ k.verified = k0.verified /\ k.marker = k0.marker
  BY <1>1, CancelledWrite
<1>3. /\ k0.pending = "none" /\ k0.applied = FALSE
      /\ k0.verified = FALSE /\ k0.marker = FALSE
  BY DEF PreparedManifest
<1>4. \A c \in Callers : pc[c] # "idle" /\ Manifest(c) = m =>
         /\ pc[c] \notin (ApplySteps \ {"lock"}) \cup VerifySteps
         /\ StepSound(m, pc[c], k0, target[m])
  BY DEF OperationLocked, LifecycleInv, StepsSound
<1> HIDE DEF k0, k
<1>5. ManifestSound(m, k, target[m], review[m])
  BY <1>0, <1>2, <1>3 DEF ManifestSound, Proven
<1>6. ASSUME NEW c \in Callers, pc[c] # "idle", Manifest(c) = m
      PROVE  StepSound(m, pc[c], k, target[m])
  <2>1. /\ pc[c] \notin (ApplySteps \ {"lock"}) \cup VerifySteps
        /\ StepSound(m, pc[c], k0, target[m])
    BY <1>4, <1>6
  <2>2. pc[c] # "verified"
    BY <1>3, <2>1 DEF StepSound, Proven
  <2> QED
    BY <2>1, <2>2 DEF StepSound, ApplySteps, VerifySteps
<1>7. OutsideWrites(m)
  BY <1>0, <1>1, <1>2, <1>5, <1>6 DEF OutsideWrites, k0
<1> QED
  BY <1>7, OutsideStep

\* An edit waits for the one connection, so no handler is at its COMMIT.
LEMMA EditLifecycle ==
    ASSUME LifecycleInv, ClaimInv', NEW m \in Manifests, EditTarget(m)
    PROVE  LifecycleInv'
<1> USE DEF EditTarget
<1>0. /\ disk \in [Manifests -> Artifacts]
      /\ target \in [Manifests -> {"expected", "repaired", "edited"}]
      /\ review \in [Manifests -> {"awaiting_review", "resolved", "dismissed"}]
      /\ ManifestSound(m, disk[m], target[m], review[m])
  BY DEF LifecycleInv, LifecycleTypeOK, Artifacts, ManifestsSound
<1>1. /\ target' \in [Manifests -> {"expected", "repaired", "edited"}]
      /\ target'[m] = "edited"
      /\ \A n \in Manifests \ {m} : target'[n] = target[n]
  BY <1>0
<1>2. ManifestSound(m, disk[m], "edited", review[m])
  BY <1>0 DEF ManifestSound
<1>3. ASSUME NEW c \in Callers, pc[c] # "idle", Manifest(c) = m
      PROVE  StepSound(m, pc[c], disk[m], "edited")
  <2>1. pc[c] # "commit"
    BY DEF InTransaction, TransactionSteps
  <2>2. StepSound(m, pc[c], disk[m], target[m])
    BY <1>3 DEF LifecycleInv, StepsSound
  <2> QED
    BY <2>1, <2>2 DEF StepSound
<1>4. OutsideWrites(m)
  BY <1>0, <1>1, <1>2, <1>3 DEF OutsideWrites
<1> QED
  BY <1>4, OutsideStep

\* A writer that runs has been admitted, so there is no lease, and without a
\* lease a serving daemon has nothing unverified: a dismissed review item has
\* no apply waiting for its verification.
LEMMA DismissLifecycle ==
    ASSUME LifecycleInv, ClaimInv', NEW w \in Writers, NEW m \in Manifests,
           DismissReview(w, m)
    PROVE  LifecycleInv'
<1> USE DEF DismissReview
<1>0. /\ disk \in [Manifests -> Artifacts]
      /\ target \in [Manifests -> {"expected", "repaired", "edited"}]
      /\ review \in [Manifests -> {"awaiting_review", "resolved", "dismissed"}]
      /\ ManifestSound(m, disk[m], target[m], review[m])
      /\ FenceInv /\ ServerSound /\ StoreFenced /\ w \in Tasks
  BY DEF LifecycleInv, LifecycleTypeOK, Artifacts, ManifestsSound, ClaimInv, Tasks
<1>1. server = "up"
  BY <1>0 DEF ServerSound
<1>2. ~Leased
  <2>1. w \in ActiveWriters
    BY DEF ActiveWriters
  <2>2. active_background # 0
    BY <1>0, <2>1, CounterZero DEF FenceInv
  <2> QED
    BY <1>0, <2>2 DEF FenceInv, Compatible
<1>3. m \notin Unverified
  BY <1>0, <1>1, <1>2, CoordinatorAssumption DEF StoreFenced, Leased
<1>4. disk[m].applied \/ disk[m].pending = "prepared" => Proven(m, disk[m])
  BY <1>3 DEF Unverified, Completed, Proven
<1>5. /\ review' \in [Manifests -> {"awaiting_review", "resolved", "dismissed"}]
      /\ review'[m] = "dismissed"
      /\ \A n \in Manifests \ {m} : review'[n] = review[n]
  BY <1>0
<1>6. ManifestSound(m, disk[m], target[m], "dismissed")
  BY <1>0, <1>4 DEF ManifestSound
<1>7. \A c \in Callers : pc[c] # "idle" /\ Manifest(c) = m =>
         StepSound(m, pc[c], disk[m], target[m])
  BY DEF LifecycleInv, StepsSound
<1>8. OutsideWrites(m)
  BY <1>0, <1>5, <1>6, <1>7 DEF OutsideWrites
<1> QED
  BY <1>8, OutsideStep

\* A request that gives up starts nothing.
LEMMA GiveUpLifecycle ==
    ASSUME LifecycleInv, ClaimInv', NEW c \in Callers, GiveUp(c)
    PROVE  LifecycleInv'
<1>1. server = "up"
  <2>1. ServerSound /\ c \in Tasks /\ phase[c] # "idle"
    BY DEF LifecycleInv, Tasks, GiveUp, DropRegistration
  <2> QED
    BY <2>1 DEF ServerSound
<1> QED
  BY <1>1, WaitingLifecycle DEF GiveUp

-----------------------------------------------------------------------------
(* The invariant *)

\* A new store, and no daemon over it.
LEMMA InitLifecycle == LifecycleInit => LifecycleInv
<1> SUFFICES ASSUME LifecycleInit PROVE LifecycleInv
  OBVIOUS
<1> USE DEF LifecycleInit
<1>1. ClaimInv /\ TypeOK
  BY InitClaim DEF ClaimInv, FenceInv
<1>2. LifecycleTypeOK
  BY <1>1 DEF LifecycleTypeOK, PreparedManifest
<1>3. ServerSound /\ ClaimProven
  BY DEF Init, ServerSound, ClaimProven
<1>4. HandlersSound /\ StepsSound
  BY DEF Init, HandlersSound, StepsSound, GuardLive, Tasks, ApplyOwned,
         VerifyOwned, ApplySteps, VerifySteps
<1>5. ManifestsSound
  BY DEF ManifestsSound, ManifestSound, PreparedManifest
<1>6. StoreFenced
  BY DEF StoreFenced, AtMostOneUnverified, Unverified, PreparedManifest
<1> QED
  BY <1>1, <1>2, <1>3, <1>4, <1>5, <1>6 DEF LifecycleInv

\* Nothing happens.
LEMMA StutterLifecycle ==
    ASSUME LifecycleInv, ClaimInv', UNCHANGED lifecycleVars
    PROVE  LifecycleInv'
<1>1. /\ UNCHANGED <<server, pc, durableVars>>
      /\ UNCHANGED <<recovery_complete, repair_lease, startup_claim,
                     startup_claim_complete, runtime_resumption, phase, guard>>
  BY DEF lifecycleVars, fenceVars, vars, coordinatorVars
<1>2. LifecycleTypeOK /\ ServerSound /\ StoreFenced /\ ClaimProven
  BY DEF LifecycleInv
<1>3. ServerSound' /\ ClaimProven'
  BY <1>1, <1>2 DEF ServerSound, ClaimProven, Completed, durableVars
<1> QED
  BY <1>1, <1>2, <1>3, QuietStep DEF StoreFenced, GuardLive, LifecycleTypeOK

\* Every step of a handler keeps the invariant.
LEMMA HandlerLifecycle ==
    ASSUME LifecycleInv, ClaimInv', NEW c \in Callers, ApplyStep(c) \/ VerifyStep(c)
    PROVE  LifecycleInv'
<1>1. CASE MarkUncertain(c)
  BY <1>1, MarkUncertainLifecycle
<1>2. CASE LockApply(c) \/ ApplyError(c) \/ RollbackFails(c) \/ VerifyError(c)
  BY <1>2, NoWriteLifecycle
<1>3. CASE \/ ReturnExistingReceipt(c) \/ DiscardPending(c)
           \/ BeginApplyReceipt(c) \/ WriteTarget(c) \/ AbortWrite(c)
  BY <1>3, PendingLifecycle
<1>4. CASE RecoverCommitted(c) \/ PublishCommitted(c)
  BY <1>4, PublishLifecycle
<1>5. CASE CommitWrite(c)
  BY <1>5, CommitWriteLifecycle
<1>6. CASE \/ SettleApplied(c)
           \/ \E unreadable \in BOOLEAN : SettleFailedApply(c, unreadable)
  BY <1>6, SettleApplyLifecycle
<1>7. CASE PersistVerification(c)
  BY <1>7, PersistVerificationLifecycle
<1>8. CASE CommitVerification(c) \/ ReconcileReview(c)
  BY <1>8, FinalizeLifecycle
<1>9. CASE PublishMarker(c)
  BY <1>9, PublishMarkerLifecycle
<1>10. CASE SettleVerified(c)
  BY <1>10, SettleVerifiedLifecycle
<1> QED
  BY <1>1, <1>2, <1>3, <1>4, <1>5, <1>6, <1>7, <1>8, <1>9, <1>10
     DEF ApplyStep, VerifyStep

\* Every step of the lifecycle keeps the invariant.
LEMMA NextLifecycle ==
    LifecycleInv /\ [LifecycleNext]_lifecycleVars => LifecycleInv'
<1> SUFFICES ASSUME LifecycleInv, [LifecycleNext]_lifecycleVars PROVE LifecycleInv'
  OBVIOUS
<1>0. ClaimInv'
  BY LifecycleClaim DEF LifecycleInv
<1>1. CASE UNCHANGED lifecycleVars
  BY <1>0, <1>1, StutterLifecycle
<1>2. CASE \E claim \in {{}} \cup {{r} : r \in Requests} : PrepareStartup(claim)
  BY <1>0, <1>2, PrepareStartupLifecycle
<1>3. CASE Serve
  BY <1>0, <1>3, ServeLifecycle
<1>4. CASE Crash
  BY <1>0, <1>4, CrashLifecycle
<1>5. CASE \E c \in Callers, r \in Requests : RequestApply(c, r)
  BY <1>0, <1>5, RequestApplyLifecycle
<1>6. CASE \E c \in Callers, m \in Manifests : RequestVerify(c, m)
  BY <1>0, <1>6, RequestVerifyLifecycle
<1>7. CASE \E c \in Callers : GiveUp(c)
  BY <1>0, <1>7, GiveUpLifecycle
<1>8. CASE \E c \in Callers : ApplyStep(c) \/ VerifyStep(c)
  BY <1>0, <1>8, HandlerLifecycle
<1>9. CASE \E c \in Callers : AbandonAttempt(c)
  BY <1>0, <1>9, AbandonLifecycle
<1>10. CASE \E m \in Manifests : HandleCancel(m)
  BY <1>0, <1>10, CancelLifecycle
<1>11. CASE \E m \in Manifests : EditTarget(m)
  BY <1>0, <1>11, EditLifecycle
<1>12. CASE \E w \in Writers, m \in Manifests : DismissReview(w, m)
  BY <1>0, <1>12, DismissLifecycle
<1>13. CASE Background
  BY <1>0, <1>13, BackgroundLifecycle
<1>14. CASE (\E r \in Requests : ResumeSealed(r)) \/ ResumeDecides
  BY <1>0, <1>14, ResumeLifecycle
<1> QED
  BY <1>1, <1>2, <1>3, <1>4, <1>5, <1>6, <1>7, <1>8, <1>9, <1>10, <1>11, <1>12,
     <1>13, <1>14 DEF LifecycleNext

\* The inductive invariant of the lifecycle.
THEOREM LifecycleInvariant == LifecycleSpec => []LifecycleInv
  BY InitLifecycle, NextLifecycle, PTL DEF LifecycleSpec

\* The durable state keeps its type and each handler a known step.
THEOREM LifecycleTypeCorrect == LifecycleSpec => []LifecycleTypeOK
<1>1. LifecycleInv => LifecycleTypeOK
  BY DEF LifecycleInv
<1> QED
  BY <1>1, LifecycleInvariant, PTL

\* While an apply waits for its verification, a serving daemon holds the lease
\* of that manifest and no background writer runs, whatever failed, was
\* cancelled or crashed before.
THEOREM UnverifiedStaysFenced == LifecycleSpec => []UnverifiedIsFenced
<1>1. ASSUME LifecycleInv PROVE UnverifiedIsFenced
  <2> SUFFICES ASSUME NEW m \in Unverified
               PROVE  /\ server = "up" => repair_lease.manifest = m
                      /\ ActiveWriters = {}
    BY DEF UnverifiedIsFenced
  <2>0. FenceInv /\ ServerSound /\ StoreFenced /\ m \in Manifests
    BY <1>1 DEF LifecycleInv, ClaimInv, Unverified
  <2>1. server = "up" => repair_lease.manifest = m
    BY <2>0 DEF StoreFenced
  <2>2. CASE server = "up"
    <3>1. Leased
      BY <2>0, <2>1, <2>2, CoordinatorAssumption DEF Leased
    <3>2. active_background = 0
      BY <2>0, <3>1 DEF FenceInv, Compatible
    <3> QED
      BY <2>0, <2>1, <3>2, CounterZero DEF FenceInv
  <2>3. CASE server # "up"
    BY <2>0, <2>3 DEF ServerSound, ActiveWriters, Tasks
  <2> QED
    BY <2>1, <2>2, <2>3
<1> QED
  BY <1>1, LifecycleInvariant, PTL

\* Startup never meets two pending repairs.
THEOREM OneUnverifiedAtMost == LifecycleSpec => []AtMostOneUnverified
<1>1. LifecycleInv => AtMostOneUnverified
  BY DEF LifecycleInv, StoreFenced
<1> QED
  BY <1>1, LifecycleInvariant, PTL

\* A committed repair always has the receipt that recovery looks for.
THEOREM CommitsLeaveArtifacts == LifecycleSpec => []CommittedHasArtifact
<1>1. LifecycleInv => CommittedHasArtifact
  BY DEF LifecycleInv, ManifestsSound, ManifestSound, CommittedHasArtifact
<1> QED
  BY <1>1, LifecycleInvariant, PTL

\* A cancelled repair was never applied and leaves nothing to recover.
THEOREM CancelledStaysUnapplied == LifecycleSpec => []CancelledNeverApplied
<1>1. LifecycleInv => CancelledNeverApplied
  BY DEF LifecycleInv, ManifestsSound, ManifestSound, CancelledNeverApplied
<1> QED
  BY <1>1, LifecycleInvariant, PTL

\* A review item is resolved only with both receipts on disk, and never
\* dismissed under a repair that waits for its verification.
THEOREM ReviewsFollowRepairs == LifecycleSpec => []ReviewFollowsRepair
<1>1. LifecycleInv => ReviewFollowsRepair
  BY LifecycleAssumption
     DEF LifecycleInv, ManifestsSound, ManifestSound, ReviewFollowsRepair,
         Unverified, Completed, Proven
<1> QED
  BY <1>1, LifecycleInvariant, PTL

\* The resumption seal is granted only when the artifacts already prove the
\* claim complete and nothing else is unverified.
THEOREM SealFindsProof == LifecycleSpec => []SealFindsAllVerified
<1>1. ASSUME LifecycleInv PROVE SealFindsAllVerified
  <2> SUFFICES ASSUME runtime_resumption # "none" PROVE ResumptionProven
    BY DEF SealFindsAllVerified
  <2>0. FenceInv /\ ServerSound /\ StoreFenced /\ ClaimProven
    BY <1>1 DEF LifecycleInv, ClaimInv
  <2>1. ~Leased /\ recovery_complete
    BY <2>0 DEF FenceInv, Compatible, Quiet
  <2>2. Unverified = {}
    BY <2>0, <2>1, CoordinatorAssumption
       DEF ServerSound, StoreFenced, Leased, Unverified
  <2> QED
    BY <2>0, <2>2 DEF ClaimProven, ResumptionProven
<1> QED
  BY <1>1, LifecycleInvariant, PTL

-----------------------------------------------------------------------------
(* What a step may never write *)

\* Only COMMIT turns a target into the repaired state.
LEMMA OnlyCommitRepairs ==
    ASSUME LifecycleInv, [LifecycleNext]_lifecycleVars, NEW m \in Manifests,
           target'[m] = "repaired", target[m] # "repaired"
    PROVE  \E c \in Callers : CommitWrite(c) /\ Manifest(c) = m
<1> USE DEF durableVars
<1>0. target \in [Manifests -> {"expected", "repaired", "edited"}]
  BY DEF LifecycleInv, LifecycleTypeOK
<1>1. \/ UNCHANGED target
      \/ \E c \in Callers : CommitWrite(c)
      \/ \E n \in Manifests : EditTarget(n)
  <2>1. CASE UNCHANGED lifecycleVars
    BY <2>1 DEF lifecycleVars
  <2>2. CASE \/ \E claim \in {{}} \cup {{r} : r \in Requests} : PrepareStartup(claim)
             \/ Serve \/ Crash \/ Background
             \/ (\E r \in Requests : ResumeSealed(r)) \/ ResumeDecides
    BY <2>2 DEF PrepareStartup, Serve, Crash, Background, ResumeSealed, ResumeDecides
  <2>3. CASE \/ \E c \in Callers, r \in Requests : RequestApply(c, r)
             \/ \E c \in Callers, n \in Manifests : RequestVerify(c, n)
             \/ \E c \in Callers : GiveUp(c) \/ AbandonAttempt(c)
    BY <2>3 DEF RequestApply, RequestVerify, GiveUp, AbandonAttempt
  <2>4. CASE \E c \in Callers : ApplyStep(c)
    <3>1. PICK c \in Callers : ApplyStep(c)
      BY <2>4
    <3> QED
      BY <3>1 DEF ApplyStep, MarkUncertain, LockApply, ApplyError,
         ReturnExistingReceipt, RecoverCommitted, DiscardPending,
         BeginApplyReceipt, WriteTarget, AbortWrite, RollbackFails,
         PublishCommitted, PublishApplyReceipt, SettleApplied, SettleFailedApply
  <2>5. CASE \E c \in Callers : VerifyStep(c)
    BY <2>5 DEF VerifyStep, PersistVerification, CommitVerification,
                ReconcileReview, PublishMarker, VerifyError, SettleVerified
  <2>6. CASE \/ \E n \in Manifests : HandleCancel(n)
             \/ \E w \in Writers, n \in Manifests : DismissReview(w, n)
    BY <2>6 DEF HandleCancel, DismissReview
  <2> QED
    BY <2>1, <2>2, <2>3, <2>4, <2>5, <2>6 DEF LifecycleNext
<1>2. ASSUME NEW n \in Manifests, EditTarget(n) PROVE FALSE
  BY <1>0, <1>2 DEF EditTarget
<1>3. ASSUME NEW c \in Callers, CommitWrite(c) PROVE Manifest(c) = m
  BY <1>0, <1>3 DEF CommitWrite
<1> QED
  BY <1>1, <1>2, <1>3

\* A repair writes only the state it was approved for, and once: an edit made
\* after approval is never overwritten, and nothing is written for a receipt
\* that exists or was cancelled.
THEOREM WritesApprovedStateOnly == LifecycleSpec => WritesApprovedStateOnce
<1>1. ASSUME LifecycleInv, [LifecycleNext]_lifecycleVars
      PROVE  \A m \in Manifests :
                target'[m] = "repaired" /\ target[m] # "repaired" =>
                   /\ target[m] = "expected"
                   /\ ~disk[m].applied
                   /\ ~disk[m].cancelled
  <2> SUFFICES ASSUME NEW m \in Manifests,
                      target'[m] = "repaired", target[m] # "repaired"
               PROVE  /\ target[m] = "expected"
                      /\ ~disk[m].applied
                      /\ ~disk[m].cancelled
    OBVIOUS
  <2>1. PICK c \in Callers : CommitWrite(c) /\ Manifest(c) = m
    BY <1>1, OnlyCommitRepairs
  <2>2. pc[c] = "commit" /\ StepSound(m, pc[c], disk[m], target[m])
    BY <1>1, <2>1 DEF CommitWrite, LifecycleInv, StepsSound
  <2> QED
    BY <2>2 DEF StepSound, ApplySteps
<1> QED
  BY <1>1, LifecycleInvariant, PTL DEF LifecycleSpec, WritesApprovedStateOnce

-----------------------------------------------------------------------------
(* The fence across restarts *)

\* What the fence promises a single process it promises the daemon as a whole:
\* a new coordinator starts with nothing running, nobody parked and no claim,
\* and every other step of the lifecycle is a step of the fence.
THEOREM FenceSurvivesRestarts ==
    LifecycleSpec => []/\ FenceExclusion
                       /\ SingleAttempt
                       /\ PendingOwnersLive
                       /\ ClaimExclusive
                       /\ SealExcludesAll
                       /\ NoLostWakeup
<1>1. LifecycleInit => NoLostWakeup
  BY CoordinatorAssumption DEF LifecycleInit, Init, NoLostWakeup, Tasks
<1>2. ASSUME LifecycleInv, NoLostWakeup, [LifecycleNext]_lifecycleVars
      PROVE  NoLostWakeup'
  <2>1. CASE Crash
    BY <2>1, AllAwake DEF Crash, FreshCoordinator
  <2>2. CASE [Next]_vars
    BY <1>2, <2>2, NextWakeup DEF LifecycleInv
  <2> QED
    BY <1>2, <2>1, <2>2, StepOfFence
<1>3. ASSUME LifecycleInv
      PROVE  /\ FenceExclusion /\ SingleAttempt /\ PendingOwnersLive
             /\ ClaimExclusive /\ SealExcludesAll
  <2>1. FenceInv /\ ClaimExclusive
    BY <1>3 DEF LifecycleInv, ClaimInv
  <2> QED
    BY <2>1, InvExcludes, InvSeals DEF FenceInv
<1> QED
  BY <1>1, <1>2, <1>3, LifecycleInvariant, PTL DEF LifecycleSpec
===============================================================================
