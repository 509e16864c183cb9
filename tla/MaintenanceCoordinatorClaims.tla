--------------------- MODULE MaintenanceCoordinatorClaims ---------------------
(***************************************************************************)
(* Proofs about who may use the repair write fence and who is woken by it: *)
(* the startup claim, reservations and tombstones, lost wake-ups, and what *)
(* no step of the fence may do.  For every number of callers, writers and  *)
(* snapshots, every set of requests and every token width.                 *)
(***************************************************************************)
EXTENDS MaintenanceCoordinatorProofs

\* The parts that make the claim inductive: a caller has a request only while
\* it works for it, nobody works for a request before recovery is complete,
\* and only a reservation names a next request.
RequestsWorkedFor ==
    /\ \A c \in Callers : phase[c] = "idle" => request[c] = NoRequest
    /\ ~recovery_complete => \A c \in Callers : request[c] = NoRequest

ReservationWhole == ~Reserved => reserved_repair.next_apply = NoRequest

ClaimInv ==
    /\ FenceInv
    /\ ClaimExclusive
    /\ RequestsWorkedFor
    /\ ReservationWhole

-----------------------------------------------------------------------------
(* What a step does to the callers and to the reservation *)

\* A task that moves leaves the other tasks where they are, but for waking
\* the parked ones.
LEMMA MoveOthers ==
    ASSUME TypeOK, NEW t \in Tasks, NEW p \in Phases, NEW notify \in BOOLEAN,
           Move(t, p, notify)
    PROVE  /\ \A u \in Tasks \ {t} :
                /\ phase'[u] = "idle" <=> phase[u] = "idle"
                /\ phase'[u] = "active" <=> phase[u] = "active"
                /\ phase'[u] = "dropping" <=> phase[u] = "dropping"
                /\ phase'[u] = "parked" => phase[u] = "parked"
           /\ p # "parked" => phase'[t] = p
           /\ p = "parked" => phase'[t] \in {"parked", "woken"}
           /\ notify => \A u \in Tasks : phase'[u] # "parked"
  BY MoveEffect

\* A notification alone does the same to every task.
LEMMA WokenOthers ==
    ASSUME TypeOK, phase' = Woken(phase)
    PROVE  \A u \in Tasks :
                /\ phase'[u] = "idle" <=> phase[u] = "idle"
                /\ phase'[u] = "active" <=> phase[u] = "active"
                /\ phase'[u] = "dropping" <=> phase[u] = "dropping"
                /\ phase'[u] # "parked"
  BY WokenEffect

\* Dropping a lapsed reservation leaves the old one or none at all.
LEMMA ExpireWhole ==
    ASSUME ReservationWhole,
           ExpireReservation \/ UNCHANGED <<reserved_repair, expired_repairs>>
    PROVE  /\ ReservationWhole'
           /\ Reserved' => Reserved /\ reserved_repair' = reserved_repair
           /\ reserved_repair'.next_apply # reserved_repair.next_apply =>
                 reserved_repair.next_apply \in expired_repairs'
           /\ expired_repairs \subseteq expired_repairs'
  BY DEF ReservationWhole, ExpireReservation, Reserved, NoReservation, NoRequest,
         Tombstones, Lapsed

-----------------------------------------------------------------------------
(* The claim *)

\* A step that neither moves the claim, nor starts a lease or a reservation,
\* nor makes a caller work for a request, keeps the claim exclusive.
LEMMA ClaimFrame ==
    ASSUME ClaimInv, FenceInv', ReservationWhole',
           UNCHANGED <<startup_claim, startup_claim_complete>>,
           recovery_complete => recovery_complete',
           Leased' => Leased /\ repair_lease'.manifest = repair_lease.manifest,
           Reserved' => /\ Reserved
                        /\ reserved_repair'.next_apply = reserved_repair.next_apply,
           \A c \in Callers :
              \/ /\ request'[c] = request[c]
                 /\ phase'[c] = "idle" => phase[c] = "idle"
                 /\ GuardLive(c)' => GuardLive(c)
              \/ request'[c] = NoRequest
    PROVE  ClaimInv'
<1>1. ClaimExclusive'
  BY DEF ClaimInv, ClaimExclusive, LiveGuards
<1>2. RequestsWorkedFor'
  BY DEF ClaimInv, RequestsWorkedFor
<1> QED
  BY <1>1, <1>2 DEF ClaimInv

\* The steps of everyone but the callers and the operator: writers,
\* snapshots, the timers and the resumption seal.
BystanderStep ==
    \/ FinishRecovery
    \/ \E w \in Writers :
         BeginBackground(w) \/ TryBeginBackground(w) \/ EndBackground(w)
    \/ \E a \in Analysts : BeginAnalysis(a) \/ EndAnalysis(a)
    \/ \E t \in Writers \cup Analysts : CancelAdmission(t)
    \/ MatchesHandoff
    \/ \E generation \in Tokens : ExpireReservedRepair(generation)
    \/ \E r \in Requests : BeginRuntimeResumption(r)
    \/ CommitResumption \/ DropResumption \/ UNCHANGED vars

\* They leave the claim, the lease and every caller's request and guard alone.
LEMMA BystanderEffect ==
    ASSUME FenceInv, BystanderStep
    PROVE  /\ UNCHANGED <<startup_claim, startup_claim_complete, repair_lease, request,
                         guard>>
           /\ recovery_complete => recovery_complete'
           /\ ExpireReservation \/ UNCHANGED <<reserved_repair, expired_repairs>>
           /\ \A c \in Callers : /\ phase'[c] = "idle" <=> phase[c] = "idle"
                                 /\ GuardLive(c)' <=> GuardLive(c)
<1> USE CoordinatorAssumption DEF BystanderStep, admissionUnchanged, sealUnchanged
<1>0. TypeOK /\ Lapsed \in BOOLEAN
  BY DEF FenceInv, TypeOK, Lapsed
<1>1. /\ UNCHANGED <<startup_claim, startup_claim_complete, repair_lease, request,
                         guard>>
      /\ recovery_complete => recovery_complete'
      /\ ExpireReservation \/ UNCHANGED <<reserved_repair, expired_repairs>>
  <2>1. CASE FinishRecovery \/ UNCHANGED vars
    BY <2>1 DEF FinishRecovery, vars, coordinatorVars
  <2>2. CASE \E w \in Writers :
               BeginBackground(w) \/ TryBeginBackground(w) \/ EndBackground(w)
    <3>1. PICK w \in Writers :
             BeginBackground(w) \/ TryBeginBackground(w) \/ EndBackground(w)
      BY <2>2
    <3>2. CASE EndBackground(w)
      BY <3>2 DEF EndBackground
    <3>3. CASE BeginBackground(w) \/ TryBeginBackground(w)
      <4>1. ExpireReservation /\ UNCHANGED admissionUnchanged
        BY <3>3, Zenon DEF BeginBackground, TryBeginBackground, AdmitBackground
      <4> QED
        BY <4>1
    <3> QED
      BY <3>1, <3>2, <3>3
  <2>3. CASE \E a \in Analysts : BeginAnalysis(a) \/ EndAnalysis(a)
    <3>1. PICK a \in Analysts : BeginAnalysis(a) \/ EndAnalysis(a)
      BY <2>3
    <3>2. CASE EndAnalysis(a)
      BY <3>2 DEF EndAnalysis
    <3>3. CASE BeginAnalysis(a)
      BY <3>3 DEF BeginAnalysis
    <3> QED
      BY <3>1, <3>2, <3>3
  <2>4. CASE \E t \in Writers \cup Analysts : CancelAdmission(t)
    BY <2>4 DEF CancelAdmission
  <2>5. CASE MatchesHandoff
             \/ \E generation \in Tokens : ExpireReservedRepair(generation)
    BY <2>5 DEF MatchesHandoff, ExpireReservedRepair
  <2>6. CASE \/ \E r \in Requests : BeginRuntimeResumption(r)
             \/ CommitResumption \/ DropResumption
    BY <2>6 DEF BeginRuntimeResumption, CommitResumption, DropResumption
  <2> QED
    BY <2>1, <2>2, <2>3, <2>4, <2>5, <2>6
<1>2. \A c \in Callers : /\ phase'[c] = "idle" <=> phase[c] = "idle"
                         /\ GuardLive(c)' <=> GuardLive(c)
  <2> SUFFICES ASSUME NEW c \in Callers
               PROVE  /\ phase'[c] = "idle" <=> phase[c] = "idle"
                      /\ phase'[c] = "active" <=> phase[c] = "active"
                      /\ phase'[c] = "dropping" <=> phase[c] = "dropping"
    BY DEF GuardLive
  <2>1. CASE phase' = Woken(phase)
    BY <1>0, <2>1, WokenOthers DEF Tasks
  <2>2. CASE phase' = phase
    BY <2>2
  <2>3. CASE \E t \in Writers \cup Analysts, p \in {"idle", "active", "parked"},
                notify \in BOOLEAN : Move(t, p, notify)
    BY <1>0, <2>3, MoveOthers DEF Tasks, Phases
  <2> QED
    BY <1>0, <2>1, <2>2, <2>3
       DEF FinishRecovery, BeginBackground, TryBeginBackground,
           AdmitBackground, EndBackground, BeginAnalysis, EndAnalysis,
           CancelAdmission, MatchesHandoff, ExpireReservedRepair,
           BeginRuntimeResumption, CommitResumption, DropResumption, vars
<1> QED
  BY <1>1, <1>2

\* So they keep the claim exclusive.
LEMMA BystanderClaim ==
    ASSUME ClaimInv, FenceInv', BystanderStep
    PROVE  ClaimInv'
<1>0. FenceInv /\ ReservationWhole
  BY DEF ClaimInv
<1>1. /\ UNCHANGED <<startup_claim, startup_claim_complete, repair_lease, request,
                         guard>>
      /\ recovery_complete => recovery_complete'
      /\ ExpireReservation \/ UNCHANGED <<reserved_repair, expired_repairs>>
  BY <1>0, BystanderEffect
<1>2. \A c \in Callers : /\ phase'[c] = "idle" <=> phase[c] = "idle"
                         /\ GuardLive(c)' <=> GuardLive(c)
  BY <1>0, BystanderEffect
<1>3. Leased' => Leased /\ repair_lease'.manifest = repair_lease.manifest
  BY <1>1 DEF Leased
<1> QED
  BY <1>0, <1>1, <1>2, <1>3, ExpireWhole, ClaimFrame

\* The passing of a deadline leaves the reserved request as it is.
LEMMA FallsDueClaim ==
    ASSUME ClaimInv, FenceInv', ReservationFallsDue
    PROVE  ClaimInv'
<1> USE DEF ReservationFallsDue, admissionUnchanged
<1>1. /\ reserved_repair'.next_apply = reserved_repair.next_apply
      /\ reserved_repair'.predecessor = reserved_repair.predecessor
  BY DEF ClaimInv, FenceInv, TypeOK
<1>2. ReservationWhole' /\ Reserved'
  BY <1>1 DEF ReservationWhole, Reserved
<1> QED
  BY <1>1, <1>2, ClaimFrame DEF Leased, GuardLive

\* A refused or withdrawn acquisition forgets the caller's request, if it
\* touches it at all.
LEMMA WithdrawClaim ==
    ASSUME ClaimInv, FenceInv', NEW c \in Callers,
           DropRegistration(c) \/ \E r \in Requests : RefuseRepair(c, r)
    PROVE  ClaimInv'
<1> USE CoordinatorAssumption DEF admissionUnchanged, grantUnchanged
<1>0. TypeOK /\ ReservationWhole /\ Lapsed \in BOOLEAN
      /\ (pending_repair' # pending_repair) \in BOOLEAN /\ c \in Tasks
  BY DEF ClaimInv, FenceInv, TypeOK, Lapsed, Tasks
<1>1. CASE DropRegistration(c)
  <2>1. /\ request'[c] = NoRequest
        /\ \A d \in Callers \ {c} : request'[d] = request[d]
    BY <1>0, <1>1 DEF DropRegistration, TypeOK
  <2>2. \A d \in Callers \ {c} : /\ phase'[d] = "idle" <=> phase[d] = "idle"
                                 /\ GuardLive(d)' <=> GuardLive(d)
    BY <1>0, <1>1, MoveOthers DEF DropRegistration, Tasks, Phases, GuardLive
  <2> QED
    BY <1>0, <1>1, <2>1, <2>2, ExpireWhole, ClaimFrame
       DEF DropRegistration, Leased
<1>2. CASE \E r \in Requests : RefuseRepair(c, r)
  <2>1. PICK r \in Requests : RefuseRepair(c, r)
    BY <1>2
  <2>2. PICK p \in {"idle", "leaving"} :
           Move(c, p, Lapsed) /\ (p = "idle" => phase[c] = "idle")
    BY <2>1 DEF RefuseRepair
  <2>3. \A d \in Callers : /\ phase'[d] = "idle" => phase[d] = "idle"
                           /\ GuardLive(d)' => GuardLive(d)
    BY <1>0, <2>2, MoveOthers DEF Tasks, Phases, GuardLive
  <2> QED
    BY <1>0, <2>1, <2>3, ExpireWhole, ClaimFrame DEF RefuseRepair, Leased
<1> QED
  BY <1>1, <1>2

-----------------------------------------------------------------------------
(* Acquisitions *)

\* A request that is not refused is the claim's, if there is one, and is not
\* tombstoned; recovery is complete and the claim is not.
LEMMA AdmittedRequest ==
    ASSUME TypeOK, NEW r \in Requests, ~AcquireRefused(r)
    PROVE  /\ recovery_complete /\ startup_claim_complete = FALSE
           /\ startup_claim \in {NoRequest, r}
           /\ r \notin Tombstones /\ expired_repairs \subseteq Tombstones
           /\ StillReserved => r = reserved_repair.next_apply
           /\ r # NoRequest
<1>1. startup_claim_complete \in BOOLEAN
  BY DEF TypeOK
<1>2. r # NoRequest
  BY CoordinatorAssumption DEF Requests, NoRequest
<1> QED
  BY <1>1, <1>2 DEF AcquireRefused, AcquireSealed, Tombstones

\* The three ways an acquisition is granted: the caller works for r, holds the
\* attempt of a lease on its manifest, and no reservation is left.
LEMMA GrantEffect ==
    ASSUME FenceInv, ReservationWhole, NEW c \in Callers, NEW r \in Requests,
           ConsumeReservation(c, r) \/ RetryDurable(c, r) \/ TakeProvisional(c, r)
    PROVE  /\ ~AcquireRefused(r)
           /\ request'[c] = r
           /\ \A d \in Callers \ {c} : request'[d] = request[d]
           /\ guard'[c].token = repair_lease'.attempt
           /\ repair_lease'.attempt # 0
           /\ repair_lease'.manifest = r.manifest
           /\ Leased => repair_lease.durable /\ repair_lease.manifest = r.manifest
           /\ Leased => repair_lease'.durable
           /\ ~Reserved' /\ ReservationWhole'
           /\ phase'[c] = "active" /\ ~GuardLive(c)
           /\ \A d \in Callers \ {c} :
                 /\ phase'[d] = "idle" <=> phase[d] = "idle"
                 /\ GuardLive(d)' <=> GuardLive(d)
           /\ UNCHANGED <<recovery_complete, startup_claim,
                          startup_claim_complete, runtime_resumption,
                          active_background, active_analysis>>
           /\ expired_repairs' = Tombstones
           /\ ~StillReserved => ~Reserved \/ reserved_repair.next_apply \in Tombstones
<1> USE CoordinatorAssumption DEF grantUnchanged
<1>0. TypeOK /\ Lapsed \in BOOLEAN /\ c \in Tasks
      /\ (pending_repair' # pending_repair) \in BOOLEAN
      /\ reserved_repair.due \in BOOLEAN
  BY DEF FenceInv, TypeOK, Lapsed, Tasks
<1>1. /\ Looks(c, r) /\ ~AcquireRefused(r)
      /\ request' = [request EXCEPT ![c] = r]
      /\ \E durable \in BOOLEAN :
            /\ GrantAttempt(c, r.manifest, durable)
            /\ Leased /\ ~StillReserved => durable = TRUE
      /\ UNCHANGED grantUnchanged
  BY DEF ConsumeReservation, RetryDurable, TakeProvisional
<1>2. \E notify \in BOOLEAN : Move(c, "active", notify)
  BY <1>0 DEF ConsumeReservation, RetryDurable, TakeProvisional
<1>3. /\ phase'[c] = "active"
      /\ \A d \in Callers \ {c} :
            /\ phase'[d] = "idle" <=> phase[d] = "idle"
            /\ GuardLive(d)' <=> GuardLive(d)
  BY <1>0, <1>2, MoveOthers DEF Tasks, Phases, GuardLive
<1>4. ~GuardLive(c)
  BY <1>1 DEF Looks, GuardLive
<1>5. /\ request'[c] = r /\ \A d \in Callers \ {c} : request'[d] = request[d]
  BY <1>0, <1>1 DEF TypeOK
<1>6. /\ guard'[c].token = repair_lease'.attempt /\ repair_lease'.attempt # 0
      /\ repair_lease'.manifest = r.manifest
      /\ Leased /\ ~StillReserved => repair_lease'.durable
  <2>1. PICK durable \in BOOLEAN :
           /\ GrantAttempt(c, r.manifest, durable)
           /\ Leased /\ ~StillReserved => durable = TRUE
    BY <1>1
  <2> QED
    BY <1>0, <2>1, IssueType DEF GrantAttempt, TypeOK
<1>7. Leased => ~StillReserved
  BY DEF FenceInv, Compatible, StillReserved
<1>8. Leased => repair_lease.durable /\ repair_lease.manifest = r.manifest
  BY <1>1, <1>7 DEF AcquireRefused, LeaseBusy
<1>9. ~Reserved' /\ ReservationWhole' /\ expired_repairs' = Tombstones
  <2>1. CASE ConsumeReservation(c, r)
    BY <1>0, <2>1 DEF ConsumeReservation, StillReserved, Lapsed, Reserved,
       NoReservation, NoRequest, ReservationWhole, Tombstones
  <2>2. CASE RetryDurable(c, r) \/ TakeProvisional(c, r)
    <3>1. ExpireReservation /\ ~StillReserved
      BY <2>2 DEF RetryDurable, TakeProvisional
    <3> QED
      BY <1>0, <3>1 DEF ExpireReservation, StillReserved, Lapsed, Reserved,
         NoReservation, NoRequest, ReservationWhole
  <2> QED
    BY <2>1, <2>2
<1>10. ~StillReserved => ~Reserved \/ reserved_repair.next_apply \in Tombstones
  BY DEF StillReserved, Tombstones, Lapsed
<1> QED
  BY <1>1, <1>3, <1>4, <1>5, <1>6, <1>7, <1>8, <1>9, <1>10

\* A granted acquisition is the claim's own.
LEMMA GrantClaim ==
    ASSUME ClaimInv, FenceInv', NEW c \in Callers, NEW r \in Requests,
           ConsumeReservation(c, r) \/ RetryDurable(c, r) \/ TakeProvisional(c, r)
    PROVE  ClaimInv'
<1>0. TypeOK /\ FenceInv /\ ReservationWhole
  BY DEF ClaimInv, FenceInv
<1>1. /\ recovery_complete /\ startup_claim_complete = FALSE
      /\ startup_claim \in {NoRequest, r}
  BY <1>0, GrantEffect, AdmittedRequest
<1>2. ClaimExclusive'
  <2>1. \A d \in Callers \ {c} : GuardLive(d)' => GuardLive(d)
                                 /\ request'[d] = request[d]
    BY <1>0, GrantEffect
  <2>2. /\ UNCHANGED <<startup_claim, startup_claim_complete>>
        /\ request'[c] = r /\ ~Reserved' /\ repair_lease'.manifest = r.manifest
    BY <1>0, GrantEffect
  <2> QED
    BY <1>1, <2>1, <2>2 DEF ClaimInv, ClaimExclusive, LiveGuards
<1>3. RequestsWorkedFor'
  <2>1. /\ recovery_complete' = recovery_complete /\ phase'[c] = "active"
        /\ \A d \in Callers \ {c} :
              request'[d] = request[d] /\ (phase'[d] = "idle" <=> phase[d] = "idle")
    BY <1>0, GrantEffect
  <2> QED
    BY <1>1, <2>1 DEF ClaimInv, RequestsWorkedFor
<1> QED
  BY <1>0, <1>2, <1>3, GrantEffect DEF ClaimInv

\* A caller that registers works for a request it is admitted with.
LEMMA RegisterClaim ==
    ASSUME ClaimInv, FenceInv', NEW c \in Callers, NEW r \in Requests,
           RegisterAndWait(c, r)
    PROVE  ClaimInv'
<1> USE CoordinatorAssumption DEF grantUnchanged, RegisterAndWait
<1>0. TypeOK /\ ReservationWhole /\ Lapsed \in BOOLEAN /\ c \in Tasks
  BY DEF ClaimInv, FenceInv, TypeOK, Lapsed, Tasks
<1>1. recovery_complete
  BY <1>0, AdmittedRequest
<1>2. /\ phase'[c] \in {"parked", "woken"}
      /\ \A d \in Callers \ {c} : /\ phase'[d] = "idle" <=> phase[d] = "idle"
                                  /\ GuardLive(d)' <=> GuardLive(d)
  BY <1>0, MoveOthers DEF Tasks, Phases, GuardLive
<1>3. \A d \in Callers \ {c} : request'[d] = request[d]
  BY <1>0 DEF TypeOK
<1>4. ReservationWhole' /\ (Reserved' => Reserved /\ reserved_repair' = reserved_repair)
  BY <1>0, ExpireWhole
<1>5. ClaimExclusive'
  BY <1>2, <1>3, <1>4 DEF ClaimInv, ClaimExclusive, LiveGuards, GuardLive, Leased
<1>6. RequestsWorkedFor'
  BY <1>1, <1>2, <1>3 DEF ClaimInv, RequestsWorkedFor
<1> QED
  BY <1>4, <1>5, <1>6 DEF ClaimInv

\* A verification works for no request and stays on the leased manifest.
LEMMA VerificationClaim ==
    ASSUME ClaimInv, FenceInv', NEW c \in Callers, NEW m \in Manifests,
           AcquireVerification(c, m)
    PROVE  ClaimInv'
<1> USE CoordinatorAssumption DEF grantUnchanged, AcquireVerification
<1>0. TypeOK /\ ReservationWhole /\ c \in Tasks
  BY DEF ClaimInv, FenceInv, TypeOK, Tasks
<1>1. /\ Leased /\ repair_lease'.manifest = repair_lease.manifest
      /\ ReservationWhole' /\ (Reserved' <=> Reserved)
  BY <1>0 DEF Leased, GrantAttempt, ReservationWhole, Reserved
<1>2. request'[c] = NoRequest
  BY DEF ClaimInv, RequestsWorkedFor
<1>3. \A d \in Callers \ {c} : /\ phase'[d] = "idle" => phase[d] = "idle"
                               /\ GuardLive(d)' => GuardLive(d)
  BY <1>0, MoveOthers DEF Tasks, Phases, GuardLive
<1> QED
  BY <1>0, <1>1, <1>2, <1>3, ClaimFrame

-----------------------------------------------------------------------------
(* Settling an attempt *)

\* A live guard owns the lease; while it does there is no reservation.
LEMMA LiveGuardOwns ==
    ASSUME FenceInv, NEW c \in Callers, GuardLive(c)
    PROVE  Owns(c) /\ Leased /\ ~Reserved /\ repair_lease.attempt # 0
           /\ c \in Tasks /\ guard[c].manifest = repair_lease.manifest
  BY DEF FenceInv, SingleAttempt, LiveGuards, Owns, Shapes, Compatible, Tasks

\* Settling forgets the caller's request and leaves the other callers alone.
LEMMA SettleEffect ==
    ASSUME TypeOK, NEW c \in Callers, NEW notify \in BOOLEAN, Settle(c, notify)
    PROVE  /\ request'[c] = NoRequest /\ phase'[c] = "idle" /\ ~GuardLive(c)'
           /\ \A d \in Callers \ {c} :
                 /\ request'[d] = request[d]
                 /\ phase'[d] = "idle" <=> phase[d] = "idle"
                 /\ GuardLive(d)' <=> GuardLive(d)
           /\ notify => \A u \in Tasks : phase'[u] # "parked"
           /\ \A u \in Tasks : phase'[u] = "parked" => phase[u] = "parked"
<1>1. c \in Tasks
  BY DEF Tasks
<1>2. request'[c] = NoRequest
      /\ \A d \in Callers \ {c} : request'[d] = request[d]
  BY DEF Settle, TypeOK
<1>3. Move(c, "idle", notify)
  BY DEF Settle
<1>4. /\ phase'[c] = "idle"
      /\ \A d \in Callers \ {c} : /\ phase'[d] = "idle" <=> phase[d] = "idle"
                                  /\ GuardLive(d)' <=> GuardLive(d)
  BY <1>1, <1>3, MoveOthers DEF Tasks, Phases, GuardLive
<1>5. /\ notify => \A u \in Tasks : phase'[u] # "parked"
      /\ \A u \in Tasks : phase'[u] = "parked" => phase[u] = "parked"
  BY <1>1, <1>3, <1>4, MoveOthers DEF Phases
<1> QED
  BY <1>2, <1>4, <1>5 DEF GuardLive

\* Marking a guard, keeping the lease, giving it up before the commit, and
\* dropping a guard leave the claim where it is.
LEMMA KeepClaim ==
    ASSUME ClaimInv, FenceInv', NEW c \in Callers,
           \/ RetainOnUncertainDrop(c) \/ RetainUntilVerification(c)
           \/ ReleaseAfterPrecommitFailure(c) \/ SettleRefused(c) \/ DropGuard(c)
    PROVE  ClaimInv'
<1> USE CoordinatorAssumption DEF settleUnchanged
<1>0. TypeOK /\ FenceInv /\ ReservationWhole /\ GuardLive(c)
  BY DEF ClaimInv, FenceInv, RetainOnUncertainDrop, RetainUntilVerification,
         ReleaseAfterPrecommitFailure, SettleRefused, DropGuard, GuardLive
<1>1. Owns(c) /\ c \in Tasks
  BY <1>0, LiveGuardOwns
<1>2. /\ UNCHANGED <<startup_claim, startup_claim_complete, recovery_complete,
                     reserved_repair>>
      /\ repair_lease' \in {repair_lease, IdleDurable, NoLease}
  BY DEF RetainOnUncertainDrop, coordinatorVars, RetainUntilVerification,
         ReleaseAfterPrecommitFailure, SettleRefused, DropGuard
<1>3. /\ Leased' => Leased /\ repair_lease'.manifest = repair_lease.manifest
      /\ ReservationWhole' /\ (Reserved' <=> Reserved)
  BY <1>0, <1>2 DEF Leased, IdleDurable, NoLease, ReservationWhole, Reserved
<1>4. \A d \in Callers :
         \/ /\ request'[d] = request[d]
            /\ phase'[d] = "idle" => phase[d] = "idle"
            /\ GuardLive(d)' => GuardLive(d)
         \/ request'[d] = NoRequest
  <2>1. CASE RetainOnUncertainDrop(c)
    BY <2>1 DEF RetainOnUncertainDrop, GuardLive
  <2>2. CASE SettleRefused(c)
    <3>1. Move(c, "dropping", FALSE) /\ request' = request
      BY <2>2 DEF SettleRefused
    <3> QED
      BY <1>0, <1>1, <3>1, MoveOthers DEF Tasks, Phases, GuardLive
  <2>3. CASE RetainUntilVerification(c) \/ ReleaseAfterPrecommitFailure(c)
             \/ DropGuard(c)
    <3>1. Settle(c, TRUE)
      BY <1>1, <2>3 DEF RetainUntilVerification, ReleaseAfterPrecommitFailure,
                        DropGuard
    <3> QED
      BY <1>0, <3>1, SettleEffect
  <2> QED
    BY <2>1, <2>2, <2>3
<1> QED
  BY <1>2, <1>3, <1>4, ClaimFrame

\* A verified release completes the claim only with the claim's own manifest,
\* and leaves nothing behind.
LEMMA ReleaseAfterVerificationClaim ==
    ASSUME ClaimInv, FenceInv', NEW c \in Callers, ReleaseAfterVerification(c)
    PROVE  ClaimInv'
<1> USE DEF ReleaseAfterVerification, settleUnchanged
<1>0. TypeOK /\ FenceInv /\ ReservationWhole /\ GuardLive(c)
  BY DEF ClaimInv, FenceInv, GuardLive
<1>1. ~Reserved' /\ ~Leased' /\ ReservationWhole'
  BY <1>0, LiveGuardOwns DEF Leased, NoLease, Reserved, ReservationWhole
<1>2. /\ request'[c] = NoRequest /\ ~GuardLive(c)'
      /\ \A d \in Callers \ {c} :
            /\ request'[d] = request[d]
            /\ phase'[d] = "idle" <=> phase[d] = "idle"
            /\ GuardLive(d)' <=> GuardLive(d)
  BY <1>0, SettleEffect
<1>3. ClaimExclusive'
  BY <1>1, <1>2 DEF ClaimInv, ClaimExclusive, LiveGuards
<1>4. RequestsWorkedFor'
  BY <1>2 DEF ClaimInv, RequestsWorkedFor
<1> QED
  BY <1>1, <1>3, <1>4 DEF ClaimInv

\* A handoff by the claim's own repair passes the claim on with the
\* reservation; no other attempt can be live then.
LEMMA HandoffClaim ==
    ASSUME ClaimInv, FenceInv', NEW c \in Callers, NEW next \in Requests,
           HandoffAfterVerification(c, next)
    PROVE  ClaimInv'
<1> USE DEF HandoffAfterVerification, settleUnchanged
<1>0. TypeOK /\ FenceInv /\ ReservationWhole /\ GuardLive(c)
  BY DEF ClaimInv, FenceInv, GuardLive
<1>1. Leased /\ guard[c].manifest = repair_lease.manifest
  BY <1>0, LiveGuardOwns
<1>2. /\ ~Leased' /\ Reserved' /\ reserved_repair'.next_apply = next
  BY <1>0, <1>1 DEF Leased, NoLease, Reserved
<1>3. /\ request'[c] = NoRequest /\ ~GuardLive(c)'
      /\ \A d \in Callers \ {c} :
            /\ request'[d] = request[d]
            /\ phase'[d] = "idle" <=> phase[d] = "idle"
            /\ GuardLive(d)' <=> GuardLive(d)
  BY <1>0, SettleEffect
<1>4. \A d \in Callers : ~GuardLive(d)'
  BY <1>0, <1>3 DEF FenceInv, SingleAttempt, LiveGuards
<1>5. startup_claim' # NoRequest => startup_claim' = next /\ ~startup_claim_complete'
  BY <1>1 DEF ClaimInv, ClaimExclusive
<1>6. ClaimExclusive'
  BY <1>2, <1>4, <1>5 DEF ClaimExclusive, LiveGuards
<1>7. RequestsWorkedFor'
  BY <1>3 DEF ClaimInv, RequestsWorkedFor
<1> QED
  BY <1>2, <1>6, <1>7 DEF ClaimInv, ReservationWhole

\* Startup arms the claim before any caller works for a request.
LEMMA RearmClaim ==
    ASSUME ClaimInv, FenceInv', NEW r \in Requests, RearmApprovedRepair(r)
    PROVE  ClaimInv'
<1> USE CoordinatorAssumption DEF RearmApprovedRepair
<1>1. \A c \in Callers : request'[c] = NoRequest
  BY DEF ClaimInv, RequestsWorkedFor
<1>2. /\ ~Reserved' /\ ReservationWhole'
      /\ repair_lease'.manifest = r.manifest
  BY DEF ClaimInv, Reserved, ReservationWhole, Leased
<1>3. ClaimExclusive'
  BY <1>1, <1>2 DEF ClaimExclusive, LiveGuards
<1>4. RequestsWorkedFor'
  BY <1>1 DEF RequestsWorkedFor
<1> QED
  BY <1>2, <1>3, <1>4 DEF ClaimInv

\* A fresh coordinator has no claim and nobody working for one.
LEMMA InitClaim == Init => ClaimInv
<1> SUFFICES ASSUME Init PROVE ClaimInv
  OBVIOUS
<1>1. FenceInv
  BY InitInv
<1> QED
  BY <1>1 DEF Init, ClaimInv, ClaimExclusive, RequestsWorkedFor,
              ReservationWhole, NoReservation

\* Every step of every task keeps the claim's invariant.
LEMMA NextClaim == ClaimInv /\ [Next]_vars => ClaimInv'
<1> SUFFICES ASSUME ClaimInv, [Next]_vars PROVE ClaimInv'
  OBVIOUS
<1>0. FenceInv'
  BY NextInv DEF ClaimInv
<1>1. CASE \E c \in Callers, r \in Requests : Acquire(c, r)
  BY <1>0, <1>1, WithdrawClaim, GrantClaim, RegisterClaim DEF Acquire
<1>2. CASE \E c \in Callers : DropRegistration(c)
  BY <1>0, <1>2, WithdrawClaim
<1>3. CASE \E c \in Callers, m \in Manifests : AcquireVerification(c, m)
  BY <1>0, <1>3, VerificationClaim
<1>4. CASE \E c \in Callers : RetainOnUncertainDrop(c) \/ SettleAttempt(c)
  BY <1>0, <1>4, KeepClaim, ReleaseAfterVerificationClaim, HandoffClaim
     DEF SettleAttempt
<1>5. CASE \E r \in Requests : RearmApprovedRepair(r)
  BY <1>0, <1>5, RearmClaim
<1>6. CASE ReservationFallsDue
  BY <1>0, <1>6, FallsDueClaim
<1> QED
  BY <1>0, <1>1, <1>2, <1>3, <1>4, <1>5, <1>6, BystanderClaim DEF Next, BystanderStep

\* The claim's invariant holds in every reachable state of the fence.
THEOREM ClaimInvariant == Spec => []ClaimInv
  BY InitClaim, NextClaim, PTL DEF Spec

\* A daemon armed for one approved request executes no other, and leaves
\* neither lease nor reservation behind once that request is done.
THEOREM ClaimIsExclusive == Spec => []ClaimExclusive
<1>1. ClaimInv => ClaimExclusive
  BY DEF ClaimInv
<1> QED
  BY <1>1, ClaimInvariant, PTL

-----------------------------------------------------------------------------
(* Lost wake-ups.  A step is harmless in one of three ways: it wakes every  *)
(* parked task, it leaves every parked task something to wait for, or it    *)
(* changes nothing that parked tasks look at.                               *)

\* What a parked repair request waits to see gone.
RepairBusy == active_background # 0 \/ active_analysis # 0 \/ Leased \/ Reserved

\* Nobody is parked, so nobody can miss a wake-up.
LEMMA AllAwake ==
    ASSUME \A u \in Tasks : phase'[u] # "parked"
    PROVE  NoLostWakeup'
  BY DEF NoLostWakeup, Tasks

\* Whoever drops a lapsed reservation wakes every parked task.
LEMMA LapsedWakes ==
    ASSUME TypeOK, NEW t \in Tasks, NEW p \in Phases, Lapsed, Move(t, p, Lapsed)
    PROVE  NoLostWakeup'
<1>1. phase' = Woken([phase EXCEPT ![t] = p])
  BY DEF Move
<1>2. \A u \in Tasks : phase'[u] # "parked"
  BY <1>1 DEF TypeOK, Woken
<1> QED
  BY <1>2, AllAwake

\* The fence is closed to everyone, so whoever is parked has a reason.
LEMMA ClosedToAll ==
    ASSUME ~BackgroundOpen', ~AnalysisOpen', RepairBusy'
    PROVE  NoLostWakeup'
  BY DEF NoLostWakeup, RepairBusy

\* Neither the fence nor the set of parked tasks has grown.
LEMMA GatesUnchanged ==
    ASSUME NoLostWakeup,
           UNCHANGED <<recovery_complete, active_background, active_analysis,
                       pending_repair, repair_lease, reserved_repair,
                       runtime_resumption>>,
           \A u \in Tasks : phase'[u] = "parked" => phase[u] = "parked"
    PROVE  NoLostWakeup'
  BY DEF NoLostWakeup, BackgroundOpen, AnalysisOpen, Lapsed, StillReserved,
         Reserved, Pending, Leased, RepairAllowsAnalysis, Tasks

\* Dropping a reservation that has not lapsed drops nothing.
LEMMA ExpireNothing ==
    ASSUME ExpireReservation, ~Lapsed
    PROVE  UNCHANGED <<reserved_repair, expired_repairs>>
  BY DEF ExpireReservation, Tombstones

\* A lease with a live attempt closes the fence to everyone.
LEMMA AttemptCloses ==
    ASSUME Leased', repair_lease'.attempt # 0
    PROVE  NoLostWakeup'
  BY ClosedToAll DEF BackgroundOpen, AnalysisOpen, RepairAllowsAnalysis, RepairBusy

\* A writer parks only when it is refused, and while it runs it keeps out
\* snapshots and repairs; its end wakes everyone.
LEMMA WriterWakeup ==
    ASSUME FenceInv, NoLostWakeup, NEW w \in Writers,
           BeginBackground(w) \/ TryBeginBackground(w) \/ EndBackground(w)
    PROVE  NoLostWakeup'
<1> USE CoordinatorAssumption DEF admissionUnchanged
<1>0. TypeOK /\ Lapsed \in BOOLEAN /\ w \in Tasks
  BY DEF FenceInv, TypeOK, Lapsed, Tasks
<1>1. CASE EndBackground(w)
  BY <1>0, <1>1, MoveOthers, AllAwake DEF EndBackground, Phases
<1>2. CASE BeginBackground(w) \/ TryBeginBackground(w)
  <2>1. ExpireReservation /\ UNCHANGED admissionUnchanged
        /\ UNCHANGED active_analysis
    BY <1>2, Zenon DEF BeginBackground, TryBeginBackground, AdmitBackground
  <2>2. PICK p \in {"idle", "parked", "active"} :
           /\ Move(w, p, Lapsed)
           /\ p = "parked" => ~BackgroundOpen
           /\ \/ p # "active" /\ active_background' = active_background
              \/ BackgroundOpen /\ active_background' = active_background + 1
    BY <1>2 DEF BeginBackground, TryBeginBackground, AdmitBackground
  <2>3. CASE Lapsed
    BY <1>0, <2>2, <2>3, LapsedWakes DEF Phases
  <2>4. CASE ~Lapsed
    <3>1. UNCHANGED <<reserved_repair, expired_repairs>>
      BY <2>1, <2>4, ExpireNothing
    <3>2. \A u \in Tasks \ {w} : phase'[u] = "parked" => phase[u] = "parked"
      BY <1>0, <2>2, MoveOthers DEF Phases
    <3>3. phase'[w] = "parked" => p = "parked"
      BY <1>0, <2>2, MoveOthers DEF Phases
    <3>4. CASE active_background' = active_background
      <4>1. (BackgroundOpen' <=> BackgroundOpen) /\ (AnalysisOpen' <=> AnalysisOpen)
            /\ (RepairBusy' <=> RepairBusy)
        BY <2>1, <3>1, <3>4
           DEF BackgroundOpen, AnalysisOpen, StillReserved, Reserved, Pending,
               Leased, RepairAllowsAnalysis, RepairBusy
      <4>2. p = "active" => p # "parked"
        OBVIOUS
      <4> QED
        BY <2>2, <2>4, <3>1, <3>2, <3>3, <4>1
           DEF NoLostWakeup, Tasks, RepairBusy
    <3>5. CASE BackgroundOpen /\ active_background' = active_background + 1
      <4>1. active_background' # 0
        BY <1>0, <3>5 DEF TypeOK
      <4>2. ~AnalysisOpen' /\ RepairBusy'
        BY <4>1 DEF AnalysisOpen, RepairBusy
      <4>3. \A v \in Writers : phase'[v] # "parked"
        BY <2>2, <2>4, <3>2, <3>3, <3>5 DEF NoLostWakeup, Tasks
      <4> QED
        BY <4>2, <4>3 DEF NoLostWakeup, RepairBusy
    <3> QED
      BY <2>2, <3>4, <3>5
  <2> QED
    BY <2>3, <2>4
<1> QED
  BY <1>1, <1>2

\* A snapshot parks only when it is refused, and while it runs it keeps out
\* writers and repairs; its end wakes everyone.
LEMMA AnalystWakeup ==
    ASSUME FenceInv, NoLostWakeup, NEW a \in Analysts,
           BeginAnalysis(a) \/ EndAnalysis(a)
    PROVE  NoLostWakeup'
<1> USE CoordinatorAssumption DEF admissionUnchanged
<1>0. TypeOK /\ Lapsed \in BOOLEAN /\ a \in Tasks
  BY DEF FenceInv, TypeOK, Lapsed, Tasks
<1>1. CASE EndAnalysis(a)
  BY <1>0, <1>1, MoveOthers, AllAwake DEF EndAnalysis, Phases
<1>2. CASE BeginAnalysis(a)
  <2>1. ExpireReservation /\ UNCHANGED <<active_background, admissionUnchanged>>
    BY <1>2 DEF BeginAnalysis
  <2>2. PICK p \in {"parked", "active"} :
           /\ Move(a, p, Lapsed)
           /\ \/ /\ p = "parked" /\ ~AnalysisOpen
                 /\ active_analysis' = active_analysis
              \/ /\ p = "active" /\ AnalysisOpen
                 /\ active_analysis' = active_analysis + 1
    BY <1>2 DEF BeginAnalysis
  <2>3. CASE Lapsed
    BY <1>0, <2>2, <2>3, LapsedWakes DEF Phases
  <2>4. CASE ~Lapsed
    <3>1. UNCHANGED <<reserved_repair, expired_repairs>>
      BY <2>1, <2>4, ExpireNothing
    <3>2. \A u \in Tasks \ {a} : phase'[u] = "parked" => phase[u] = "parked"
      BY <1>0, <2>2, MoveOthers DEF Phases
    <3>3. p = "active" => phase'[a] # "parked"
      BY <1>0, <2>2, MoveOthers DEF Phases
    <3>4. CASE ~AnalysisOpen /\ active_analysis' = active_analysis
      <4>1. (BackgroundOpen' <=> BackgroundOpen) /\ (AnalysisOpen' <=> AnalysisOpen)
            /\ (RepairBusy' <=> RepairBusy)
        BY <2>1, <3>1, <3>4
           DEF BackgroundOpen, AnalysisOpen, StillReserved, Reserved, Pending,
               Leased, RepairAllowsAnalysis, RepairBusy
      <4> QED
        BY <2>4, <3>1, <3>2, <3>4, <4>1 DEF NoLostWakeup, Tasks, RepairBusy
    <3>5. CASE /\ p = "active" /\ AnalysisOpen
               /\ active_analysis' = active_analysis + 1
      <4>1. active_analysis' # 0
        BY <1>0, <3>5 DEF TypeOK
      <4>2. ~BackgroundOpen' /\ RepairBusy'
        BY <4>1 DEF BackgroundOpen, RepairBusy
      <4>3. \A b \in Analysts : phase'[b] # "parked"
        BY <2>4, <3>2, <3>3, <3>5 DEF NoLostWakeup, Tasks
      <4> QED
        BY <4>2, <4>3 DEF NoLostWakeup, RepairBusy
    <3> QED
      BY <2>2, <3>4, <3>5
  <2> QED
    BY <2>3, <2>4
<1> QED
  BY <1>1, <1>2

\* A refusal wakes everyone if it drops a reservation and changes nothing
\* else; a registration parks behind the writer or snapshot it waits for and
\* closes the fence to the others; a withdrawn one wakes everyone if the
\* pending repair goes; a grant closes the fence.
LEMMA AcquireWakeup ==
    ASSUME FenceInv, ReservationWhole, NoLostWakeup, NEW c \in Callers,
           (\E r \in Requests : Acquire(c, r)) \/ DropRegistration(c)
           \/ \E m \in Manifests : AcquireVerification(c, m)
    PROVE  NoLostWakeup'
<1> USE CoordinatorAssumption DEF admissionUnchanged, grantUnchanged
<1>0. /\ TypeOK /\ Lapsed \in BOOLEAN /\ c \in Tasks
      /\ (pending_repair' # pending_repair) \in BOOLEAN
  BY DEF FenceInv, TypeOK, Lapsed, Tasks
<1>1. CASE \E r \in Requests : RefuseRepair(c, r)
  <2>1. PICK r \in Requests : RefuseRepair(c, r)
    BY <1>1
  <2>2. PICK p \in {"idle", "leaving"} : Move(c, p, Lapsed)
    BY <2>1 DEF RefuseRepair
  <2>3. CASE Lapsed
    BY <1>0, <2>2, <2>3, LapsedWakes DEF Phases
  <2>4. CASE ~Lapsed
    <3>1. \A u \in Tasks : phase'[u] = "parked" => phase[u] = "parked"
      BY <1>0, <2>2, MoveOthers DEF Phases
    <3>2. ExpireReservation
          /\ UNCHANGED <<recovery_complete, active_background, active_analysis,
                         pending_repair, repair_lease, runtime_resumption>>
      BY <2>1 DEF RefuseRepair
    <3> QED
      BY <2>4, <3>1, <3>2, ExpireNothing, GatesUnchanged
  <2> QED
    BY <2>3, <2>4
<1>2. CASE \E r \in Requests : \/ ConsumeReservation(c, r) \/ RetryDurable(c, r)
                               \/ TakeProvisional(c, r)
  <2>1. PICK r \in Requests : \/ ConsumeReservation(c, r) \/ RetryDurable(c, r)
                              \/ TakeProvisional(c, r)
    BY <1>2
  <2>2. repair_lease'.attempt # 0 /\ repair_lease'.manifest = r.manifest
    BY <2>1, GrantEffect
  <2> QED
    BY <2>2, AttemptCloses DEF Leased, Requests
<1>3. CASE \E r \in Requests : RegisterAndWait(c, r)
  <2>1. PICK r \in Requests : RegisterAndWait(c, r)
    BY <1>3
  <2>2. CASE Lapsed
    BY <1>0, <2>1, <2>2, LapsedWakes DEF RegisterAndWait, Phases
  <2>3. CASE ~Lapsed
    <3>1. Pending'
      BY <2>1 DEF RegisterAndWait, Pending, WithOwner, Requests
    <3>2. RepairBusy'
      BY <2>1 DEF RegisterAndWait, RepairBusy
    <3> QED
      BY <3>1, <3>2, ClosedToAll DEF BackgroundOpen, AnalysisOpen
  <2> QED
    BY <2>2, <2>3
<1>4. CASE DropRegistration(c)
  <2>1. Move(c, "idle", pending_repair' # pending_repair)
    BY <1>4 DEF DropRegistration
  <2>2. CASE pending_repair' # pending_repair
    <3>1. phase' = Woken([phase EXCEPT ![c] = "idle"])
      BY <2>1, <2>2 DEF Move
    <3>2. \A u \in Tasks : phase'[u] # "parked"
      BY <1>0, <3>1 DEF TypeOK, Woken
    <3> QED
      BY <3>2, AllAwake
  <2>3. CASE pending_repair' = pending_repair
    <3>1. \A u \in Tasks : phase'[u] = "parked" => phase[u] = "parked"
      BY <1>0, <2>1, MoveOthers DEF Phases
    <3> QED
      BY <1>4, <2>3, <3>1, GatesUnchanged DEF DropRegistration
  <2> QED
    BY <2>2, <2>3
<1>5. CASE \E m \in Manifests : AcquireVerification(c, m)
  <2>1. PICK m \in Manifests : AcquireVerification(c, m)
    BY <1>5
  <2>2. repair_lease'.attempt # 0 /\ repair_lease'.manifest = m
    BY <1>0, <2>1, IssueType DEF AcquireVerification, GrantAttempt, TypeOK
  <2> QED
    BY <2>2, AttemptCloses DEF Leased
<1> QED
  BY <1>1, <1>2, <1>3, <1>4, <1>5 DEF Acquire

\* Settling wakes everyone, but for a handoff, which leaves a reservation to
\* wait for, and a refused call, which still holds its lease.
LEMMA SettleWakeup ==
    ASSUME FenceInv, NoLostWakeup, NEW c \in Callers,
           RetainOnUncertainDrop(c) \/ SettleAttempt(c)
    PROVE  NoLostWakeup'
<1> USE CoordinatorAssumption DEF settleUnchanged
<1>0. TypeOK /\ c \in Tasks /\ GuardLive(c)
  BY DEF FenceInv, Tasks, GuardLive, RetainOnUncertainDrop, SettleAttempt,
         RetainUntilVerification, ReleaseAfterPrecommitFailure,
         ReleaseAfterVerification, HandoffAfterVerification, SettleRefused,
         DropGuard
<1>1. Owns(c) /\ Leased /\ guard[c].manifest = repair_lease.manifest
  BY <1>0, LiveGuardOwns
<1>2. CASE RetainOnUncertainDrop(c)
  BY <1>2, GatesUnchanged DEF RetainOnUncertainDrop, coordinatorVars
<1>3. CASE \/ RetainUntilVerification(c) \/ ReleaseAfterPrecommitFailure(c)
           \/ ReleaseAfterVerification(c) \/ DropGuard(c)
  <2>1. Settle(c, TRUE)
    BY <1>1, <1>3 DEF RetainUntilVerification, ReleaseAfterPrecommitFailure,
                      ReleaseAfterVerification, DropGuard
  <2> QED
    BY <1>0, <2>1, SettleEffect, AllAwake
<1>4. CASE \E next \in Requests : HandoffAfterVerification(c, next)
  <2>1. StillReserved' /\ Reserved'
    BY <1>1, <1>4 DEF HandoffAfterVerification, StillReserved, Reserved, Leased
  <2> QED
    BY <2>1, ClosedToAll DEF BackgroundOpen, AnalysisOpen, RepairBusy
<1>5. CASE SettleRefused(c)
  <2>1. Move(c, "dropping", FALSE)
    BY <1>5 DEF SettleRefused
  <2>2. \A u \in Tasks : phase'[u] = "parked" => phase[u] = "parked"
    BY <1>0, <2>1, MoveOthers DEF Phases
  <2> QED
    BY <1>5, <2>2, GatesUnchanged DEF SettleRefused
<1> QED
  BY <1>2, <1>3, <1>4, <1>5 DEF SettleAttempt

\* Cancelled waits, the clock, startup and the seal strand nobody either.
LEMMA OtherWakeup ==
    ASSUME FenceInv, NoLostWakeup,
           \/ FinishRecovery
           \/ \E t \in Writers \cup Analysts : CancelAdmission(t)
           \/ ReservationFallsDue \/ MatchesHandoff
           \/ \E generation \in Tokens : ExpireReservedRepair(generation)
           \/ \E r \in Requests : RearmApprovedRepair(r)
           \/ \E r \in Requests : BeginRuntimeResumption(r)
           \/ CommitResumption \/ DropResumption \/ UNCHANGED vars
    PROVE  NoLostWakeup'
<1> USE CoordinatorAssumption DEF admissionUnchanged, sealUnchanged
<1>0. TypeOK
  BY DEF FenceInv
<1>1. CASE FinishRecovery \/ MatchesHandoff \/ DropResumption
  BY <1>0, <1>1, WokenOthers, AllAwake
     DEF FinishRecovery, MatchesHandoff, DropResumption
<1>2. CASE \E t \in Writers \cup Analysts : CancelAdmission(t)
  <2>1. PICK t \in Writers \cup Analysts : CancelAdmission(t)
    BY <1>2
  <2>2. t \in Tasks /\ Move(t, "idle", FALSE)
    BY <2>1 DEF CancelAdmission, Tasks
  <2>3. \A u \in Tasks : phase'[u] = "parked" => phase[u] = "parked"
    BY <1>0, <2>2, MoveOthers DEF Phases
  <2> QED
    BY <2>1, <2>3, GatesUnchanged DEF CancelAdmission
<1>3. CASE ReservationFallsDue
  <2>1. Lapsed' /\ Reserved'
    BY <1>0, <1>3 DEF ReservationFallsDue, Lapsed, Reserved, TypeOK
  <2> QED
    BY <2>1 DEF NoLostWakeup
<1>4. CASE \E generation \in Tokens : ExpireReservedRepair(generation)
  <2>1. PICK generation \in Tokens : ExpireReservedRepair(generation)
    BY <1>4
  <2>2. CASE phase' = Woken(phase)
    BY <1>0, <2>2, WokenOthers, AllAwake
  <2>3. CASE UNCHANGED <<reserved_repair, expired_repairs, phase>>
    BY <2>1, <2>3, GatesUnchanged DEF ExpireReservedRepair
  <2> QED
    BY <2>1, <2>2, <2>3 DEF ExpireReservedRepair
<1>5. CASE \E r \in Requests : RearmApprovedRepair(r)
  <2>1. Leased' /\ ~recovery_complete'
    BY <1>5 DEF RearmApprovedRepair, Leased, Requests
  <2> QED
    BY <2>1, ClosedToAll DEF BackgroundOpen, AnalysisOpen, RepairBusy
<1>6. CASE (\E r \in Requests : BeginRuntimeResumption(r)) \/ CommitResumption
  <2>1. /\ runtime_resumption' # "none" /\ phase' = phase
        /\ RepairBusy' <=> RepairBusy
    BY <1>6 DEF BeginRuntimeResumption, CommitResumption, RepairBusy, Leased,
                Reserved
  <2> QED
    BY <2>1 DEF NoLostWakeup, BackgroundOpen, AnalysisOpen, RepairBusy
<1>7. CASE UNCHANGED vars
  BY <1>7, GatesUnchanged DEF vars, coordinatorVars
<1> QED
  BY <1>1, <1>2, <1>3, <1>4, <1>5, <1>6, <1>7

\* Every step keeps every parked task with something to wait for.
LEMMA NextWakeup == ClaimInv /\ NoLostWakeup /\ [Next]_vars => NoLostWakeup'
<1> SUFFICES ASSUME ClaimInv, NoLostWakeup, [Next]_vars PROVE NoLostWakeup'
  OBVIOUS
<1>0. FenceInv /\ ReservationWhole
  BY DEF ClaimInv
<1>1. CASE \E w \in Writers :
             BeginBackground(w) \/ TryBeginBackground(w) \/ EndBackground(w)
  BY <1>0, <1>1, WriterWakeup
<1>2. CASE \E a \in Analysts : BeginAnalysis(a) \/ EndAnalysis(a)
  BY <1>0, <1>2, AnalystWakeup
<1>3. CASE \/ \E c \in Callers, r \in Requests : Acquire(c, r)
           \/ \E c \in Callers : DropRegistration(c)
           \/ \E c \in Callers, m \in Manifests : AcquireVerification(c, m)
  BY <1>0, <1>3, AcquireWakeup
<1>4. CASE \E c \in Callers : RetainOnUncertainDrop(c) \/ SettleAttempt(c)
  BY <1>0, <1>4, SettleWakeup
<1> QED
  BY <1>0, <1>1, <1>2, <1>3, <1>4, OtherWakeup DEF Next

\* No wake-up is lost: no task ever sleeps while what it waits for is there.
THEOREM NoWakeupIsLost == Spec => []NoLostWakeup
<1>1. Init => NoLostWakeup
  BY CoordinatorAssumption DEF Init, NoLostWakeup, Tasks
<1> QED
  BY <1>1, ClaimInvariant, NextWakeup, PTL DEF Spec

-----------------------------------------------------------------------------
(* What no step of the fence may do *)

\* The ways an acquisition is granted.
Granted(c, r) ==
    ConsumeReservation(c, r) \/ RetryDurable(c, r) \/ TakeProvisional(c, r)

\* Every step is a bystander's, a refusal or withdrawal, a grant, a
\* registration, a verification, a settling call, the clock or startup.
LEMMA StepKinds ==
    ASSUME [Next]_vars
    PROVE  \/ BystanderStep
           \/ \E c \in Callers, r \in Requests :
                 RefuseRepair(c, r) \/ RegisterAndWait(c, r) \/ Granted(c, r)
           \/ \E c \in Callers : DropRegistration(c)
           \/ \E c \in Callers, m \in Manifests : AcquireVerification(c, m)
           \/ \E c \in Callers : RetainOnUncertainDrop(c) \/ SettleAttempt(c)
           \/ ReservationFallsDue
           \/ \E r \in Requests : RearmApprovedRepair(r)
<1>1. CASE UNCHANGED vars
  BY <1>1 DEF BystanderStep
<1>2. CASE Next
  BY <1>2 DEF Next, Acquire, Granted, BystanderStep
<1> QED
  BY <1>1, <1>2

\* A reservation is dropped when it lapses, consumed, falls due or is created.
LEMMA ReservationMoves ==
    ASSUME ClaimInv, [Next]_vars
    PROVE  \/ ExpireReservation
           \/ UNCHANGED <<reserved_repair, expired_repairs>>
           \/ \E c \in Callers, r \in Requests : ConsumeReservation(c, r)
           \/ ReservationFallsDue
           \/ \E c \in Callers, next \in Requests : HandoffAfterVerification(c, next)
<1>0. FenceInv
  BY DEF ClaimInv
<1>1. CASE BystanderStep
  BY <1>0, <1>1, BystanderEffect
<1>2. CASE \E c \in Callers, r \in Requests :
              RefuseRepair(c, r) \/ RegisterAndWait(c, r) \/ Granted(c, r)
  BY <1>2 DEF RefuseRepair, RegisterAndWait, Granted, RetryDurable, TakeProvisional
<1>3. CASE \/ \E c \in Callers : DropRegistration(c)
           \/ \E c \in Callers, m \in Manifests : AcquireVerification(c, m)
           \/ \E r \in Requests : RearmApprovedRepair(r)
  BY <1>3 DEF DropRegistration, AcquireVerification, RearmApprovedRepair
<1>4. CASE \E c \in Callers : RetainOnUncertainDrop(c) \/ SettleAttempt(c)
  BY <1>4 DEF RetainOnUncertainDrop, coordinatorVars, SettleAttempt,
              RetainUntilVerification, ReleaseAfterPrecommitFailure,
              ReleaseAfterVerification, SettleRefused, DropGuard, settleUnchanged
<1> QED
  BY <1>1, <1>2, <1>3, <1>4, StepKinds

\* A reservation ends with its own request holding the lease, or with that
\* request tombstoned; no handoff overwrites one.
THEOREM ReservationsResolve == Spec => ReservationResolves
<1>1. ASSUME ClaimInv, [Next]_vars
      PROVE  reserved_repair.next_apply # NoRequest
             /\ reserved_repair'.next_apply # reserved_repair.next_apply =>
               \/ \E c \in Callers :
                     /\ request'[c] = reserved_repair.next_apply
                     /\ guard'[c].token = repair_lease'.attempt
                     /\ repair_lease'.manifest = reserved_repair.next_apply.manifest
               \/ reserved_repair.next_apply \in expired_repairs'
  <2>0. FenceInv /\ ReservationWhole /\ TypeOK
    BY <1>1 DEF ClaimInv, FenceInv
  <2>1. CASE ExpireReservation \/ UNCHANGED <<reserved_repair, expired_repairs>>
    BY <2>0, <2>1, ExpireWhole
  <2>2. CASE \E c \in Callers, r \in Requests : ConsumeReservation(c, r)
    <3>1. PICK c \in Callers, r \in Requests : ConsumeReservation(c, r)
      BY <2>2
    <3>2. r = reserved_repair.next_apply
      BY <2>0, <3>1, AdmittedRequest DEF ConsumeReservation
    <3>3. /\ request'[c] = r /\ guard'[c].token = repair_lease'.attempt
          /\ repair_lease'.manifest = r.manifest
      BY <2>0, <3>1, GrantEffect
    <3> QED
      BY <3>2, <3>3
  <2>3. CASE ReservationFallsDue
    BY <2>0, <2>3 DEF ReservationFallsDue, TypeOK
  <2>4. CASE \E c \in Callers, next \in Requests : HandoffAfterVerification(c, next)
    <3>1. PICK c \in Callers, next \in Requests : HandoffAfterVerification(c, next)
      BY <2>4
    <3>2. ~Reserved
      BY <2>0, <3>1, LiveGuardOwns DEF HandoffAfterVerification, GuardLive
    <3> QED
      BY <2>0, <3>2 DEF ReservationWhole
  <2> QED
    BY <1>1, <2>1, <2>2, <2>3, <2>4, ReservationMoves
<1> QED
  BY <1>1, ClaimInvariant, PTL DEF Spec, ReservationResolves

\* Only a grant or a verification gives a caller a live guard.
LEMMA GuardsBegin ==
    ASSUME ClaimInv, [Next]_vars, NEW c \in Callers, ~GuardLive(c), GuardLive(c)'
    PROVE  \/ \E r \in Requests : Granted(c, r)
           \/ \E m \in Manifests : AcquireVerification(c, m)
<1> USE CoordinatorAssumption
<1>0. /\ FenceInv /\ TypeOK /\ ReservationWhole /\ Lapsed \in BOOLEAN
      /\ (pending_repair' # pending_repair) \in BOOLEAN /\ Callers \subseteq Tasks
  BY DEF ClaimInv, FenceInv, TypeOK, Lapsed, Tasks
<1>1. ~BystanderStep
  BY <1>0, BystanderEffect
<1>2. \A d \in Callers, r \in Requests : ~RefuseRepair(d, r) /\ ~RegisterAndWait(d, r)
  <2> SUFFICES ASSUME NEW d \in Callers, NEW r \in Requests,
                      RefuseRepair(d, r) \/ RegisterAndWait(d, r)
               PROVE  FALSE
    OBVIOUS
  <2>1. PICK p \in {"idle", "leaving", "parked"} : Move(d, p, Lapsed)
    BY DEF RefuseRepair, RegisterAndWait
  <2> QED
    BY <1>0, <2>1, MoveOthers DEF Phases, GuardLive
<1>3. \A d \in Callers : ~DropRegistration(d)
  BY <1>0, MoveOthers DEF DropRegistration, Phases, GuardLive
<1>4. \A d \in Callers : ~RetainOnUncertainDrop(d) /\ ~SettleAttempt(d)
  <2> SUFFICES ASSUME NEW d \in Callers,
                      RetainOnUncertainDrop(d) \/ SettleAttempt(d)
               PROVE  FALSE
    OBVIOUS
  <2>1. CASE RetainOnUncertainDrop(d)
    BY <2>1 DEF RetainOnUncertainDrop, GuardLive
  <2>2. CASE SettleRefused(d)
    <3>1. GuardLive(d) /\ Move(d, "dropping", FALSE)
      BY <2>2 DEF SettleRefused, GuardLive
    <3> QED
      BY <1>0, <3>1, MoveOthers DEF Phases, GuardLive
  <2>3. CASE Settle(d, TRUE) \/ Settle(d, FALSE)
    BY <1>0, <2>3, SettleEffect
  <2>4. Owns(d) \in BOOLEAN
    BY DEF Owns
  <2> QED
    BY <2>1, <2>2, <2>3, <2>4
       DEF SettleAttempt, RetainUntilVerification, ReleaseAfterPrecommitFailure,
           ReleaseAfterVerification, HandoffAfterVerification, DropGuard
<1>5. ~ReservationFallsDue /\ ~\E r \in Requests : RearmApprovedRepair(r)
  BY DEF ReservationFallsDue, RearmApprovedRepair, GuardLive
<1>6. \A d \in Callers \ {c} : /\ \A r \in Requests : ~Granted(d, r)
                              /\ \A m \in Manifests : ~AcquireVerification(d, m)
  <2> SUFFICES ASSUME NEW d \in Callers \ {c},
                      \/ \E r \in Requests : Granted(d, r)
                      \/ \E m \in Manifests : AcquireVerification(d, m)
               PROVE  FALSE
    OBVIOUS
  <2>1. CASE \E r \in Requests : Granted(d, r)
    BY <1>0, <2>1, GrantEffect DEF Granted
  <2>2. CASE \E m \in Manifests : AcquireVerification(d, m)
    BY <1>0, <2>2, MoveOthers DEF AcquireVerification, Phases, GuardLive
  <2> QED
    BY <2>1, <2>2
<1> QED
  BY <1>1, <1>2, <1>3, <1>4, <1>5, <1>6, StepKinds

\* A tombstone is final: no step removes one, and none gives an attempt to a
\* request that has one.
THEOREM TombstonesAreFinal == Spec => TombstoneFinal
<1>1. ASSUME ClaimInv, [Next]_vars
      PROVE  /\ expired_repairs \subseteq expired_repairs'
             /\ \A c \in Callers :
                   ~GuardLive(c) /\ GuardLive(c)' => request'[c] \notin expired_repairs'
  <2>0. FenceInv /\ ReservationWhole /\ TypeOK /\ TypeOK'
    BY <1>1, NextInv DEF ClaimInv, FenceInv
  <2>1. expired_repairs \subseteq expired_repairs'
    BY <1>1, <2>0, ReservationMoves, ExpireWhole
       DEF ConsumeReservation, ReservationFallsDue, HandoffAfterVerification,
           settleUnchanged
  <2>2. ASSUME NEW c \in Callers, ~GuardLive(c), GuardLive(c)'
        PROVE  request'[c] \notin expired_repairs'
    <3>1. CASE \E r \in Requests : Granted(c, r)
      <4>1. PICK r \in Requests : Granted(c, r)
        BY <3>1
      <4>2. ~AcquireRefused(r) /\ request'[c] = r /\ expired_repairs' = Tombstones
        BY <2>0, <4>1, GrantEffect DEF Granted
      <4> QED
        BY <2>0, <4>2, AdmittedRequest
    <3>2. CASE \E m \in Manifests : AcquireVerification(c, m)
      <4>1. request'[c] = NoRequest
        BY <1>1, <3>2 DEF AcquireVerification, ClaimInv, RequestsWorkedFor
      <4>2. NoRequest \notin Requests
        BY CoordinatorAssumption DEF NoRequest, Requests
      <4> QED
        BY <2>0, <4>1, <4>2 DEF TypeOK
    <3> QED
      BY <1>1, <2>2, <3>1, <3>2, GuardsBegin
  <2> QED
    BY <2>1, <2>2
<1> QED
  BY <1>1, ClaimInvariant, PTL DEF Spec, TombstoneFinal

\* What a settling call does to the lease it owns: it stays on its manifest,
\* now durable and idle, or the owner gives it up and becomes idle.
LEMMA SettleLease ==
    ASSUME FenceInv, NEW c \in Callers, SettleAttempt(c)
    PROVE  \/ repair_lease' = repair_lease
           \/ repair_lease' = IdleDurable
           \/ /\ repair_lease' = NoLease /\ GuardLive(c) /\ Owns(c)
              /\ phase'[c] = "idle"
              /\ repair_lease.durable \/ guard[c].retain => phase[c] = "active"
<1>0. TypeOK
  BY DEF FenceInv
<1>1. CASE SettleRefused(c)
  BY <1>1 DEF SettleRefused
<1>2. CASE RetainUntilVerification(c)
  BY <1>2 DEF RetainUntilVerification
<1>3. CASE ReleaseAfterPrecommitFailure(c) \/ ReleaseAfterVerification(c)
           \/ \E next \in Requests : HandoffAfterVerification(c, next)
  <2>1. /\ phase[c] = "active" /\ Owns(c)
        /\ Settle(c, TRUE) \/ Settle(c, FALSE)
        /\ repair_lease' \in {IdleDurable, NoLease}
    BY <1>3 DEF ReleaseAfterPrecommitFailure, ReleaseAfterVerification,
                HandoffAfterVerification
  <2>2. phase'[c] = "idle"
    BY <1>0, <2>1, SettleEffect
  <2> QED
    BY <2>1, <2>2 DEF GuardLive
<1>4. CASE DropGuard(c)
  <2>1. GuardLive(c) /\ Owns(c)
    BY <1>4, LiveGuardOwns DEF DropGuard
  <2>2. Settle(c, TRUE)
    BY <1>4, <2>1 DEF DropGuard
  <2>3. phase'[c] = "idle"
    BY <1>0, <2>2, SettleEffect
  <2> QED
    BY <1>4, <2>1, <2>3 DEF DropGuard
<1> QED
  BY <1>1, <1>2, <1>3, <1>4 DEF SettleAttempt

\* A lease moves only with a grant, a verification, a settling call or
\* startup.
LEMMA LeaseMoves ==
    ASSUME ClaimInv, [Next]_vars
    PROVE  \/ repair_lease' = repair_lease
           \/ \E c \in Callers, r \in Requests : Granted(c, r)
           \/ \E c \in Callers, m \in Manifests : AcquireVerification(c, m)
           \/ \E c \in Callers : SettleAttempt(c)
           \/ \E r \in Requests : RearmApprovedRepair(r)
<1>0. FenceInv
  BY DEF ClaimInv
<1>1. CASE BystanderStep
  BY <1>0, <1>1, BystanderEffect
<1>2. CASE \E c \in Callers, r \in Requests :
              RefuseRepair(c, r) \/ RegisterAndWait(c, r)
  BY <1>2 DEF RefuseRepair, RegisterAndWait, admissionUnchanged
<1>3. CASE \E c \in Callers : DropRegistration(c) \/ RetainOnUncertainDrop(c)
  BY <1>3 DEF DropRegistration, RetainOnUncertainDrop, coordinatorVars
<1>4. CASE ReservationFallsDue
  BY <1>4 DEF ReservationFallsDue, admissionUnchanged
<1> QED
  BY <1>1, <1>2, <1>3, <1>4, StepKinds

\* A lease stays on its manifest and as durable as it was, and ends only with
\* the guard that owns it.
LEMMA LeaseFailsClosed ==
    ASSUME ClaimInv, [Next]_vars
    PROVE  /\ Leased /\ Leased' =>
                 /\ repair_lease'.manifest = repair_lease.manifest
                 /\ repair_lease.durable => repair_lease'.durable
           /\ Leased /\ ~Leased' =>
                 \E c \in Callers :
                    /\ GuardLive(c) /\ Owns(c) /\ phase'[c] = "idle"
                    /\ repair_lease.durable \/ guard[c].retain => phase[c] = "active"
<1>0. FenceInv /\ ReservationWhole /\ TypeOK
  BY DEF ClaimInv, FenceInv
<1>1. CASE repair_lease' = repair_lease
  BY <1>1 DEF Leased
<1>2. CASE \E c \in Callers, r \in Requests : Granted(c, r)
  <2>1. PICK c \in Callers, r \in Requests : Granted(c, r)
    BY <1>2
  <2>2. /\ repair_lease'.manifest = r.manifest
        /\ Leased => repair_lease.manifest = r.manifest
        /\ Leased => repair_lease'.durable
    BY <1>0, <2>1, GrantEffect DEF Granted
  <2>3. Leased'
    BY <2>2, CoordinatorAssumption DEF Leased, Requests
  <2> QED
    BY <2>2, <2>3
<1>3. CASE \E c \in Callers, m \in Manifests : AcquireVerification(c, m)
  <2>1. PICK c \in Callers, m \in Manifests : AcquireVerification(c, m)
    BY <1>3
  <2>2. /\ repair_lease.manifest = m /\ repair_lease'.manifest = m
        /\ repair_lease'.durable
    BY <2>1 DEF AcquireVerification, GrantAttempt
  <2> QED
    BY <2>2 DEF Leased
<1>4. CASE \E c \in Callers : SettleAttempt(c)
  <2>1. PICK c \in Callers : SettleAttempt(c)
    BY <1>4
  <2>2. CASE repair_lease' = IdleDurable
    BY <2>2 DEF IdleDurable, Leased
  <2>3. CASE /\ repair_lease' = NoLease /\ GuardLive(c) /\ Owns(c)
             /\ phase'[c] = "idle"
             /\ repair_lease.durable \/ guard[c].retain => phase[c] = "active"
    BY <2>3 DEF NoLease, Leased
  <2> QED
    BY <1>0, <1>1, <2>1, <2>2, <2>3, SettleLease
<1>5. CASE \E r \in Requests : RearmApprovedRepair(r)
  BY <1>5, CoordinatorAssumption DEF RearmApprovedRepair, Leased, Requests
<1> QED
  BY <1>1, <1>2, <1>3, <1>4, <1>5, LeaseMoves

\* The fence fails closed: no step moves a lease to another manifest or makes
\* it less durable, and only the guard that owns it can end it.
THEOREM FailsClosed == Spec => FenceFailsClosed
  BY LeaseFailsClosed, ClaimInvariant, PTL DEF Spec, FenceFailsClosed

\* Nothing but a handoff gives an armed daemon another request, and nothing
\* undoes a committed seal.
THEOREM SealAndClaimArePermanent == Spec => SealAndClaimPermanent
<1>1. ASSUME ClaimInv, [Next]_vars
      PROVE  /\ runtime_resumption = "committed" => runtime_resumption' = "committed"
             /\ startup_claim # NoRequest /\ startup_claim' # startup_claim =>
                   startup_claim' = reserved_repair'.next_apply
  <2>0. FenceInv /\ ReservationWhole /\ TypeOK
    BY <1>1 DEF ClaimInv, FenceInv
  <2>1. CASE BystanderStep
    <3>1. startup_claim' = startup_claim
      BY <2>0, <2>1, BystanderEffect
    <3>2. runtime_resumption = "committed" => runtime_resumption' = "committed"
      <4>1. CASE \/ FinishRecovery \/ UNCHANGED vars \/ MatchesHandoff
                 \/ \E t \in Writers \cup Analysts : CancelAdmission(t)
                 \/ \E generation \in Tokens : ExpireReservedRepair(generation)
        BY <4>1 DEF FinishRecovery, vars, coordinatorVars, MatchesHandoff,
                    CancelAdmission, ExpireReservedRepair, admissionUnchanged
      <4>2. CASE \E w \in Writers :
                   BeginBackground(w) \/ TryBeginBackground(w) \/ EndBackground(w)
        BY <4>2 DEF BeginBackground, TryBeginBackground, AdmitBackground,
                    EndBackground, admissionUnchanged
      <4>3. CASE \E a \in Analysts : BeginAnalysis(a) \/ EndAnalysis(a)
        BY <4>3 DEF BeginAnalysis, EndAnalysis, admissionUnchanged
      <4>4. CASE \/ \E r \in Requests : BeginRuntimeResumption(r)
                 \/ CommitResumption \/ DropResumption
        BY <4>4 DEF BeginRuntimeResumption, CommitResumption, DropResumption
      <4> QED
        BY <2>1, <4>1, <4>2, <4>3, <4>4 DEF BystanderStep
    <3> QED
      BY <3>1, <3>2
  <2>2. CASE \E c \in Callers, r \in Requests :
                RefuseRepair(c, r) \/ RegisterAndWait(c, r) \/ Granted(c, r)
    BY <2>2 DEF RefuseRepair, RegisterAndWait, Granted, ConsumeReservation,
                RetryDurable, TakeProvisional, admissionUnchanged, grantUnchanged
  <2>3. CASE \/ \E c \in Callers : DropRegistration(c)
             \/ \E c \in Callers, m \in Manifests : AcquireVerification(c, m)
    BY <2>3 DEF DropRegistration, AcquireVerification, grantUnchanged
  <2>4. CASE \E c \in Callers : RetainOnUncertainDrop(c) \/ SettleAttempt(c)
    <3> USE DEF settleUnchanged
    <3>1. PICK c \in Callers : RetainOnUncertainDrop(c) \/ SettleAttempt(c)
      BY <2>4
    <3>2. CASE \/ RetainOnUncertainDrop(c) \/ RetainUntilVerification(c)
               \/ ReleaseAfterPrecommitFailure(c) \/ ReleaseAfterVerification(c)
               \/ SettleRefused(c) \/ DropGuard(c)
      BY <3>2 DEF RetainOnUncertainDrop, coordinatorVars,
                  RetainUntilVerification, ReleaseAfterPrecommitFailure,
                  ReleaseAfterVerification, SettleRefused, DropGuard
    <3>3. CASE \E next \in Requests : HandoffAfterVerification(c, next)
      <4>1. PICK next \in Requests : HandoffAfterVerification(c, next)
        BY <3>3
      <4>2. /\ runtime_resumption' = runtime_resumption
            /\ reserved_repair'.next_apply = next
            /\ startup_claim' = next \/ startup_claim' = startup_claim
        BY <4>1 DEF HandoffAfterVerification
      <4> QED
        BY <4>2
    <3> QED
      BY <3>1, <3>2, <3>3 DEF SettleAttempt
  <2>5. CASE ReservationFallsDue
    BY <2>5 DEF ReservationFallsDue, admissionUnchanged
  <2>6. CASE \E r \in Requests : RearmApprovedRepair(r)
    BY <2>6 DEF RearmApprovedRepair
  <2> QED
    BY <1>1, <2>1, <2>2, <2>3, <2>4, <2>5, <2>6, StepKinds
<1> QED
  BY <1>1, ClaimInvariant, PTL DEF Spec, SealAndClaimPermanent
===============================================================================
