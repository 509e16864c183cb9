------------------------ MODULE MaintenanceCoordinator ------------------------
(***************************************************************************)
(* The repair write fence of wenlan-server                                 *)
(* (crates/wenlan-server/src/maintenance_coordinator.rs).                  *)
(*                                                                         *)
(* One mutex protects CoordinatorState; every critical section is one      *)
(* action here.  Three kinds of task use it: background writers, analysis  *)
(* snapshots, and callers, the HTTP handlers that own a repair attempt     *)
(* through a RepairFenceGuard.  A task that has to wait parks on           *)
(* tokio::sync::Notify and looks at the state again only after             *)
(* notify_waiters, so wake-ups are part of the model.                      *)
(***************************************************************************)
EXTENDS Naturals, FiniteSets

CONSTANTS
    Manifests,      \* repair manifest ids
    Digests,        \* approved digests; a request is a manifest and a digest
    NoManifest,     \* Option::None for a manifest id
    NoDigest,       \* Option::None for a digest
    Callers,        \* handlers that acquire and settle repair attempts
    Writers,        \* daemon-owned background writers
    Analysts,       \* diagnostic snapshots
    TokenLimit      \* largest token a counter issues (u64::MAX in the code)

Tasks == Callers \cup Writers \cup Analysts

ASSUME CoordinatorAssumption ==
    /\ NoManifest \notin Manifests
    /\ NoDigest \notin Digests
    /\ IsFiniteSet(Writers) /\ IsFiniteSet(Analysts)
    /\ Callers \cap Writers = {}
    /\ Callers \cap Analysts = {}
    /\ Writers \cap Analysts = {}
    /\ TokenLimit \in Nat \ {0}

VARIABLES
    recovery_complete, active_background, active_analysis, pending_repair,
    repair_lease, startup_claim, startup_claim_complete, reserved_repair,
    expired_repairs, next_repair_attempt, next_reservation,
    runtime_resumption,
    timers,         \* generations whose expiry timer has not fired yet
    phase,          \* where each task stands
    request,        \* the ApplyRepairRequest an applying caller works for
    guard           \* the RepairFenceGuard a caller owns

coordinatorVars ==
    <<recovery_complete, active_background, active_analysis, pending_repair,
      repair_lease, startup_claim, startup_claim_complete, reserved_repair,
      expired_repairs, next_repair_attempt, next_reservation,
      runtime_resumption>>
vars == <<coordinatorVars, timers, phase, request, guard>>

Requests == [manifest : Manifests, digest : Digests]
NoRequest == [manifest |-> NoManifest, digest |-> NoDigest]

(***************************************************************************)
(* The optional parts of CoordinatorState.  Token 0 is never issued, so it *)
(* stands for "no attempt".  A pending owner's token is unique among the   *)
(* live registrations, so the owning caller stands for it.  due abstracts  *)
(* expires_at <= now.                                                      *)
(***************************************************************************)
Tokens == 1..TokenLimit
NoLease == [manifest |-> NoManifest, durable |-> FALSE, attempt |-> 0]
NoPending == [manifest |-> NoManifest, owners |-> {}]
NoReservation == [predecessor |-> NoManifest, next_apply |-> NoRequest,
                  generation |-> 0, due |-> FALSE]
NoGuard == [manifest |-> NoManifest, token |-> 0, retain |-> FALSE]

\* Mutant: the counter does not wrap.
IssueUnwrapped(counter) == counter + 1

\* issue_repair_attempt, issue_reservation: wrapping increment that skips 0.
Issue(counter) == IF counter >= TokenLimit THEN 1 ELSE counter + 1

\* Option::is_some for the optional parts.
Leased == repair_lease.manifest # NoManifest
Pending == pending_repair.manifest # NoManifest
Reserved == reserved_repair.predecessor # NoManifest

RepairAllowsAnalysis == Leased => repair_lease.durable /\ repair_lease.attempt = 0

(***************************************************************************)
(* expire_reservation: most operations first drop a reservation whose      *)
(* deadline has passed and leave a tombstone for its request.              *)
(***************************************************************************)
Lapsed == Reserved /\ reserved_repair.due
StillReserved == Reserved /\ ~reserved_repair.due
\* Mutant: an expired reservation leaves no tombstone.
ForgottenTombstones == expired_repairs

Tombstones ==
    IF Lapsed THEN expired_repairs \cup {reserved_repair.next_apply}
              ELSE expired_repairs
ExpireReservation ==
    /\ reserved_repair' = IF Lapsed THEN NoReservation ELSE reserved_repair
    /\ expired_repairs' = Tombstones

\* Mutant: the pending repair stays when its last owner leaves.
WithoutLastOwner(pending, m, c) ==
    IF pending.manifest # m THEN pending
    ELSE [pending EXCEPT !.owners = @ \ {c}]

\* remove_pending_owner and clear_pending_manifest as functions of the state.
WithoutOwner(pending, m, c) ==
    IF pending.manifest # m THEN pending
    ELSE IF pending.owners \ {c} = {} THEN NoPending
    ELSE [pending EXCEPT !.owners = @ \ {c}]
WithOwner(pending, m, c) ==
    [manifest |-> m, owners |-> pending.owners \cup {c}]
WithoutManifest(pending, m) ==
    IF pending.manifest = m THEN NoPending ELSE pending

\* Notify::notify_waiters wakes every task parked on a Notified future.
Woken(p) == [t \in DOMAIN p |-> IF p[t] = "parked" THEN "woken" ELSE p[t]]

\* Task t moves to phase p; when notify holds, every parked task wakes.
Move(t, p, notify) ==
    phase' = IF notify THEN Woken([phase EXCEPT ![t] = p])
                       ELSE [phase EXCEPT ![t] = p]

-----------------------------------------------------------------------------
Init ==
    /\ recovery_complete = FALSE
    /\ active_background = 0
    /\ active_analysis = 0
    /\ pending_repair = NoPending
    /\ repair_lease = NoLease
    /\ startup_claim = NoRequest
    /\ startup_claim_complete = FALSE
    /\ reserved_repair = NoReservation
    /\ expired_repairs = {}
    /\ next_repair_attempt = 0
    /\ next_reservation = 0
    /\ runtime_resumption = "none"
    /\ timers = {}
    /\ phase = [t \in Tasks |-> "idle"]
    /\ request = [c \in Callers |-> NoRequest]
    /\ guard = [c \in Callers |-> NoGuard]

FinishRecovery ==
    /\ ~recovery_complete
    /\ recovery_complete' = TRUE
    /\ phase' = Woken(phase)
    /\ UNCHANGED <<active_background, active_analysis, pending_repair,
                   repair_lease, startup_claim, startup_claim_complete,
                   reserved_repair, expired_repairs, next_repair_attempt,
                   next_reservation, runtime_resumption, timers, request,
                   guard>>

-----------------------------------------------------------------------------
(* Background writers and analysis snapshots *)

\* Mutant: a writer does not look at the lease.
OpenUnderLease ==
    /\ recovery_complete
    /\ active_analysis = 0
    /\ ~Pending
    /\ ~StillReserved
    /\ runtime_resumption = "none"

\* Mutant: a writer does not look at the resumption seal.
OpenUnderSeal ==
    /\ recovery_complete
    /\ active_analysis = 0
    /\ ~Pending
    /\ ~Leased
    /\ ~StillReserved

\* Mutant: a writer slips in between two repairs of a chain.
OpenDuringChain ==
    /\ recovery_complete
    /\ active_analysis = 0
    /\ ~Pending
    /\ ~Leased
    /\ runtime_resumption = "none"

BackgroundOpen ==
    /\ recovery_complete
    /\ active_analysis = 0
    /\ ~Pending
    /\ ~Leased
    /\ ~StillReserved
    /\ runtime_resumption = "none"

AnalysisOpen ==
    /\ recovery_complete
    /\ active_background = 0
    /\ ~Pending
    /\ RepairAllowsAnalysis
    /\ ~StillReserved
    /\ runtime_resumption = "none"

\* The parts of the state no admission of a writer or an analyst touches.
admissionUnchanged ==
    <<recovery_complete, pending_repair, repair_lease, startup_claim,
      startup_claim_complete, next_repair_attempt, next_reservation,
      runtime_resumption, timers, request, guard>>

AdmitBackground(w) ==
    /\ BackgroundOpen
    /\ ExpireReservation
    /\ active_background' = active_background + 1
    /\ Move(w, "active", Lapsed)
    /\ UNCHANGED <<active_analysis, admissionUnchanged>>

\* begin_background: one round of its loop.
BeginBackground(w) ==
    /\ phase[w] \in {"idle", "woken"}
    /\ \/ AdmitBackground(w)
       \/ /\ ~BackgroundOpen
          /\ ExpireReservation
          /\ Move(w, "parked", Lapsed)
          /\ UNCHANGED <<active_background, active_analysis,
                         admissionUnchanged>>

\* try_begin_background: the same test, but a refused writer does not wait.
TryBeginBackground(w) ==
    /\ phase[w] = "idle"
    /\ \/ AdmitBackground(w)
       \/ /\ ~BackgroundOpen
          /\ ExpireReservation
          /\ Move(w, "idle", Lapsed)
          /\ UNCHANGED <<active_background, active_analysis,
                         admissionUnchanged>>

\* Mutant: a finished writer notifies nobody.
EndBackgroundSilently(w) ==
    /\ phase[w] = "active"
    /\ active_background' = active_background - 1
    /\ Move(w, "idle", FALSE)
    /\ UNCHANGED <<active_analysis, reserved_repair, expired_repairs,
                   admissionUnchanged>>

\* Drop for BackgroundMaintenanceGuard.
EndBackground(w) ==
    /\ phase[w] = "active"
    /\ active_background' =
          IF active_background = 0 THEN 0 ELSE active_background - 1
    /\ Move(w, "idle", TRUE)
    /\ UNCHANGED <<active_analysis, reserved_repair, expired_repairs,
                   admissionUnchanged>>

\* begin_analysis: one round of its loop.
BeginAnalysis(a) ==
    /\ phase[a] \in {"idle", "woken"}
    /\ ExpireReservation
    /\ \/ /\ AnalysisOpen
          /\ active_analysis' = active_analysis + 1
          /\ Move(a, "active", Lapsed)
       \/ /\ ~AnalysisOpen
          /\ active_analysis' = active_analysis
          /\ Move(a, "parked", Lapsed)
    /\ UNCHANGED <<active_background, admissionUnchanged>>

\* Mutant: a finished snapshot notifies nobody.
EndAnalysisSilently(a) ==
    /\ phase[a] = "active"
    /\ active_analysis' = active_analysis - 1
    /\ Move(a, "idle", FALSE)
    /\ UNCHANGED <<active_background, reserved_repair, expired_repairs,
                   admissionUnchanged>>

\* Drop for AnalysisGuard.
EndAnalysis(a) ==
    /\ phase[a] = "active"
    /\ active_analysis' =
          IF active_analysis = 0 THEN 0 ELSE active_analysis - 1
    /\ Move(a, "idle", TRUE)
    /\ UNCHANGED <<active_background, reserved_repair, expired_repairs,
                   admissionUnchanged>>

\* The future of a waiting writer or analyst is dropped.
CancelAdmission(t) ==
    /\ phase[t] \in {"parked", "woken"}
    /\ Move(t, "idle", FALSE)
    /\ UNCHANGED <<active_background, active_analysis, reserved_repair,
                   expired_repairs, admissionUnchanged>>

-----------------------------------------------------------------------------
(* acquire_repair_inner *)

\* Caller c looks at the state for request r: first call, or after a wake-up.
Looks(c, r) ==
    \/ phase[c] = "idle"
    \/ phase[c] = "woken" /\ request[c] = r

\* Mutant: the startup claim is not compared with the request.
SealedWithoutClaim(r) ==
    \/ ~recovery_complete
    \/ runtime_resumption # "none"
    \/ startup_claim_complete
    \/ r \in Tombstones

\* Mutant: tombstones are not consulted.
SealedWithoutTombstones(r) ==
    \/ ~recovery_complete
    \/ runtime_resumption # "none"
    \/ startup_claim_complete
    \/ startup_claim \notin {NoRequest, r}

\* The early returns before the reservation is inspected.
AcquireSealed(r) ==
    \/ ~recovery_complete
    \/ runtime_resumption # "none"
    \/ startup_claim_complete
    \/ startup_claim \notin {NoRequest, r}
    \/ r \in Tombstones

\* Mutant: a lease with a live attempt counts as idle.
BusyWithoutAttempt == active_analysis # 0 \/ ~repair_lease.durable

LeaseBusy ==
    active_analysis # 0 \/ ~repair_lease.durable \/ repair_lease.attempt # 0

AcquireRefused(r) ==
    \/ AcquireSealed(r)
    \/ /\ StillReserved
       /\ \/ r # reserved_repair.next_apply
          \/ active_background # 0 \/ active_analysis # 0 \/ Leased
    \/ /\ ~StillReserved
       /\ Leased
       /\ repair_lease.manifest # r.manifest \/ LeaseBusy
    \/ /\ ~StillReserved
       /\ ~Leased
       /\ pending_repair.manifest \notin {NoManifest, r.manifest}

\* An Err return.  A caller that had registered still holds its
\* PendingRepairRegistration, dropped after the mutex is released.
RefuseRepair(c, r) ==
    /\ Looks(c, r)
    /\ AcquireRefused(r)
    /\ ExpireReservation
    /\ Move(c, IF phase[c] = "idle" THEN "idle" ELSE "leaving", Lapsed)
    /\ UNCHANGED <<active_background, active_analysis, admissionUnchanged>>

\* Ok: caller c leaves with the guard of a new attempt on manifest m.
GrantAttempt(c, m, durable) ==
    LET token == Issue(next_repair_attempt) IN
    /\ next_repair_attempt' = token
    /\ repair_lease' = [manifest |-> m, durable |-> durable, attempt |-> token]
    /\ guard' = [guard EXCEPT ![c] =
                    [manifest |-> m, token |-> token, retain |-> FALSE]]

grantUnchanged ==
    <<recovery_complete, active_background, active_analysis, startup_claim,
      startup_claim_complete, next_reservation, runtime_resumption, timers>>

\* The reservation branch: the exact next request consumes it.  A caller
\* that had registered drops its registration on return.
ConsumeReservation(c, r) ==
    /\ Looks(c, r)
    /\ ~AcquireRefused(r)
    /\ StillReserved
    /\ reserved_repair' = NoReservation
    /\ GrantAttempt(c, r.manifest, FALSE)
    /\ pending_repair' = WithoutOwner(pending_repair, r.manifest, c)
    /\ request' = [request EXCEPT ![c] = r]
    /\ Move(c, "active", pending_repair' # pending_repair)
    /\ UNCHANGED <<expired_repairs, grantUnchanged>>

\* The lease branch: a retry of the manifest whose durable fence is idle.
RetryDurable(c, r) ==
    /\ Looks(c, r)
    /\ ~AcquireRefused(r)
    /\ ~StillReserved
    /\ Leased
    /\ ExpireReservation
    /\ GrantAttempt(c, r.manifest, TRUE)
    /\ pending_repair' = WithoutOwner(pending_repair, r.manifest, c)
    /\ request' = [request EXCEPT ![c] = r]
    /\ Move(c, "active", Lapsed)
    /\ UNCHANGED grantUnchanged

\* No lease: the caller registers, and takes a provisional lease once no
\* writer and no snapshot is left.
TakeProvisional(c, r) ==
    /\ Looks(c, r)
    /\ ~AcquireRefused(r)
    /\ ~StillReserved
    /\ ~Leased
    /\ active_background = 0 /\ active_analysis = 0
    /\ ExpireReservation
    /\ GrantAttempt(c, r.manifest, FALSE)
    /\ pending_repair' =
          WithoutOwner(WithOwner(pending_repair, r.manifest, c), r.manifest, c)
    /\ request' = [request EXCEPT ![c] = r]
    /\ Move(c, "active", Lapsed)
    /\ UNCHANGED grantUnchanged

RegisterAndWait(c, r) ==
    /\ Looks(c, r)
    /\ ~AcquireRefused(r)
    /\ ~StillReserved
    /\ ~Leased
    /\ active_background # 0 \/ active_analysis # 0
    /\ ExpireReservation
    /\ pending_repair' = WithOwner(pending_repair, r.manifest, c)
    /\ request' = [request EXCEPT ![c] = r]
    /\ Move(c, "parked", Lapsed)
    /\ UNCHANGED <<repair_lease, next_repair_attempt, guard, grantUnchanged>>

\* Drop for PendingRepairRegistration: the deadline passes, the request
\* future is dropped, or an Err return unwinds.
DropRegistration(c) ==
    /\ phase[c] \in {"parked", "woken", "leaving"}
    /\ pending_repair' =
          WithoutOwner(pending_repair, request[c].manifest, c)
    /\ request' = [request EXCEPT ![c] = NoRequest]
    /\ Move(c, "idle", pending_repair' # pending_repair)
    /\ UNCHANGED <<reserved_repair, expired_repairs, repair_lease,
                   next_repair_attempt, guard, grantUnchanged>>

\* acquire_repair_verification, its Ok return.
AcquireVerification(c, m) ==
    /\ phase[c] = "idle"
    /\ runtime_resumption = "none"
    /\ repair_lease.manifest = m
    /\ ~LeaseBusy
    /\ GrantAttempt(c, m, TRUE)
    /\ Move(c, "active", FALSE)
    /\ UNCHANGED <<pending_repair, reserved_repair, expired_repairs, request,
                   grantUnchanged>>

-----------------------------------------------------------------------------
(* RepairFenceGuard: settling an attempt *)

GuardLive(c) == phase[c] \in {"active", "dropping"}

\* The lease test every guard operation makes.
Owns(c) ==
    /\ repair_lease.manifest = guard[c].manifest
    /\ repair_lease.attempt = guard[c].token

\* Mutant: the settled attempt stays in the lease.
StaleAttempt == [repair_lease EXCEPT !.durable = TRUE]

IdleDurable ==
    [manifest |-> repair_lease.manifest, durable |-> TRUE, attempt |-> 0]

\* Mutant: a settled attempt notifies nobody.
SettleSilently(c, notify) ==
    /\ guard' = [guard EXCEPT ![c] = NoGuard]
    /\ request' = [request EXCEPT ![c] = NoRequest]
    /\ Move(c, "idle", FALSE)

\* The guard is consumed and, with notify, every parked task wakes.
Settle(c, notify) ==
    /\ guard' = [guard EXCEPT ![c] = NoGuard]
    /\ request' = [request EXCEPT ![c] = NoRequest]
    /\ Move(c, "idle", notify)

settleUnchanged ==
    <<recovery_complete, active_background, active_analysis, expired_repairs,
      next_repair_attempt, runtime_resumption>>

RetainOnUncertainDrop(c) ==
    /\ phase[c] = "active"
    /\ guard' = [guard EXCEPT ![c].retain = TRUE]
    /\ UNCHANGED <<coordinatorVars, timers, phase, request>>

RetainUntilVerification(c) ==
    /\ phase[c] = "active"
    /\ Owns(c)
    /\ repair_lease' = IdleDurable
    /\ pending_repair' = WithoutManifest(pending_repair, guard[c].manifest)
    /\ Settle(c, TRUE)
    /\ UNCHANGED <<startup_claim, startup_claim_complete, reserved_repair,
                   next_reservation, timers, settleUnchanged>>

ReleaseAfterPrecommitFailure(c) ==
    /\ phase[c] = "active"
    /\ Owns(c)
    /\ IF startup_claim.manifest = guard[c].manifest
         THEN /\ repair_lease' = IdleDurable
              /\ pending_repair' = pending_repair
         ELSE /\ repair_lease' = NoLease
              /\ pending_repair' =
                    WithoutManifest(pending_repair, guard[c].manifest)
    /\ Settle(c, TRUE)
    /\ UNCHANGED <<startup_claim, startup_claim_complete, reserved_repair,
                   next_reservation, timers, settleUnchanged>>

ReleaseAfterVerification(c) ==
    /\ phase[c] = "active"
    /\ Owns(c)
    /\ repair_lease.durable
    /\ repair_lease' = NoLease
    /\ pending_repair' = WithoutManifest(pending_repair, guard[c].manifest)
    /\ startup_claim_complete' =
          (startup_claim_complete \/ startup_claim.manifest = guard[c].manifest)
    /\ Settle(c, TRUE)
    /\ UNCHANGED <<startup_claim, reserved_repair, next_reservation, timers,
                   settleUnchanged>>

\* handoff_after_verification, its Ok return.  Nobody is notified.
HandoffAfterVerification(c, next) ==
    LET generation == Issue(next_reservation) IN
    /\ phase[c] = "active"
    /\ next.manifest # guard[c].manifest
    /\ Owns(c)
    /\ repair_lease.durable
    /\ next \notin expired_repairs
    /\ next_reservation' = generation
    /\ repair_lease' = NoLease
    /\ pending_repair' = WithoutManifest(pending_repair, guard[c].manifest)
    /\ IF startup_claim.manifest = guard[c].manifest
         THEN startup_claim' = next /\ startup_claim_complete' = FALSE
         ELSE UNCHANGED <<startup_claim, startup_claim_complete>>
    /\ reserved_repair' = [predecessor |-> guard[c].manifest,
                           next_apply |-> next,
                           generation |-> generation, due |-> FALSE]
    /\ timers' = timers \cup {generation}
    /\ Settle(c, FALSE)
    /\ UNCHANGED settleUnchanged

\* An Err return of a settling operation: the guard it consumed is dropped
\* after the mutex is released.  A handoff to a tombstoned request has
\* already spent a generation by then.
SettleRefused(c) ==
    /\ phase[c] = "active"
    /\ \/ /\ ~(Owns(c) /\ repair_lease.durable)
          /\ next_reservation' = next_reservation
       \/ \E next \in Requests :
             \/ /\ next.manifest = guard[c].manifest
                /\ next_reservation' = next_reservation
             \/ /\ next.manifest # guard[c].manifest
                /\ Owns(c)
                /\ repair_lease.durable
                /\ next \in expired_repairs
                /\ next_reservation' = Issue(next_reservation)
    /\ Move(c, "dropping", FALSE)
    /\ UNCHANGED <<pending_repair, repair_lease, startup_claim,
                   startup_claim_complete, reserved_repair, timers, request,
                   guard, settleUnchanged>>

\* Mutant: a dropped guard always releases its lease.
DropReleases(c) ==
    /\ GuardLive(c)
    /\ repair_lease' = IF Owns(c) THEN NoLease ELSE repair_lease
    /\ Settle(c, Owns(c))
    /\ UNCHANGED <<pending_repair, startup_claim, startup_claim_complete,
                   reserved_repair, next_reservation, timers, settleUnchanged>>

\* Drop for RepairFenceGuard: an error, a panic or a cancelled handler.
DropGuard(c) ==
    /\ GuardLive(c)
    /\ repair_lease' =
          IF ~Owns(c) THEN repair_lease
          ELSE IF repair_lease.durable \/ guard[c].retain THEN IdleDurable
          ELSE NoLease
    /\ Settle(c, Owns(c))
    /\ UNCHANGED <<pending_repair, startup_claim, startup_claim_complete,
                   reserved_repair, next_reservation, timers, settleUnchanged>>

-----------------------------------------------------------------------------
(* Time, startup and the resumption seal *)

\* The clock passes expires_at.
ReservationFallsDue ==
    /\ Reserved
    /\ ~reserved_repair.due
    /\ reserved_repair' = [reserved_repair EXCEPT !.due = TRUE]
    /\ UNCHANGED <<expired_repairs, active_background, active_analysis, phase,
                   admissionUnchanged>>

\* matches_handoff reads the reservation, dropping it first when it is due.
MatchesHandoff ==
    /\ Lapsed
    /\ ExpireReservation
    /\ phase' = Woken(phase)
    /\ UNCHANGED <<active_background, active_analysis, admissionUnchanged>>

\* Mutant: the timer compares with the generation after its own.
TimerIsLate(generation) ==
    Reserved /\ reserved_repair.generation = generation + 1

\* The reservation is the one this timer was spawned for.
TimerIsCurrent(generation) ==
    Reserved /\ reserved_repair.generation = generation

\* expire_reserved_repair, run by the task that handoff spawned.  Its sleep
\* ends no earlier than the deadline of the reservation it was spawned for.
ExpireReservedRepair(generation) ==
    /\ generation \in timers
    /\ TimerIsCurrent(generation) => reserved_repair.due
    /\ timers' = timers \ {generation}
    /\ IF TimerIsCurrent(generation)
         THEN ExpireReservation /\ phase' = Woken(phase)
         ELSE UNCHANGED <<reserved_repair, expired_repairs, phase>>
    /\ UNCHANGED <<recovery_complete, active_background, active_analysis,
                   pending_repair, repair_lease, startup_claim,
                   startup_claim_complete, next_repair_attempt,
                   next_reservation, runtime_resumption, request, guard>>

\* rearm_approved_repair, its Ok returns.
RearmApprovedRepair(r) ==
    /\ ~recovery_complete
    /\ active_background = 0
    /\ ~Pending
    /\ ~Reserved
    /\ startup_claim \in {NoRequest, r}
    /\ repair_lease.manifest \in {NoManifest, r.manifest}
    /\ repair_lease' =
          IF Leased THEN repair_lease
          ELSE [manifest |-> r.manifest, durable |-> TRUE, attempt |-> 0]
    /\ startup_claim' = r
    /\ startup_claim_complete' = FALSE
    /\ UNCHANGED <<recovery_complete, active_background, active_analysis,
                   pending_repair, reserved_repair, expired_repairs,
                   next_repair_attempt, next_reservation, runtime_resumption,
                   timers, phase, request, guard>>

Quiet ==
    /\ active_background = 0
    /\ active_analysis = 0
    /\ ~Pending
    /\ ~Leased
    /\ ~Reserved

sealUnchanged ==
    <<recovery_complete, active_background, active_analysis, pending_repair,
      repair_lease, startup_claim, startup_claim_complete, reserved_repair,
      expired_repairs, next_repair_attempt, next_reservation, timers, request,
      guard>>

\* Mutant: the seal is granted before the claim is complete.
SealEarly(r) ==
    /\ runtime_resumption = "none"
    /\ recovery_complete
    /\ startup_claim = r
    /\ Quiet
    /\ runtime_resumption' = "active"
    /\ UNCHANGED <<phase, sealUnchanged>>

BeginRuntimeResumption(r) ==
    /\ runtime_resumption = "none"
    /\ recovery_complete
    /\ startup_claim_complete
    /\ startup_claim = r
    /\ Quiet
    /\ runtime_resumption' = "active"
    /\ UNCHANGED <<phase, sealUnchanged>>

\* RuntimeResumptionGuard::commit
CommitResumption ==
    /\ runtime_resumption = "active"
    /\ runtime_resumption' = "committed"
    /\ UNCHANGED <<phase, sealUnchanged>>

\* Mutant: dropping the guard clears a committed seal.
DropCommitted ==
    /\ runtime_resumption # "none"
    /\ runtime_resumption' = "none"
    /\ phase' = Woken(phase)
    /\ UNCHANGED sealUnchanged

\* Drop for RuntimeResumptionGuard, not committed.
DropResumption ==
    /\ runtime_resumption = "active"
    /\ runtime_resumption' = "none"
    /\ phase' = Woken(phase)
    /\ UNCHANGED sealUnchanged

-----------------------------------------------------------------------------
Acquire(c, r) ==
    \/ RefuseRepair(c, r)
    \/ ConsumeReservation(c, r)
    \/ RetryDurable(c, r)
    \/ TakeProvisional(c, r)
    \/ RegisterAndWait(c, r)

SettleAttempt(c) ==
    \/ RetainUntilVerification(c)
    \/ ReleaseAfterPrecommitFailure(c)
    \/ ReleaseAfterVerification(c)
    \/ \E next \in Requests : HandoffAfterVerification(c, next)
    \/ SettleRefused(c)
    \/ DropGuard(c)

Next ==
    \/ FinishRecovery
    \/ \E w \in Writers :
          BeginBackground(w) \/ TryBeginBackground(w) \/ EndBackground(w)
    \/ \E a \in Analysts : BeginAnalysis(a) \/ EndAnalysis(a)
    \/ \E t \in Writers \cup Analysts : CancelAdmission(t)
    \/ \E c \in Callers, r \in Requests : Acquire(c, r)
    \/ \E c \in Callers : DropRegistration(c)
    \/ \E c \in Callers, m \in Manifests : AcquireVerification(c, m)
    \/ \E c \in Callers : RetainOnUncertainDrop(c) \/ SettleAttempt(c)
    \/ ReservationFallsDue
    \/ MatchesHandoff
    \/ \E generation \in Tokens : ExpireReservedRepair(generation)
    \/ \E r \in Requests : RearmApprovedRepair(r)
    \/ \E r \in Requests : BeginRuntimeResumption(r)
    \/ CommitResumption
    \/ DropResumption

Spec == Init /\ [][Next]_vars

-----------------------------------------------------------------------------
(***************************************************************************)
(* Fairness.  tokio polls a woken task again, a writer or a snapshot       *)
(* finishes, a handler settles or drops its guard, unwinding drops a       *)
(* registration, the clock advances and a spawned timer runs.  Nothing is  *)
(* assumed of deadlines and cancellations: a parked request must not need  *)
(* its 30 s timeout to make progress.                                      *)
(***************************************************************************)
Fairness ==
    /\ WF_vars(FinishRecovery)
    /\ \A w \in Writers :
          /\ WF_vars(phase[w] = "woken" /\ BeginBackground(w))
          /\ WF_vars(EndBackground(w))
    /\ \A a \in Analysts :
          /\ WF_vars(phase[a] = "woken" /\ BeginAnalysis(a))
          /\ WF_vars(EndAnalysis(a))
    /\ \A c \in Callers :
          /\ WF_vars(phase[c] = "woken" /\ \E r \in Requests : Acquire(c, r))
          /\ WF_vars(phase[c] = "leaving" /\ DropRegistration(c))
          /\ WF_vars(SettleAttempt(c))
    /\ WF_vars(ReservationFallsDue)
    /\ WF_vars(\E generation \in Tokens : ExpireReservedRepair(generation))
    /\ WF_vars(CommitResumption \/ DropResumption)

FairSpec == Spec /\ Fairness
-----------------------------------------------------------------------------
(* Properties *)

ActiveWriters == {w \in Writers : phase[w] = "active"}
ActiveAnalysts == {a \in Analysts : phase[a] = "active"}
LiveGuards == {c \in Callers : GuardLive(c)}

Phases == {"idle", "parked", "woken", "active", "leaving", "dropping"}

\* Every variable of the coordinator keeps its type; in particular a task is
\* "leaving" or "dropping" only if it is a caller.
TypeOK ==
    /\ recovery_complete \in BOOLEAN
    /\ active_background \in Nat
    /\ active_analysis \in Nat
    /\ pending_repair \in [manifest : Manifests \cup {NoManifest},
                           owners : SUBSET Callers]
    /\ repair_lease \in [manifest : Manifests \cup {NoManifest},
                         durable : BOOLEAN, attempt : 0..TokenLimit]
    /\ startup_claim \in Requests \cup {NoRequest}
    /\ startup_claim_complete \in BOOLEAN
    /\ reserved_repair \in [predecessor : Manifests \cup {NoManifest},
                            next_apply : Requests \cup {NoRequest},
                            generation : 0..TokenLimit, due : BOOLEAN]
    /\ expired_repairs \subseteq Requests
    /\ next_repair_attempt \in 0..TokenLimit
    /\ next_reservation \in 0..TokenLimit
    /\ runtime_resumption \in {"none", "active", "committed"}
    /\ timers \subseteq Tokens
    /\ phase \in [Tasks -> Phases]
    /\ \A t \in Writers \cup Analysts : phase[t] \notin {"leaving", "dropping"}
    /\ request \in [Callers -> Requests \cup {NoRequest}]
    /\ guard \in [Callers -> [manifest : Manifests \cup {NoManifest},
                              token : 0..TokenLimit, retain : BOOLEAN]]

\* Mutual exclusion of the fence: while a background writer runs there is no
\* snapshot, no lease and no reservation, and while an attempt is live there
\* is neither a writer nor a snapshot.
FenceExclusion ==
    /\ ActiveWriters # {} =>
          /\ ActiveAnalysts = {}
          /\ LiveGuards = {}
          /\ ~Leased
          /\ ~Reserved
    /\ ActiveAnalysts # {} => LiveGuards = {}

\* A lease's active attempt and the live RepairFenceGuards are one and the
\* same: a live guard always owns the lease, no two are live at once, and an
\* attempt never outlives its guard (which would fence the daemon for good).
SingleAttempt ==
    /\ \A c \in LiveGuards : Owns(c) /\ guard[c].token # 0
    /\ \A c, d \in LiveGuards : c = d
    /\ repair_lease.attempt # 0 => LiveGuards # {}

\* A pending repair blocks every writer and snapshot, so each of its owners
\* must be a caller that still holds its registration for that manifest; and
\* a pending repair beside a lease or a reservation is for the lease itself.
PendingOwnersLive ==
    /\ Pending => pending_repair.owners # {}
    /\ \A c \in pending_repair.owners :
          /\ phase[c] \in {"parked", "woken", "leaving"}
          /\ request[c].manifest = pending_repair.manifest
    /\ Pending /\ Leased => pending_repair.manifest = repair_lease.manifest
    /\ Pending => ~Reserved

\* No lost wake-up: nothing that a parked task waits for is available.  A
\* writer or a snapshot sleeps only while it would be refused, a repair
\* request only while a writer, a snapshot, a lease or a reservation is there.
NoLostWakeup ==
    /\ \A w \in Writers : phase[w] = "parked" => ~BackgroundOpen \/ Lapsed
    /\ \A a \in Analysts : phase[a] = "parked" => ~AnalysisOpen \/ Lapsed
    /\ \A c \in Callers : phase[c] = "parked" =>
          \/ active_background # 0 \/ active_analysis # 0
          \/ Leased \/ Reserved

\* A daemon armed for one approved request executes no other: every lease,
\* reservation and applying guard belongs to the claim, and none is left
\* once the claim is complete.
ClaimExclusive ==
    startup_claim # NoRequest =>
        /\ Leased => repair_lease.manifest = startup_claim.manifest
        /\ Reserved =>
              reserved_repair.next_apply = startup_claim
        /\ \A c \in LiveGuards : request[c] \in {NoRequest, startup_claim}
        /\ startup_claim_complete => ~Leased /\ ~Reserved

\* While the resumption seal is set nothing is admitted: no writer, snapshot,
\* attempt, lease, pending request or reservation exists.
SealExcludesAll ==
    runtime_resumption # "none" => Quiet /\ LiveGuards = {}

-----------------------------------------------------------------------------
(***************************************************************************)
(* The inductive invariant behind the properties above, as a conjunction   *)
(* of parts: the shape of the optional fields, the two counters against    *)
(* the tasks they count, and what may be present together.                 *)
(***************************************************************************)
Shapes ==
    /\ ~Leased => repair_lease.attempt = 0
    /\ Leased /\ ~repair_lease.durable => repair_lease.attempt # 0
    /\ Pending <=> pending_repair.owners # {}
    /\ Reserved => reserved_repair.next_apply \in Requests

Counters ==
    /\ active_background = Cardinality(ActiveWriters)
    /\ active_analysis = Cardinality(ActiveAnalysts)

Compatible ==
    /\ Leased => active_background = 0 /\ ~Reserved
    /\ repair_lease.attempt # 0 => active_analysis = 0
    /\ active_background # 0 => active_analysis = 0
    /\ Reserved => active_background = 0 /\ active_analysis = 0
    /\ runtime_resumption # "none" => Quiet /\ recovery_complete

\* The strengthening that makes the fence's invariants inductive: counters
\* equal the guards they count and the optional parts exclude each other.
FenceInv ==
    /\ TypeOK
    /\ Shapes
    /\ Counters
    /\ Compatible
    /\ SingleAttempt
    /\ PendingOwnersLive

-----------------------------------------------------------------------------
\* The abstract state of the fence.  A reservation counts from its handoff to
\* its deadline: whoever sweeps it up later changes nothing.
FenceState ==
    CASE runtime_resumption = "active" -> "sealed"
      [] runtime_resumption = "committed" -> "retired"
      [] runtime_resumption = "none" /\ Leased -> "owed"
      [] runtime_resumption = "none" /\ ~Leased /\ StillReserved -> "chained"
      [] OTHER -> "open"

\* The abstract fence this coordinator implements.
Fence == INSTANCE WriteFence WITH
    Readers <- Analysts, Repairers <- Callers,
    writing <- ActiveWriters, reading <- ActiveAnalysts,
    repairing <- LiveGuards, fence <- FenceState

\* Refinement: every critical section of the coordinator is one step of the
\* abstract fence or leaves it alone, so a user of the fence may reason about
\* WriteFence instead of leases, reservations, tombstones and wake-ups.
ImplementsWriteFence == Fence!Spec

\* A reservation ends in one of two ways: its exact request takes the lease,
\* or it expires and that request is tombstoned.
ReservationResolves ==
    [][reserved_repair.next_apply # NoRequest
         /\ reserved_repair'.next_apply # reserved_repair.next_apply =>
         \/ \E c \in Callers :
               /\ request'[c] = reserved_repair.next_apply
               /\ guard'[c].token = repair_lease'.attempt
               /\ repair_lease'.manifest = reserved_repair.next_apply.manifest
         \/ reserved_repair.next_apply \in expired_repairs']_vars

\* A tombstone is final: an expired request never gets an attempt again.
TombstoneFinal ==
    [][/\ expired_repairs \subseteq expired_repairs'
       /\ \A c \in Callers :
             ~GuardLive(c) /\ GuardLive(c)' => request'[c] \notin expired_repairs']_vars

\* The fence fails closed: a lease never moves to another manifest or loses
\* its durability, it ends only with the guard that owns it, and a durable or
\* retained lease not when a refused settling call unwinds.
FenceFailsClosed ==
    [][/\ Leased /\ Leased' =>
             /\ repair_lease'.manifest = repair_lease.manifest
             /\ repair_lease.durable => repair_lease'.durable
       /\ Leased /\ ~Leased' =>
             \E c \in Callers :
                /\ GuardLive(c) /\ Owns(c) /\ phase'[c] = "idle"
                /\ repair_lease.durable \/ guard[c].retain => phase[c] = "active"]_vars

\* The committed seal is permanent for the process, and so is the claim: it
\* is only ever handed to the next request of the chain.
SealAndClaimPermanent ==
    [][/\ runtime_resumption = "committed" => runtime_resumption' = "committed"
       /\ startup_claim # NoRequest /\ startup_claim' # startup_claim =>
             startup_claim' = reserved_repair'.next_apply]_vars

\* A request parked on the fence is always looked at again, without help from
\* its deadline, although handoff_after_verification notifies nobody.
RepairWaitersWake ==
    \A c \in Callers : phase[c] = "parked" ~> phase[c] # "parked"

\* A reservation is consumed or expires: a chain that is never continued
\* does not keep the background writers out.
ReservationEnds ==
    Reserved ~> ~Reserved

\* Once the fence stays open, no writer and no snapshot is left waiting.
OpenFenceAdmits ==
    /\ \A w \in Writers :
          <>[]BackgroundOpen => []<>(phase[w] \notin {"parked", "woken"})
    /\ \A a \in Analysts :
          <>[]AnalysisOpen => []<>(phase[a] \notin {"parked", "woken"})
=============================================================================
