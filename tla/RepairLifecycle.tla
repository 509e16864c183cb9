---------------------------- MODULE RepairLifecycle ----------------------------
(***************************************************************************)
(* An approved repair from apply to verification, over the process-local   *)
(* write fence (MaintenanceCoordinator) and the durable state that a crash *)
(* leaves behind: the artifact files of each manifest, the canonical rows  *)
(* it repairs and the review item it came from.                            *)
(*                                                                         *)
(* Sources: wenlan-server repair_routes.rs (the handlers), main.rs and     *)
(* main/startup.rs (restart), repair_operation_routes.rs,                  *)
(* repair_runtime_routes.rs and refinery_routes.rs; wenlan-core repair.rs  *)
(* and db/repair_verification.rs.  A handler step ends where the code      *)
(* awaits, or where a crash would be noticed on disk.                      *)
(***************************************************************************)
EXTENDS MaintenanceCoordinator

CONSTANT ReviewBound    \* manifests prepared from a lint review item

ASSUME LifecycleAssumption == ReviewBound \subseteq Manifests

VARIABLES
    server,     \* "down", "armed" (fence restored, recovery sealed) or "up"
    pc,         \* the next step of each caller's handler
    disk,       \* the artifact files in each manifest's directory
    target,     \* committed canonical state of each manifest's target
    review,     \* committed status of each manifest's review item
    open_tx     \* the manifest whose handler left its transaction open

fenceVars == vars
durableVars == <<disk, target, review, open_tx>>
lifecycleVars == <<fenceVars, server, pc, durableVars>>

(***************************************************************************)
(* Artifacts.  pending is apply-receipt.json.pending: "blank" when created *)
(* and "prepared" once the receipt is written to it.                       *)
(***************************************************************************)
PreparedManifest == [pending |-> "none", applied |-> FALSE, verified |-> FALSE,
                     marker |-> FALSE, cancelled |-> FALSE]

\* completed_verification_receipt: for a review-bound manifest the receipt
\* counts only with the marker published after COMMIT.
Completed(m) ==
    disk[m].applied /\ disk[m].verified /\ (m \in ReviewBound => disk[m].marker)

\* pending_verification_manifest_ids
Unverified ==
    {m \in Manifests : /\ disk[m].applied \/ disk[m].pending # "none"
                       /\ ~Completed(m)}

\* The target as read through the daemon's one connection, which sees the
\* uncommitted write of a transaction left open on it.
Current(m) == IF open_tx = m THEN "repaired" ELSE target[m]

\* The manifest caller c works on, for apply and verify alike.
Manifest(c) == guard[c].manifest

ApplySteps == {"lock", "recover", "begin", "write", "commit", "publish"}
VerifySteps == {"verify", "finalize", "marker"}

\* Mutant: nobody takes the operation lock.
NeverLocked(m) == FALSE

\* lock_manifest_operation: held by an apply past "lock" or a running verify.
OperationLocked(m) ==
    \E c \in Callers :
        pc[c] \in (ApplySteps \ {"lock"}) \cup VerifySteps /\ Manifest(c) = m

\* A handler between BEGIN IMMEDIATE and COMMIT owns the one connection.
TransactionSteps == {"commit", "finalize"}
InTransaction == \E c \in Callers : pc[c] \in TransactionSteps

Goto(c, step) == pc' = [pc EXCEPT ![c] = step]

LifecycleInit ==
    /\ Init
    /\ server = "down"
    /\ pc = [c \in Callers |-> "idle"]
    /\ disk = [m \in Manifests |-> PreparedManifest]
    /\ target = [m \in Manifests |-> "expected"]
    /\ review = [m \in Manifests |-> "awaiting_review"]
    /\ open_tx = NoManifest

-----------------------------------------------------------------------------
(* Start and stop *)

\* Mutant: startup trusts the claim and forgets the unverified manifests.
ClaimOnlyFence(claim) == {r.manifest : r \in claim}

\* select_startup_repair_fence: every unverified manifest and the claim must
\* be one and the same manifest, or startup fails.
StartupFence(claim) == Unverified \cup {r.manifest : r \in claim}

\* prepare_startup_state: claim is the launch argument, a set of at most one
\* request; without it the authority is the stored manifest's own request.
PrepareStartup(claim) ==
    /\ server = "down"
    /\ server' = "armed"
    /\ \/ /\ StartupFence(claim) = {}
          /\ UNCHANGED fenceVars
       \/ \E r \in Requests :
             /\ StartupFence(claim) = {r.manifest}
             /\ claim \in {{}, {r}}
             /\ RearmApprovedRepair(r)
    /\ UNCHANGED <<pc, durableVars>>

Serve ==
    /\ server = "armed"
    /\ FinishRecovery
    /\ server' = "up"
    /\ UNCHANGED <<pc, durableVars>>

\* A new process builds its coordinator as Init says.
FreshCoordinator ==
    /\ recovery_complete' = FALSE
    /\ active_background' = 0
    /\ active_analysis' = 0
    /\ pending_repair' = NoPending
    /\ repair_lease' = NoLease
    /\ startup_claim' = NoRequest
    /\ startup_claim_complete' = FALSE
    /\ reserved_repair' = NoReservation
    /\ expired_repairs' = {}
    /\ next_repair_attempt' = 0
    /\ next_reservation' = 0
    /\ runtime_resumption' = "none"
    /\ timers' = {}
    /\ phase' = [t \in Tasks |-> "idle"]
    /\ request' = [c \in Callers |-> NoRequest]
    /\ guard' = [c \in Callers |-> NoGuard]

\* The process dies: the coordinator and every handler are gone, an open
\* transaction is rolled back, files and committed rows stay.
Crash ==
    /\ server # "down"
    /\ server' = "down"
    /\ FreshCoordinator
    /\ pc' = [c \in Callers |-> "idle"]
    /\ open_tx' = NoManifest
    /\ UNCHANGED <<disk, target, review>>

-----------------------------------------------------------------------------
(* handle_apply *)

\* acquire_approved_repair, one round of its loop or its deadline.
RequestApply(c, r) ==
    /\ server = "up"
    /\ pc[c] = "idle"
    /\ Acquire(c, r)
    /\ Goto(c, IF phase'[c] = "active" THEN "acquired" ELSE "idle")
    /\ UNCHANGED <<server, durableVars>>

GiveUp(c) ==
    /\ DropRegistration(c)
    /\ UNCHANGED <<server, pc, durableVars>>

\* Mutant: the handler never marks its guard.
ForgetToMark(c) ==
    /\ pc[c] = "acquired"
    /\ Goto(c, "lock")
    /\ UNCHANGED <<fenceVars, server, durableVars>>

\* retain_on_uncertain_drop follows the acquisition without an await.
MarkUncertain(c) ==
    /\ pc[c] = "acquired"
    /\ RetainOnUncertainDrop(c)
    /\ Goto(c, "lock")
    /\ UNCHANGED <<server, durableVars>>

\* The operation lock is free and no cancellation marker is there.
LockApply(c) ==
    /\ pc[c] = "lock"
    /\ ~OperationLocked(Manifest(c))
    /\ ~disk[Manifest(c)].cancelled
    /\ Goto(c, "recover")
    /\ UNCHANGED <<fenceVars, server, durableVars>>

\* An Err before the pending receipt exists: the lock is taken, the repair
\* was cancelled, or a read or write of the store fails.
ApplyError(c) ==
    /\ pc[c] \in {"lock", "recover", "begin"}
    /\ Goto(c, "failed")
    /\ UNCHANGED <<fenceVars, server, durableVars>>

\* publish_no_replace links the final receipt, then removes the pending one:
\* it succeeds, or fails before the link, or between the two.
PublishApplyReceipt(c) ==
    LET m == Manifest(c) IN
    /\ \/ /\ disk' = [disk EXCEPT ![m].applied = TRUE, ![m].pending = "none"]
          /\ Goto(c, "applied")
       \/ /\ disk' = [disk EXCEPT ![m].applied = TRUE]
          /\ Goto(c, "failed")
       \/ /\ disk' = disk
          /\ Goto(c, "failed")
    /\ UNCHANGED <<fenceVars, server, target, review, open_tx>>

\* recover_apply_receipt: a final receipt is returned as it is.
ReturnExistingReceipt(c) ==
    /\ pc[c] = "recover"
    /\ disk[Manifest(c)].applied
    /\ disk' = [disk EXCEPT ![Manifest(c)].pending = "none"]
    /\ Goto(c, "applied")
    /\ UNCHANGED <<fenceVars, server, target, review, open_tx>>

\* A prepared receipt whose effect is visible belongs to a committed write.
RecoverCommitted(c) ==
    LET m == Manifest(c) IN
    /\ pc[c] = "recover"
    /\ ~disk[m].applied
    /\ disk[m].pending = "prepared"
    /\ Current(m) = "repaired"
    /\ PublishApplyReceipt(c)

\* The target is still as approved: what an aborted attempt left is removed.
DiscardPending(c) ==
    LET m == Manifest(c) IN
    /\ pc[c] = "recover"
    /\ ~disk[m].applied
    /\ disk[m].pending # "none" => Current(m) = "expected"
    /\ disk' = [disk EXCEPT ![m].pending = "none"]
    /\ Goto(c, "begin")
    /\ UNCHANGED <<fenceVars, server, target, review, open_tx>>

BeginApplyReceipt(c) ==
    /\ pc[c] = "begin"
    /\ ~disk[Manifest(c)].applied
    /\ disk[Manifest(c)].pending = "none"
    /\ disk' = [disk EXCEPT ![Manifest(c)].pending = "blank"]
    /\ Goto(c, "write")
    /\ UNCHANGED <<fenceVars, server, target, review, open_tx>>

\* Mutant: the receipt is not on disk before COMMIT.
WriteUnprepared(c) ==
    LET m == Manifest(c) IN
    /\ pc[c] = "write"
    /\ open_tx = NoManifest
    /\ target[m] = "expected"
    /\ m \in ReviewBound => review[m] = "awaiting_review"
    /\ Goto(c, "commit")
    /\ UNCHANGED <<fenceVars, server, disk, target, review, open_tx>>

\* Mutant: the approved state of the target is not compared again.
WriteBlindly(c) ==
    LET m == Manifest(c) IN
    /\ pc[c] = "write"
    /\ open_tx = NoManifest
    /\ m \in ReviewBound => review[m] = "awaiting_review"
    /\ disk' = [disk EXCEPT ![m].pending = "prepared"]
    /\ Goto(c, "commit")
    /\ UNCHANGED <<fenceVars, server, target, review, open_tx>>

\* BEGIN IMMEDIATE succeeds, the target is as approved and the review item
\* still open; the receipt reaches the disk before COMMIT.
WriteTarget(c) ==
    LET m == Manifest(c) IN
    /\ pc[c] = "write"
    /\ open_tx = NoManifest
    /\ target[m] = "expected"
    /\ m \in ReviewBound => review[m] = "awaiting_review"
    /\ disk' = [disk EXCEPT ![m].pending = "prepared"]
    /\ Goto(c, "commit")
    /\ UNCHANGED <<fenceVars, server, target, review, open_tx>>

\* The write or its COMMIT fails and is rolled back; PendingApplyReceipt::abort.
AbortWrite(c) ==
    /\ pc[c] \in {"write", "commit"}
    /\ disk' = [disk EXCEPT ![Manifest(c)].pending = "none"]
    /\ Goto(c, "failed")
    /\ UNCHANGED <<fenceVars, server, target, review, open_tx>>

\* COMMIT and then ROLLBACK fail (rollback_repair_transaction): the outcome
\* is uncertain and the pending receipt kept.  The transaction may have ended
\* already, or still be open on the connection.
RollbackFails(c) ==
    /\ pc[c] = "commit"
    /\ open_tx' \in {NoManifest, Manifest(c)}
    /\ Goto(c, "failed")
    /\ UNCHANGED <<fenceVars, server, disk, target, review>>

CommitWrite(c) ==
    /\ pc[c] = "commit"
    /\ target' = [target EXCEPT ![Manifest(c)] = "repaired"]
    /\ Goto(c, "publish")
    /\ UNCHANGED <<fenceVars, server, disk, review, open_tx>>

PublishCommitted(c) ==
    /\ pc[c] = "publish"
    /\ PublishApplyReceipt(c)

\* The Ok branch of handle_apply.
SettleApplied(c) ==
    /\ pc[c] = "applied"
    /\ IF Completed(Manifest(c)) THEN ReleaseAfterPrecommitFailure(c)
                                 ELSE RetainUntilVerification(c)
    /\ Goto(c, "idle")
    /\ UNCHANGED <<server, durableVars>>

\* The Err branch: the durable state decides, and an unreadable store
\* (unreadable) keeps the fence.
SettleFailedApply(c, unreadable) ==
    /\ pc[c] = "failed"
    /\ IF unreadable \/ Manifest(c) \in Unverified
         THEN RetainUntilVerification(c)
         ELSE ReleaseAfterPrecommitFailure(c)
    /\ Goto(c, "idle")
    /\ UNCHANGED <<server, durableVars>>

-----------------------------------------------------------------------------
(* handle_verify *)

RequestVerify(c, m) ==
    /\ server = "up"
    /\ pc[c] = "idle"
    /\ AcquireVerification(c, m)
    /\ Goto(c, "verify")
    /\ UNCHANGED <<server, durableVars>>

\* record_repair_verification_atomic up to persist_verification_receipt: the
\* reports fit and the target is what the apply receipt says.
PersistVerification(c) ==
    LET m == Manifest(c) IN
    /\ pc[c] = "verify"
    /\ disk[m].applied
    /\ ~disk[m].verified
    /\ open_tx = NoManifest
    /\ target[m] = "repaired"
    /\ disk' = [disk EXCEPT ![m].verified = TRUE]
    /\ Goto(c, "finalize")
    /\ UNCHANGED <<fenceVars, server, target, review, open_tx>>

\* finalize_lint_repair_review_on_connection: compare-and-set of the row,
\* durable unless it joins a transaction left open (is_autocommit is false).
Finalized(m) ==
    IF m \in ReviewBound /\ open_tx = NoManifest
      THEN [review EXCEPT ![m] = "resolved"] ELSE review

\* Mutant: completion is not idempotent on a resolved row.
ReviewAcceptsOnce(m) ==
    m \in ReviewBound => review[m] = "awaiting_review"

ReviewAcceptsCompletion(m) ==
    m \in ReviewBound => review[m] \in {"awaiting_review", "resolved"}

\* The queue row is resolved and COMMIT succeeds.
CommitVerification(c) ==
    /\ pc[c] = "finalize"
    /\ ReviewAcceptsCompletion(Manifest(c))
    /\ review' = Finalized(Manifest(c))
    /\ Goto(c, "marker")
    /\ UNCHANGED <<fenceVars, server, disk, target, open_tx>>

\* A receipt is already there: reconcile_repair_review_completion.
ReconcileReview(c) ==
    LET m == Manifest(c) IN
    /\ pc[c] = "verify"
    /\ disk[m].applied
    /\ disk[m].verified
    /\ ReviewAcceptsCompletion(m)
    /\ review' = Finalized(m)
    /\ Goto(c, "marker")
    /\ UNCHANGED <<fenceVars, server, disk, target, open_tx>>

\* publish_review_completion_marker, then clear_pending_apply_receipt.
PublishMarker(c) ==
    LET m == Manifest(c)
        marked == [disk EXCEPT ![m].marker = m \in ReviewBound]
    IN
    /\ pc[c] = "marker"
    /\ \/ disk' = [marked EXCEPT ![m].pending = "none"] /\ Goto(c, "verified")
       \/ disk' = marked /\ Goto(c, "unverified")
    /\ UNCHANGED <<fenceVars, server, target, review, open_tx>>

\* Any other error of record_repair_verification: the reports do not fit,
\* the target changed, a conflicting review item, COMMIT or the store fails.
\* A ROLLBACK that fails too is logged at most (commit_or_rollback), and the
\* transaction stays open on the connection.
VerifyError(c) ==
    /\ pc[c] \in VerifySteps
    /\ open_tx' \in {open_tx} \cup (IF pc[c] = "finalize" THEN {Manifest(c)} ELSE {})
    /\ Goto(c, "unverified")
    /\ UNCHANGED <<fenceVars, server, disk, target, review>>

SettleVerified(c) ==
    /\ pc[c] = "verified"
    /\ \/ ReleaseAfterVerification(c) /\ Goto(c, "idle")
       \/ /\ \E next \in Requests : HandoffAfterVerification(c, next)
          /\ Goto(c, "idle")
       \/ SettleRefused(c) /\ Goto(c, "unverified")
    /\ UNCHANGED <<server, durableVars>>

\* The guard is dropped: an error of verify, a cancelled request future or a
\* panic at any step, an unreadable store after a successful apply.  Nothing
\* ends the transaction of a handler that goes between BEGIN and COMMIT.
AbandonAttempt(c) ==
    /\ pc[c] \in ApplySteps \cup VerifySteps
                  \cup {"applied", "failed", "verified", "unverified"}
    /\ DropGuard(c)
    /\ open_tx' = IF pc[c] \in TransactionSteps THEN Manifest(c) ELSE open_tx
    /\ Goto(c, "idle")
    /\ UNCHANGED <<server, disk, target, review>>

-----------------------------------------------------------------------------
(* Everybody else *)

\* cancel_prepared_repair: only a manifest without any apply artifact, and
\* never while an apply or a verification holds its operation lock.
HandleCancel(m) ==
    /\ server = "up"
    /\ ~OperationLocked(m)
    /\ disk[m] = PreparedManifest
    /\ disk' = [disk EXCEPT ![m].cancelled = TRUE]
    /\ UNCHANGED <<fenceVars, server, pc, target, review, open_tx>>

\* Mutant: the rejection does not take the background fence.
DismissUnfenced(w, m) ==
    /\ server = "up"
    /\ m \in ReviewBound
    /\ review[m] = "awaiting_review"
    /\ review' = [review EXCEPT ![m] = "dismissed"]
    /\ UNCHANGED <<fenceVars, server, pc, disk, target, open_tx>>

\* handle_reject_refinement dismisses the review item as a background writer.
DismissReview(w, m) ==
    /\ phase[w] = "active"
    /\ m \in ReviewBound
    /\ review[m] = "awaiting_review"
    /\ review' = [review EXCEPT ![m] = "dismissed"]
    /\ UNCHANGED <<fenceVars, server, pc, disk, target, open_tx>>

\* An unfenced edit of the target through the foreground API.
EditTarget(m) ==
    /\ server = "up"
    /\ open_tx = NoManifest
    /\ ~InTransaction
    /\ target' = [target EXCEPT ![m] = "edited"]
    /\ UNCHANGED <<fenceVars, server, pc, disk, review, open_tx>>

Background ==
    /\ server = "up"
    /\ \/ \E w \in Writers :
             BeginBackground(w) \/ TryBeginBackground(w) \/ EndBackground(w)
       \/ \E a \in Analysts : BeginAnalysis(a) \/ EndAnalysis(a)
       \/ \E t \in Writers \cup Analysts : CancelAdmission(t)
       \/ ReservationFallsDue
       \/ MatchesHandoff
       \/ \E generation \in Tokens : ExpireReservedRepair(generation)
    /\ UNCHANGED <<server, pc, durableVars>>

\* handle_resume: the seal is taken first, then the artifacts are read.  The
\* committed seal asks for a shutdown, so the process stops for good (Crash).
ResumeSealed(r) ==
    /\ server = "up"
    /\ BeginRuntimeResumption(r)
    /\ UNCHANGED <<server, pc, durableVars>>

ResumptionProven == Completed(startup_claim.manifest) /\ Unverified = {}

ResumeDecides ==
    /\ runtime_resumption = "active"
    /\ \/ ResumptionProven /\ CommitResumption
       \/ DropResumption
    /\ UNCHANGED <<server, pc, durableVars>>

-----------------------------------------------------------------------------
ApplyStep(c) ==
    \/ MarkUncertain(c) \/ LockApply(c) \/ ApplyError(c)
    \/ ReturnExistingReceipt(c) \/ RecoverCommitted(c) \/ DiscardPending(c)
    \/ BeginApplyReceipt(c) \/ WriteTarget(c) \/ AbortWrite(c)
    \/ RollbackFails(c) \/ CommitWrite(c) \/ PublishCommitted(c)
    \/ SettleApplied(c)
    \/ \E unreadable \in BOOLEAN : SettleFailedApply(c, unreadable)

VerifyStep(c) ==
    \/ PersistVerification(c) \/ CommitVerification(c) \/ ReconcileReview(c)
    \/ PublishMarker(c) \/ VerifyError(c) \/ SettleVerified(c)

LifecycleNext ==
    \/ \E claim \in {{}} \cup {{r} : r \in Requests} : PrepareStartup(claim)
    \/ Serve
    \/ Crash
    \/ \E c \in Callers, r \in Requests : RequestApply(c, r)
    \/ \E c \in Callers, m \in Manifests : RequestVerify(c, m)
    \/ \E c \in Callers :
          GiveUp(c) \/ ApplyStep(c) \/ VerifyStep(c) \/ AbandonAttempt(c)
    \/ \E m \in Manifests : HandleCancel(m) \/ EditTarget(m)
    \/ \E w \in Writers, m \in Manifests : DismissReview(w, m)
    \/ Background
    \/ \E r \in Requests : ResumeSealed(r)
    \/ ResumeDecides

LifecycleSpec == LifecycleInit /\ [][LifecycleNext]_lifecycleVars

(***************************************************************************)
(* Fairness.  A handler always runs on, and the client keeps retrying both *)
(* requests.  Nothing is assumed of faults here: see FaultsStop.           *)
(***************************************************************************)
HandlersRun ==
    \A c \in Callers :
        WF_lifecycleVars(ApplyStep(c) \/ VerifyStep(c) \/ AbandonAttempt(c))

ClientRetries ==
    /\ SF_lifecycleVars(\E c \in Callers, r \in Requests : RequestApply(c, r))
    /\ SF_lifecycleVars(\E c \in Callers, m \in Manifests : RequestVerify(c, m))

LifecycleFairSpec == LifecycleSpec /\ HandlersRun /\ ClientRetries

\* The steps of a handler in which nothing fails.
Succeeds(c) ==
    \/ MarkUncertain(c) \/ LockApply(c)
    \/ ReturnExistingReceipt(c) \/ DiscardPending(c)
    \/ RecoverCommitted(c) /\ pc'[c] = "applied"
    \/ BeginApplyReceipt(c) \/ WriteTarget(c) \/ CommitWrite(c)
    \/ PublishCommitted(c) /\ pc'[c] = "applied"
    \/ SettleApplied(c) \/ SettleFailedApply(c, FALSE)
    \/ PersistVerification(c) \/ CommitVerification(c) \/ ReconcileReview(c)
    \/ PublishMarker(c) /\ pc'[c] = "verified"
    \/ SettleVerified(c)

\* From some time on no step fails that could have succeeded.
FaultsStop ==
    <>[][\A c \in Callers :
           pc'[c] # pc[c] /\ ENABLED Succeeds(c) => Succeeds(c)]_lifecycleVars

-----------------------------------------------------------------------------
(* Properties *)

\* The durable state keeps its type and each caller a known step.
LifecycleTypeOK ==
    /\ TypeOK
    /\ server \in {"down", "armed", "up"}
    /\ pc \in [Callers -> ApplySteps \cup VerifySteps
                 \cup {"idle", "acquired", "applied", "failed", "verified",
                       "unverified"}]
    /\ disk \in [Manifests ->
                   [pending : {"none", "blank", "prepared"}, applied : BOOLEAN,
                    verified : BOOLEAN, marker : BOOLEAN, cancelled : BOOLEAN]]
    /\ target \in [Manifests -> {"expected", "repaired", "edited"}]
    /\ review \in [Manifests -> {"awaiting_review", "resolved", "dismissed"}]
    /\ open_tx \in Manifests \cup {NoManifest}

\* The reason for the fence: while the store holds an apply that is not
\* verified, a serving daemon holds the lease of exactly that manifest and no
\* background writer runs, whatever failed, was cancelled or crashed before.
UnverifiedIsFenced ==
    \A m \in Unverified :
        /\ server = "up" => repair_lease.manifest = m
        /\ ActiveWriters = {}

\* A committed repair is never silent: as long as the target holds it, the
\* store has the receipt, final or prepared, that recovery looks for.
CommittedHasArtifact ==
    \A m \in Manifests :
        target[m] = "repaired" => disk[m].applied \/ disk[m].pending = "prepared"

\* Startup never meets two pending repairs, which it would refuse to serve.
AtMostOneUnverified ==
    \A m, n \in Unverified : m = n

\* A review item ends as its repair did: it is resolved only with the final
\* apply and verification receipts on disk, and it is not dismissed under a
\* repair that waits for its verification.
ReviewFollowsRepair ==
    \A m \in ReviewBound :
        /\ review[m] = "resolved" => disk[m].applied /\ disk[m].verified
        /\ m \in Unverified /\ disk[m].applied => review[m] # "dismissed"

\* A cancelled repair was never applied and leaves nothing to recover.
CancelledNeverApplied ==
    \A m \in Manifests :
        disk[m].cancelled => disk[m].pending = "none" /\ ~disk[m].applied
                              /\ target[m] # "repaired"

\* The resumption seal is granted only to a daemon whose artifacts already
\* prove the end of its claim, with no other repair left unverified; the
\* checks handle_resume makes under the seal find nothing more.
SealFindsAllVerified ==
    runtime_resumption # "none" => ResumptionProven

\* repair_routes.rs: "Core commits the canonical mutation before publishing
\* the apply receipt."  A final receipt is never there while the database
\* still holds the state before the repair.
ReceiptAfterCommit ==
    \A m \in Manifests : disk[m].applied => target[m] # "expected"

\* repair.rs: the marker "proves a review-bound verification receipt's queue
\* CAS committed".  It is never there while the row is not resolved.
MarkerAfterCommit ==
    \A m \in ReviewBound : disk[m].marker => review[m] = "resolved"

\* A repair writes only the state it was approved for, and once: an edit made
\* after approval is never overwritten, across awaits, retries and restarts,
\* and nothing is written for a receipt that exists or was cancelled.
WritesApprovedStateOnce ==
    [][\A m \in Manifests :
         target'[m] = "repaired" /\ target[m] # "repaired" =>
            /\ target[m] = "expected"
            /\ ~disk[m].applied
            /\ ~disk[m].cancelled]_lifecycleVars

\* No wedge: whatever crashes, errors and cancelled handlers left on disk, a
\* daemon that then stays up and whose steps succeed brings the repair to its
\* end, unless the target was edited or a transaction was ever left open.
UnverifiedConcludes ==
    \A m \in Manifests :
        /\ FaultsStop
        /\ [](open_tx = NoManifest)
        /\ <>[](server = "up" /\ target[m] # "edited")
        => [](m \in Unverified => <>(m \notin Unverified))
=============================================================================
