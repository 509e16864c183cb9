# Wenlan: a TLA+ model of the write paths of a memory daemon

Wenlan is a personal memory daemon: an HTTP server over one SQLite connection,
with background workers that enrich, group and rewrite what is stored, a
desktop application that owns the daemon, and a relay for remote clients. This
directory models the parts where a mistake silently damages or loses the user's
data: approved *repairs* of canonical rows and the *write fence* that keeps the
background workers away from them, the *ingest* queue every new memory passes,
the *outbox* that replays writes made while the daemon was down, and the
*genesis* pipeline that decides which evidence belongs to which future page.

## Inventory

| Component | State | Operations | Interacts with | Hard because |
| --- | --- | --- | --- | --- |
| Maintenance coordinator, `wenlan-server/src/maintenance_coordinator.rs` | `CoordinatorState` under one mutex, a `Notify`, one timer task per reservation | admission of writers and snapshots, acquisition, retain / release / handoff, guards' `Drop`, startup rearm, resumption seal | every background worker, lint snapshots, repair routes, startup | concurrent callers, wake-ups, timers that race, cancelled futures, counters that wrap |
| Repair lifecycle, `repair_routes.rs`, `wenlan-core/src/repair.rs`, `repair/operation.rs`, `db/repair_memory_cas.rs`, `db/repair_verification.rs`, `repair/review_completion.rs` | artifact files per manifest, canonical rows, review items | apply, verify, cancel, recover | the fence, the one database connection, the file system | crashes between two durable steps, retries, failing COMMIT and ROLLBACK |
| Startup and resumption, `main.rs`, `main/startup.rs`, `repair_runtime_routes.rs` | the startup claim | restore the fence, open recovery, seal and shut down | the fence, the artifact store | ordering against requests in flight |
| Repair preparation and special writers, `repair/prepare_operation.rs`, `repair/relation.rs`, `db/repair_page_rename.rs`, `db/repair_stale_projection.rs`, ... | staged manifests, rollback payloads, page files, a quarantine journal | prepare, rename, quarantine, regenerate | database and page files together | two stores, no common transaction |
| Ingest batcher, `ingest_batcher.rs` | bounded queue, one worker | submit, batch, flush | HTTP handlers, memory store | back pressure, worker death, batch-wide failure |
| Outbox, `outbox.rs` | envelope files, `failed/` | drain, replay | the daemon's own routes | at-least-once delivery |
| Genesis pipeline, `wenlan-core/src/m6/` | leases, candidates, claims, frontier | prepare, finalize, reap, recover | scheduler, memory store | expired leases, takeover, crash recovery |
| Page drafts and projection, `db/page_drafts.rs`, `post_write/page_update.rs`, `export/knowledge.rs` | drafts, page versions, Markdown files | save, publish, rename, write out | page watcher | optimistic versions; files and rows |
| Refinement queue and enrichment, `refinery_routes.rs`, `synthesis/refinement_queue.rs` | proposals and review items | accept, reject, resolve | the fence, repairs | dismissal racing a repair |
| Scheduler, `scheduler.rs` | triggers | start workers | the fence | timing heuristics |
| Relay and desktop client, `relay/src`, `app/src/remote_relay` | devices, grants, sessions, sockets | pair, connect, renew, revoke | network | duplicated and late messages |
| Desktop daemon lifecycle, `app/src/daemon_start.rs`, `handover.rs`, `presence.rs` | process ownership | start, hand over, stop | the daemon | two owners |
| Memory store, search, CLI, MCP server, user interface | rows, indexes | queries, rendering | everything | mostly data |

What makes each correct: the coordinator must exclude writers from repairs,
never strand a waiter and never lose a fence that still protects something; the
lifecycle must survive a crash at any point, write each approved change at most
once and leave exactly one unverified repair; ingest and outbox must answer or
keep every request; leases must fence stale workers; drafts must not overwrite
what they did not read; the relay must not serve a revoked device.

## Modules

| Module | Models | Uses |
| --- | --- | --- |
| `WriteFence` | what the maintenance coordinator promises | - |
| `MaintenanceCoordinator` | `maintenance_coordinator.rs`, completely | implements `WriteFence` |
| `RepairLifecycle` | apply, verify, cancel, startup, resumption | extends `MaintenanceCoordinator` |
| `IngestBatcher` | store handler, channel, coalescer, processor | composed with `WriteFence` |
| `Outbox` | CLI enqueue, drain, and the two routes it replays to | - |
| `GenesisShadow` | the shadow turn of `m6/` and its tables | - |
| `MaintenanceCoordinatorProofs` | theorems about the coordinator's invariants | extends it |
| `WriteFenceRefinement` | the theorem that the coordinator implements `WriteFence` | extends the proofs |
| `MaintenanceCoordinatorClaims` | theorems about claims, wake-ups and what the coordinator's steps may never do | extends the proofs |
| `RepairLifecycleProofs` | theorems about the lifecycle, over those of the coordinator | extends both |
| `IngestBatcherProofs`, `OutboxProofs`, `GenesisShadowProofs` | theorems about the component of that name | extend it |

The `MC...` modules give the instances their symmetry sets and constant
functions. Operators commented "Mutant" are faulty variants kept to show that
the properties notice the fault; nothing else uses them.

* `MaintenanceCoordinator`. A critical section of its mutex is one action; the
  variables are the fields of `CoordinatorState` plus the timers, the phase of
  every task (`idle`, `parked` on `Notify`, `woken`, `active`, and for callers
  `leaving` / `dropping` while an `Err` return unwinds), each caller's request
  and the `RepairFenceGuard` it owns. `Acquire` is one round of the loop of
  `acquire_repair_inner`, one disjunct per return. `expire_reservation`, which
  most operations run first, is `ExpireReservation`; whether a deadline has
  passed is the flag `due`.
* `WriteFence` has four variables: who writes, who reads, who repairs, and
  whether the fence is open, owed a verification, chained to the next repair,
  sealed or retired. `MaintenanceCoordinator!Fence` is the refinement mapping.
  A reservation is "chained" up to its deadline and no longer: who sweeps it up
  afterwards (a timer, the next caller, `matches_handoff`) is invisible, which
  is why the lazy expiry in every operation does not matter to a user.
* `RepairLifecycle` adds the process (`server`), the steps of the apply and
  verify handlers (`pc`), and what survives a crash: the artifact files
  (`disk`), the committed rows (`target`), the review items (`review`), and a
  transaction that nobody ended on the shared connection (`open_tx`). A handler
  step ends where the code awaits or where a crash would leave a different disk
  behind. Errors are separate actions (`ApplyError`, `AbortWrite`,
  `RollbackFails`, `VerifyError`, `AbandonAttempt`) and `Crash` is possible in
  every state.
* `IngestBatcher`. `caller` is where each store handler stands: it writes its
  enrichment origin, sends on the bounded channel, waits on its oneshot, and
  removes the origin again when the answer is a failure. `worker` is the single
  coalescer: it receives, fills a batch, passes the fence (`begin_background`),
  gates, stores the survivors in one transaction, drops its fence guard and
  answers in order. `Disconnect` drops a handler at any await, `Panic` ends the
  worker for good, `DeleteSpace` removes a destination under a queued request.
  The fence is the abstract one, with snapshots and repairs beside the worker.
* `Outbox`. `disk` is where each envelope's file is; `lock`, `todo`, `cur`,
  `stage` and `resp` are the running drain. Of the routes it replays to, the
  model has the Brief transaction with its operation receipts (`receipt`,
  `version`) and the store with its check for known content (`copies`), the
  latter up to the ingest queue, where a store that is cut off stays (`stray`).
  Replays are cut off by a timeout (`CutReplay`), by the client of a manual
  drain (`CancelDrain`) or by `Crash`; I/O errors and 5xx answers are faults too.
* `GenesisShadow`. One action per transaction of a turn: the recovery scan that
  each process owes once, reconciliation of groups without a reason, prepare
  (lease, claims, frontier, envelope), dry-run finalization. Lease expiry and
  crashes happen between any two transactions, graph changes between turns,
  because a turn holds the connection's mutex. The graph is a set of `grounded`
  edges, each of one space and one root. Roots are addressed by content
  (`provenance.rs`), so edges of different spaces share them, and the code reads
  the edges in three ways: reconciliation those of its own space, a signal those
  in its `Scope` (for wikilinks and communities not limited to a space), gate E-6
  those of any space.

Abstractions. A manifest id, a digest, a task are model values; a repair target
is `expected` (as approved), `repaired` or `edited` (anything else); receipts
are present or absent, since the code authenticates them by digest and a
mismatch is one more error; the 30 s deadline of a request and the cancellation
of its future are the same action, `DropRegistration`. A memory in the ingest
model is the request that stores it, and what the quality gate decides is a free
choice. In the outbox a memory is the start of its content, all that
`has_memory_content` compares, and a Brief envelope carries one delta. In the
genesis model an expired lease row is gone (no reader sees it), a token is the
candidate that stores it, and the gates that read state outside the pipeline may
refuse freely. Which edges a signal looks at (the links, anchors and community
members behind it), an edge's space, root and kind, and a root's group are
constants; the proofs allow any choice of them.

Assumptions about faults. The ingest worker panics only before its transaction
begins; a handler's future is dropped by hyper when its client disconnects; in
the ingest model COMMIT and ROLLBACK do not both fail (that case is in
`RepairLifecycle`). A daemon that only recovers a repair starts the batcher too,
so arming the fence is among the steps around it; the seal at the end of such a
daemon is not, because it keeps the worker out just as an armed fence does whose
repair nobody takes up.

## Runs

| Run | Instance | Shows |
| --- | --- | --- |
| `coordinator` | 2 manifests, 2 digests, 2 callers, 1 writer, 1 snapshot, tokens 1..2; 736 122 states | safety invariants and action properties of the fence, and that it implements `WriteFence` |
| `coordinator_live` | 2 manifests, 1 digest, tokens 1..1, `FairSpec`; 36 126 states | parked requests are looked at again, reservations end, an open fence admits |
| `lifecycle` | 2 manifests (one from a review item), 2 callers, 1 writer; 497 376 states | fence, disk and database stay consistent through failures and crashes |
| `lifecycle_live` | the same with 1 caller, `LifecycleFairSpec`; 104 496 states | an interrupted repair is brought to its end |
| `ingest_batcher` | 3 requests, channel of 1, batches of 2, 1 Space, 1 snapshot, 1 repair; 546 908 states | every handler is answered and the answer is what happened to its memory; a stored memory has its origin; flushes respect the fence |
| `outbox` | a Brief summary, a Brief item, a capture, a malformed file, 2 faults; 539 048 states | nothing queued is lost, a Brief update applies at most once, a memory is duplicated only where the code cannot know, every file is settled |
| `genesis_shadow` | 2 spaces, 2 concepts that share a root, 1 witness, a root with edges in both spaces, 2 graph moves, 1 crash; 375 532 states | no group is lost, an owned lease has work, a passed verdict holds its evidence alone, orphaned claims are given back |
| `receipt_order`, `marker_order`, `genesis_double_booking`, `ingest_batched_space`, `outbox_failed_brief` | the instances above, smaller where one manifest or one fault is enough | findings 1 to 5 |

Bounds. *Fence*: two manifests are enough for a conflict and for a chained
handoff, two digests for a request that names the right manifest with the wrong
approval, two callers for a retry beside a running attempt or a parked request.
One writer and one snapshot suffice because they only meet through a counter
tested against zero. `TokenLimit` stands for `u64::MAX`: with 2 (and 1) the
counters wrap within a few steps, so a reused token is the normal case. The
lifecycle runs leave out snapshots, which never write. *Ingest*: three requests
and a channel of one make a sender wait while a batch of two is flushed, so a
panic meets requests in the batch, in the channel and in front of it; one of the
requests chose its Space, the others have the default. *Outbox*: two faults are
a cut and a second one during the replay of the first; one online update moves
the Brief's version between two replays. *Genesis*: two concepts over two
groups with one in common are the smallest competition in which a refused prepare
has already inserted a claim, `AttemptLimit` 1 parks a candidate after two
refusals, `PendingCap` 2 refuses the third. One graph move makes a generation
stale; two retract a root's edge in its own space and ground it in the other. One
crash starts a second process.

Deadlock checking is on everywhere; where the system may rightly be at rest (all
handlers returned, an empty outbox) there is an explicit step that says so.

### Fairness

`FairSpec` assumes weak fairness of what tokio and the handlers do by
themselves: a woken task is polled again, writers and snapshots finish, a
handler settles or drops its guard, a registration that is unwinding is dropped,
time passes, a spawned timer runs, and a resumption handler decides. It assumes
nothing of request deadlines and cancellations, so `RepairWaitersWake` shows that
progress never depends on the 30 s timeout.

`LifecycleFairSpec` assumes that handlers run on and that the client retries
apply and verify as long as they are accepted (strong fairness: a retry may be
refused in between; the desktop client polls the operation's status and asks
again). Faults are not assumed away: `UnverifiedConcludes` has them end
eventually (`FaultsStop`), and only then demands the end of the repair. Its
premises name the two cases in which the code needs a person: the target was
edited after it was repaired, or a transaction was left open.

`IngestBatcher` assumes that tokio polls each ready handler and the worker.
Nothing is assumed of the other users of the fence, so `HandlersAnswered` has
the fence stay open in the end: a store handler has no timeout of its own and
does wait as long as a repair is owed. `Outbox` assumes that the daemon's
interval starts a drain whenever it could and that a running drain goes on; the
bound on faults says that in the end the daemon answers. `GenesisShadow` assumes
that the loop in `main/runtime.rs` keeps running turns, and nothing of leases,
backoffs or the graph.

### Findings

1. `receipt_order`. A comment in `repair_routes.rs` (line 313) says the mutation
   is committed before the apply receipt is published. If a write leaves its
   transaction open on the shared connection (COMMIT and ROLLBACK both fail, or
   the handler unwinds in between), the retried apply reads the uncommitted
   write through that connection, takes it for committed and publishes the final
   receipt. After a restart the write is gone, the receipt stays, verification
   cannot succeed and the fence stays closed.
2. `marker_order`. The comment on `publish_review_completion_marker`
   (`repair.rs` line 1044) says the marker proves that the review row's update
   committed. `reconcile_repair_review_completion` joins a transaction that an
   earlier verification left open and returns without COMMIT; the marker is then
   published for an uncommitted row.
3. `genesis_double_booking`. `prepare_candidate` documents that its caller must
   roll back when an index rejects a claim (`m6/candidates.rs` line 636).
   `prepare_one` maps the refusal to a turn that the driver commits
   (`m6/shadow.rs` lines 459 and 353), with the lease and every claim before the
   rejected one. A group then has a live claim and a frontier row; from then on
   `reconcile_space` fails in every turn before the rotation advances, and the
   recovery scan never sees the claims because their candidate is only observed.
   Two candidates over one group are enough, and so is one candidate with two
   roots in one group, whose second claim is rejected by its own first.
4. `ingest_batched_space`. `WriteSpaceInvalid` is documented per document
   (`ingest_batcher.rs` line 59), but the transaction stops at the first deleted
   destination and every survivor of the flush is told that its Space no longer
   exists, also callers that named none (`main.rs` line 930).
5. `outbox_failed_brief`. `docs/setup-and-data.md` says that what the daemon
   rejects moves to `outbox/failed/`. A replayed summary is sent against the
   version read at that moment, which is part of the request's digest. If the
   first answer was lost, the update itself has moved the version, the digest
   differs from the receipt's, the daemon answers 409 and the file is filed as
   failed although its update is in the Brief.

The first two need a second fault after the first (a failing ROLLBACK or a panic
inside the transaction), which `commit_or_rollback` in `db.rs` logs as possible;
the third and the fourth need none, the fifth one lost answer.

Observed, without a run of its own:

* The double booking of finding 3 can reach a verdict. The candidate's group is
  double-booked, its edge in the candidate's space is retracted (reconciliation
  no longer sees the group), the candidate is prepared from what is left, and
  another space grounds the same root: E-3, E-5 and E-6 hold, the candidate
  passes, and the group is still on the frontier. `PassedOwnsItsEvidence`
  therefore speaks of the frontier only for groups the candidate's own space has
  an edge of when the verdict is given.
* A genesis candidate that passed stays `prepared`: nothing the daemon runs
  moves it out of the pending states, so it counts against the space's cap.
* The store compares the first 200 characters: a capture with an equal start is
  answered "duplicate" and its outbox file removed. `RemovedWasApplied` is
  stated with that meaning. Content that redaction changed escapes the check.
* A dead ingest worker is never restarted; every later store fails until the
  daemon is restarted, and says so.
* An error while reading a good outbox file moves it to `failed/`, like a
  malformed one.
* In a repair-only daemon a chained reservation that expires leaves the claim on
  a tombstoned, incomplete request (`maintenance_coordinator.rs` line 892): only
  a restart helps, which the owner is expected to do.

## Proofs

Every invariant and every action property that a passing run checks is also a
theorem, for every value of the constants that satisfies the modules' named
assumptions (which the runs evaluate): any set of manifests, digests and
callers, any finite set of writers and snapshots, any `TokenLimit`; any set of
requests, channel and batch size; any set of envelopes and number of faults; any
spaces, candidates, groupings, caps and limits. Each component has one inductive
invariant, which TLC checked on the component's run instance first. Its proof
has a lemma per action; actions with the same kind of effect share a lemma.

### `MaintenanceCoordinatorProofs`

`FenceInvariant` (`Spec => []FenceInv`), and from it `TypeCorrect`,
`FenceExcludes`, `AttemptsExclusive`, `PendingHasOwners`, `SealIsExclusive`.

None of these is inductive alone. The code decides on counters
(`active_background == 0`) while the properties speak of running tasks, so
`Counters` ties each counter to the cardinality of the set it counts. A lease's
attempt and a caller's guard are related only by a token, and tokens wrap, so
`SingleAttempt` has to carry that the live guard *is* the lease's attempt; a
reused token is then harmless because at most one guard is live. `Compatible`
says which optional parts exclude each other, `Shapes` what an absent part looks
like. The actions that grant an attempt share `GrantInv`, those that settle one
`SettleInv`, and those that only refuse, cancel or wake share `FrameInv`.

### `WriteFenceRefinement`

`CoordinatorImplementsFence`: `Spec => ImplementsWriteFence`. The steps fall
into those the abstract fence does not see (refusals, registrations, marks on a
guard, sweeping a lapsed reservation: lemma `Stutters`) and those that are one
of its steps (admission, the grants through `GrantBegins`, the settling calls
through `SettleEnds`, the deadline of a reservation, arming, the seal). Arming
needs one fact beyond `FenceInv`: before recovery is complete no snapshot runs
(`NoEarlySnapshot`, proved alongside). `IngestBatcher` may therefore use
`WriteFence` for any instance of the coordinator.

### `MaintenanceCoordinatorClaims`

* `ClaimInvariant` (`Spec => []ClaimInv`) and `ClaimIsExclusive`. That an armed
  daemon works for nothing but its claim depends on who still remembers which
  request: `RequestsWorkedFor` says that a caller has a request only while it
  works for it and that nobody does before recovery is complete,
  `ReservationWhole` that only a reservation names a next request.
* `NoWakeupIsLost`. Every step does one of three things: it wakes everyone
  (`AllAwake`), or closes the fence to everyone (`ClosedToAll`, `AttemptCloses`),
  or changes nothing a parked task looks at (`GatesUnchanged`). The lazy expiry
  is the delicate part: whoever drops a lapsed reservation opens a gate in
  passing, and it also notifies (`LapsedWakes`).
* `ReservationsResolve`, `TombstonesAreFinal`, `FailsClosed`,
  `SealAndClaimArePermanent`: the action properties. `StepKinds` sorts the steps;
  `ReservationMoves`, `GuardsBegin` and `LeaseMoves` say which kinds can move the
  reservation, start a guard or touch the lease at all.

### `RepairLifecycleProofs`

`LifecycleInvariant` (`LifecycleSpec => []LifecycleInv`), and from it
`LifecycleTypeCorrect`, `UnverifiedStaysFenced`, `OneUnverifiedAtMost`,
`CommitsLeaveArtifacts`, `CancelledStaysUnapplied`, `ReviewsFollowRepairs`,
`SealFindsProof`, `WritesApprovedStateOnly` and `FenceSurvivesRestarts`.

Every step but a crash is a step of the coordinator or leaves it alone
(`StepOfFence`), and a crash leaves a fresh one, so `ClaimInv` is there for free.
The rest joins what no single component knows:

* `ServerSound`: recovery is complete exactly while the daemon serves, and
  before that nothing runs.
* `HandlersSound`: a handler runs exactly while its guard is live; an apply has
  marked its guard and a verification holds a durable lease. This is what makes
  dropping the guard at *any* await leave the fence closed. With
  `SingleAttempt` it also gives that no two handlers are ever past their
  acquisition (`RunningHandler`), so each handler's knowledge of its files is
  not disturbed by another handler.
* `StepsSound`: what a handler has found out and still relies on at its step,
  for instance that at COMMIT the prepared receipt is on disk and the target is
  as approved. Only edits, cancellations and dismissals come from outside; they
  are held off by the transaction, the operation lock and the fence
  (`OutsideStep` and the three lemmas after it).
* `ManifestsSound`: what the store promises by itself, also while the daemon is
  down.
* `StoreFenced`: at most one manifest is unverified, and a daemon that is not
  down holds its lease. A second one cannot arise because an apply needs the
  lease, and the lease is another manifest's.
* `ClaimProven`: a claim counts as complete only when its artifacts prove it.

`ReviewsFollowRepairs` shows why the parts belong together: a review item can
only be dismissed by an admitted writer, an admitted writer excludes a lease
(`Compatible`, `Counters`), and without a lease nothing is unverified
(`StoreFenced`). The two findings about this model (1 and 2) are not in the way:
`CommittedHasArtifact` is the direction of receipt and commit that does hold.

### `IngestBatcherProofs`

`BatcherInvariant`, then `TypeCorrect`, `AnswersAreTrue`, `StoredKeepsItsOrigin`
and `StoresBehindFence`. `Queues` says that a request is in the channel or the
batch once and in only one of them, `Handlers` what each handler's place says
of its request, `Flushing` how far the transaction is, position by position
of the batch, and `FenceHeld` that the worker is past the fence exactly while
its processor runs. An answer is true because the outcome at a batch position is
"stored" exactly where the memory is, and positions and requests correspond.

### `OutboxProofs`

`OutboxInvariant`, then `TypeCorrect`, `NothingIsLost`, `BriefUpdatesApplyOnce`
and `CopiesArePaidFor`. `HandledFile` is what the drain may conclude from the
reply it holds, `Receipts` equates an update's effect with its operation receipt,
and `CopiesPaid` counts the copies there are together with those still queued
and the one the drain waits for: the count alone is not inductive.

### `GenesisShadowProofs`

`GenesisInvariant`, then `TypeCorrect`, `GroupsAreKept`, `LeasesHaveWork`,
`PassedKeepsItsEvidence` and `ClaimsStayExclusive` (no two concepts hold live
claims in one group, which the table's index enforces and no run states). The
assumptions leave open which spaces' edges share a root and which edges a signal
looks at. `PassedHoldsItsClaims` rests on the gates, which read the claims in the
state of the verdict, and on `ClaimsExclusive`. `TurnReconciled` carries what a
turn has established before it prepares: with `PassesByFinalize` (no other step
makes a candidate pass) it gives the second half of `PassedOwnsItsEvidence`.
`GenerationsCounted` and `AttemptsLeft` bound the counters.

### Only model-checked

The liveness properties (`RepairWaitersWake`, `ReservationEnds`,
`OpenFenceAdmits`, `UnverifiedConcludes`, `HandlersAnswered`, `QueuedIsSettled`,
`OrphansAreRecovered`): fairness and `ENABLED` are out of the prover's reach. The
five findings are counterexamples, found by TLC.

## Not modelled

*Repairs.* The writers with a protocol of their own (entity relations, page
rename, entity extraction, projection quarantine and its journal), legacy
receipts, the locks of tag record sets, and preparation of manifests. A rollback
that fails is modelled after the update only; before it there is nothing to
observe. Scope and digest validation precede the fence and change nothing. The
launch of the process (database opening, migrations, configuration) is one step.

*Genesis.* The states no production code reaches (inferencing, validating,
review, suppressed, superseded), moved inputs, cards, suppressions and
quarantines of `frontier_policy`, epoch migration and compaction; the scan
cursor, the counters and the sampled oracle, which nothing reads back.

*Ingest and outbox.* What the gate measures, the enrichment that follows a
store, the handler path without a batcher; Brief history and projection files,
envelopes with several deltas.

*Elsewhere.* Search, ranking, extraction and rendering transform data and keep no
protocol state; the command line, the MCP server and the user interface are
clients of the HTTP API. Page drafts, the Markdown projection, the relay and the
desktop's ownership of the daemon do have protocols and are in the plan below.
Most of the repository's lines are in the first group, so the modelled share of
its lines is small; the status of every component is in `PROJECT.json`.

## Plan

1. Done: the coordinator, its proof, the repair lifecycle over it.
2. Done: the abstract `WriteFence`, the refinement and its proof.
3. Done: `GenesisShadow`, `IngestBatcher` over `WriteFence`, `Outbox`.
4. Done: proofs of every safety property the runs check.
5. `PageDraft`: optimistic versions of drafts and pages; then the Markdown
   projection, where a file, `state.json` and a row change in three steps.
6. `ReverseConnection`: the relay's connection takeover and revocation.
7. The prepare operation and the special repair writers as variants of the write
   step of `RepairLifecycle`.
