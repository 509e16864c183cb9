---------------------------- MODULE IngestBatcher ----------------------------
(***************************************************************************)
(* The ingest coalescer of wenlan-server (ingest_batcher.rs), with the     *)
(* store handlers that submit to it (memory_routes.rs) and the processor   *)
(* it runs (main.rs, main/startup.rs): handlers record the enrichment      *)
(* origin of their memory, queue it on a bounded channel and wait on a     *)
(* oneshot; one worker collects a batch, passes the repair write fence,    *)
(* runs the quality gate, stores the survivors in one transaction and      *)
(* answers each handler.  Handlers may be dropped (the client hangs up)    *)
(* at any await, the worker may panic before its transaction, and a Space  *)
(* may be deleted while a request that chose it is queued.                 *)
(*                                                                         *)
(* The fence is WriteFence, the specification MaintenanceCoordinator       *)
(* implements.  A memory is identified with the request that stores it.    *)
(***************************************************************************)
EXTENDS Naturals, Sequences, FiniteSets

CONSTANTS
    Requests,     \* store calls
    Spaces,       \* write destinations
    SpaceOf,      \* the destination a request resolved before it was queued
    Explicit,     \* requests whose destination the caller chose
    Capacity,     \* channel_capacity
    MaxBatch,     \* max_batch
    Worker,       \* the coalescer task, as a background writer
    Snapshots,    \* analysis snapshots, the fence's readers
    Repairs       \* repair attempts

ASSUME BatcherAssumption ==
    /\ IsFiniteSet(Requests)
    /\ SpaceOf \in [Requests -> Spaces]
    /\ Explicit \subseteq Requests
    /\ Capacity \in Nat \ {0}
    /\ MaxBatch \in Nat \ {0}

VARIABLES
    caller,       \* where each store handler stands
    answer,       \* what its oneshot delivers, "none" until then
    queue,        \* the mpsc channel
    worker,       \* where the coalescer stands
    batch,        \* requests of the current flush whose responder is live
    outcomes,     \* the outcomes of the flush, parallel to batch
    origins,      \* enrichment_origin rows
    stored,       \* memories rows
    deleted,      \* Spaces that are gone
    writing, reading, repairing, fence    \* the write fence

Fence == INSTANCE WriteFence WITH
    Writers <- {Worker}, Readers <- Snapshots, Repairers <- Repairs

fenceVars == <<writing, reading, repairing, fence>>
callerVars == <<caller, origins>>
vars == <<callerVars, answer, queue, worker, batch, outcomes, stored, deleted,
          fenceVars>>

Init ==
    /\ caller = [r \in Requests |-> "new"]
    /\ answer = [r \in Requests |-> "none"]
    /\ queue = <<>>
    /\ worker = "receiving"
    /\ batch = <<>>
    /\ outcomes = <<>>
    /\ origins = {}
    /\ stored = {}
    /\ deleted = {}
    /\ Fence!Init

Step(r, from, to) == caller[r] = from /\ caller' = [caller EXCEPT ![r] = to]

-----------------------------------------------------------------------------
(* Store handlers *)

\* upsert_enrichment_origin; when it fails the handler returns its error.
WriteOrigin(r) ==
    /\ \/ Step(r, "new", "sending") /\ origins' = origins \cup {r}
       \/ Step(r, "new", "done") /\ UNCHANGED origins
    /\ UNCHANGED <<answer, queue, worker, batch, outcomes, stored, deleted,
                   fenceVars>>

\* tx.send: waits for a free slot of the channel.
Send(r) ==
    /\ worker # "dead"
    /\ Len(queue) < Capacity
    /\ Step(r, "sending", "waiting")
    /\ queue' = Append(queue, r)
    /\ UNCHANGED <<answer, worker, batch, outcomes, origins, stored, deleted,
                   fenceVars>>

\* tx.send on a channel whose receiver is gone.
SendRefused(r) ==
    /\ worker = "dead"
    /\ Step(r, "sending", "cleanup")
    /\ answer' = [answer EXCEPT ![r] = "closed"]
    /\ UNCHANGED <<queue, worker, batch, outcomes, origins, stored, deleted,
                   fenceVars>>

\* resp_rx resolves: success continues, every other outcome cleans up.
Resume(r) ==
    /\ answer[r] # "none"
    /\ Step(r, "waiting", IF answer[r] = "stored" THEN "done" ELSE "cleanup")
    /\ UNCHANGED <<answer, queue, worker, batch, outcomes, origins, stored,
                   deleted, fenceVars>>

\* delete_enrichment_origin, its own failure ignored, then the error return.
Cleanup(r) ==
    /\ Step(r, "cleanup", "done")
    /\ origins' \in {origins, origins \ {r}}
    /\ UNCHANGED <<answer, queue, worker, batch, outcomes, stored, deleted,
                   fenceVars>>

\* Mutant: a dropped handler takes its origin row with it.
DisconnectCleansUp(r) ==
    /\ \E p \in {"sending", "waiting", "cleanup"} : Step(r, p, "gone")
    /\ origins' = origins \ {r}
    /\ UNCHANGED <<answer, queue, worker, batch, outcomes, stored, deleted,
                   fenceVars>>

\* The client hangs up and the handler's future is dropped.  A request that
\* is already queued stays queued.
Disconnect(r) ==
    /\ \E p \in {"sending", "waiting", "cleanup"} : Step(r, p, "gone")
    /\ UNCHANGED <<answer, queue, worker, batch, outcomes, origins, stored,
                   deleted, fenceVars>>

-----------------------------------------------------------------------------
(* run_coalescer *)

Receive ==
    /\ worker = "receiving"
    /\ queue # <<>>
    /\ batch' = <<Head(queue)>>
    /\ queue' = Tail(queue)
    /\ worker' = "filling"
    /\ UNCHANGED <<callerVars, answer, outcomes, stored, deleted, fenceVars>>

\* Mutant: the size cap is compared after the push.
FillPastCap ==
    /\ worker = "filling"
    /\ Len(batch) <= MaxBatch
    /\ queue # <<>>
    /\ batch' = Append(batch, Head(queue))
    /\ queue' = Tail(queue)
    /\ UNCHANGED <<callerVars, answer, worker, outcomes, stored, deleted,
                   fenceVars>>

Fill ==
    /\ worker = "filling"
    /\ Len(batch) < MaxBatch
    /\ queue # <<>>
    /\ batch' = Append(batch, Head(queue))
    /\ queue' = Tail(queue)
    /\ UNCHANGED <<callerVars, answer, worker, outcomes, stored, deleted,
                   fenceVars>>

\* The batch is full or its window has passed.
CloseWindow ==
    /\ worker = "filling"
    /\ worker' = "admitting"
    /\ UNCHANGED <<callerVars, answer, queue, batch, outcomes, stored,
                   deleted, fenceVars>>

\* Mutant: the processor does not wait for the fence.
AdmitUnfenced ==
    /\ worker = "admitting"
    /\ worker' = "gating"
    /\ UNCHANGED <<callerVars, answer, queue, batch, outcomes, stored,
                   deleted, fenceVars>>

\* begin_background in the process closure.
Admit ==
    /\ worker = "admitting"
    /\ Fence!BeginWrite(Worker)
    /\ worker' = "gating"
    /\ UNCHANGED <<callerVars, answer, queue, batch, outcomes, stored,
                   deleted>>

-----------------------------------------------------------------------------
(* ingest_batch_process *)

Survivors == {i \in DOMAIN outcomes : outcomes[i] = "none"}

\* Mutant: results are numbered along the survivors, not along the batch.
ResultByRank(result) ==
    [i \in DOMAIN outcomes |->
        IF i <= Cardinality(Survivors) THEN result ELSE "rejected"]

\* Every survivor gets the transaction's result at its own position.
WithResult(result) ==
    [i \in DOMAIN outcomes |->
        IF i \in Survivors THEN result ELSE outcomes[i]]

\* evaluate_batch; an error of the gate itself rejects the whole batch.
Gate ==
    /\ worker = "gating"
    /\ \E admitted \in SUBSET DOMAIN batch :
          outcomes' = [i \in DOMAIN batch |->
                          IF i \in admitted THEN "none" ELSE "rejected"]
    /\ worker' = "upserting"
    /\ UNCHANGED <<callerVars, answer, queue, batch, stored, deleted,
                   fenceVars>>

\* Requests of the transaction whose chosen destination no longer exists.  A
\* deleted default falls back to Uncategorized instead.
Misdirected ==
    {i \in Survivors : batch[i] \in Explicit /\ SpaceOf[batch[i]] \in deleted}

\* upsert_documents_with_write_spaces: embeddings, then one transaction that
\* checks every destination before it writes.
Upsert ==
    /\ worker = "upserting"
    /\ \/ /\ Misdirected = {}
          /\ stored' = stored \cup {batch[i] : i \in Survivors}
          /\ outcomes' = WithResult("stored")
       \/ /\ Misdirected # {}
          /\ outcomes' = WithResult("invalid")
          /\ UNCHANGED stored
       \/ /\ Survivors # {}
          /\ outcomes' = WithResult("failed")
          /\ UNCHANGED stored
    /\ worker' = "returning"
    /\ UNCHANGED <<callerVars, answer, queue, batch, deleted, fenceVars>>

\* The process future returns and drops its fence guard.
Return ==
    /\ worker = "returning"
    /\ Fence!EndWrite(Worker)
    /\ worker' = "answering"
    /\ UNCHANGED <<callerVars, answer, queue, batch, outcomes, stored,
                   deleted>>

\* responder.send, in batch order; nobody listens if the handler is gone.
Answer ==
    /\ worker = "answering"
    /\ IF batch = <<>>
         THEN /\ worker' = "receiving"
              /\ UNCHANGED <<answer, batch, outcomes>>
         ELSE /\ answer' = [answer EXCEPT ![Head(batch)] = Head(outcomes)]
              /\ batch' = Tail(batch)
              /\ outcomes' = Tail(outcomes)
              /\ UNCHANGED worker
    /\ UNCHANGED <<callerVars, queue, stored, deleted, fenceVars>>

Elements(s) == {s[i] : i \in DOMAIN s}

\* Mutant: the queued requests outlive the worker.
PanicKeepsQueue ==
    /\ worker \in {"gating", "upserting"}
    /\ worker' = "dead"
    /\ answer' = [r \in Requests |->
                    IF r \in Elements(batch) THEN "dropped" ELSE answer[r]]
    /\ batch' = <<>> /\ outcomes' = <<>>
    /\ Fence!EndWrite(Worker)
    /\ UNCHANGED <<callerVars, queue, stored, deleted>>

\* The processor panics before its transaction begins: unwinding drops the
\* fence guard, the responders of the batch, and the receiver with whatever
\* is queued.  Nothing restarts the worker.
Panic ==
    /\ worker \in {"gating", "upserting"}
    /\ worker' = "dead"
    /\ answer' = [r \in Requests |->
                    IF r \in Elements(batch) \cup Elements(queue)
                      THEN "dropped" ELSE answer[r]]
    /\ batch' = <<>> /\ outcomes' = <<>> /\ queue' = <<>>
    /\ Fence!EndWrite(Worker)
    /\ UNCHANGED <<callerVars, stored, deleted>>

-----------------------------------------------------------------------------
DeleteSpace(s) ==
    /\ s \notin deleted
    /\ deleted' = deleted \cup {s}
    /\ UNCHANGED <<callerVars, answer, queue, worker, batch, outcomes, stored,
                   fenceVars>>

\* The other users of the fence.  A daemon that recovers a repair runs the
\* batcher too, so the fence may be armed.  Its seal is left out: it keeps the
\* worker out as an armed fence does whose repair nobody takes up.
OthersUseFence ==
    /\ \/ \E a \in Snapshots : Fence!BeginRead(a) \/ Fence!EndRead(a)
       \/ \E c \in Repairs : Fence!BeginRepair(c) \/ Fence!EndRepair(c)
       \/ Fence!Lapse \/ Fence!Arm
    /\ UNCHANGED <<callerVars, answer, queue, worker, batch, outcomes, stored,
                   deleted>>

Handler(r) ==
    WriteOrigin(r) \/ Send(r) \/ SendRefused(r) \/ Resume(r) \/ Cleanup(r)

Coalescer ==
    Receive \/ Fill \/ CloseWindow \/ Admit \/ Gate \/ Upsert \/ Return \/ Answer

\* Every handler has returned, or its client is gone.
Finished ==
    /\ \A r \in Requests : caller[r] \in {"done", "gone"}
    /\ UNCHANGED vars

Next ==
    \/ \E r \in Requests : Handler(r) \/ Disconnect(r)
    \/ Coalescer
    \/ Panic
    \/ \E s \in Spaces : DeleteSpace(s)
    \/ OthersUseFence
    \/ Finished

(***************************************************************************)
(* Fairness.  tokio polls a ready handler and the ready worker again, the  *)
(* window's timer fires, and channel slots go to waiting senders.  Nothing *)
(* is assumed of the fence's other users, of clients or of panics.         *)
(***************************************************************************)
Spec ==
    /\ Init /\ [][Next]_vars
    /\ \A r \in Requests : WF_vars(Handler(r))
    /\ WF_vars(Coalescer)

-----------------------------------------------------------------------------
Outcomes == {"stored", "rejected", "invalid", "failed"}

\* The variables keep their types; the channel never holds more than its
\* capacity, a flush never more than max_batch, and while the processor runs
\* there is one outcome slot per responder.
TypeOK ==
    /\ caller \in [Requests -> {"new", "sending", "waiting", "cleanup",
                                "done", "gone"}]
    /\ answer \in [Requests -> Outcomes \cup {"none", "closed", "dropped"}]
    /\ Elements(queue) \cup Elements(batch) \subseteq Requests
    /\ Len(queue) <= Capacity
    /\ Len(batch) <= MaxBatch
    /\ Elements(outcomes) \subseteq Outcomes \cup {"none"}
    /\ worker \in {"returning", "answering"} => Len(outcomes) = Len(batch)
    /\ worker \in {"receiving", "filling", "admitting", "gating", "upserting",
                   "returning", "answering", "dead"}
    /\ origins \subseteq Requests
    /\ stored \subseteq Requests
    /\ deleted \subseteq Spaces
    /\ Fence!TypeOK

\* What a handler is told is what happened to its own memory, and stays so:
\* "stored" only if the row is there, any failure - a rejection, a failed
\* transaction, a dead worker - only if it is not and never will be.  So a
\* caller may retry after an error without storing the memory twice.
AnswerIsTruth ==
    \A r \in Requests :
        /\ answer[r] = "stored" => r \in stored
        /\ answer[r] \notin {"none", "stored"} => r \notin stored

\* Every stored memory has its enrichment_origin row, also when its handler
\* was dropped before the transaction or the worker died around it: the
\* enrichment lane reads the row to know what the caller set explicitly.
StoredHasOrigin == stored \subseteq origins

\* A flush commits only behind the fence: with the worker admitted, no repair
\* attempt live, no repair owed and no chain open, however long the batch was
\* queued and whatever was admitted in between.
StoreBehindFence ==
    [][stored' # stored =>
          /\ writing = {Worker} /\ repairing = {} /\ reading = {}
          /\ fence = "open"]_vars

\* A handler that has queued, or is waiting to queue, its memory is answered
\* or dropped, also when the channel is full or the worker dies, provided the
\* fence finally stays open.
HandlersAnswered ==
    <>[](fence = "open" /\ reading = {}) =>
        \A r \in Requests :
            caller[r] \in {"sending", "waiting"}
                ~> caller[r] \notin {"sending", "waiting"}

\* StoreOutcome::WriteSpaceInvalid is documented per document: its own write
\* destination was deleted after the request resolved it.
InvalidIsOwnSpace ==
    \A r \in Requests :
        answer[r] = "invalid" => r \in Explicit /\ SpaceOf[r] \in deleted
=============================================================================
