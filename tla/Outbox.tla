------------------------------- MODULE Outbox -------------------------------
(***************************************************************************)
(* The offline outbox: the CLI queues a write it could not deliver as a    *)
(* file (wenlan-cli/src/outbox.rs), the daemon replays the files through   *)
(* its own HTTP routes (wenlan-server/src/outbox.rs) and removes each one, *)
(* keeps it, or moves it to failed/.  With it the two routes it replays    *)
(* to: the Brief update with its operation receipts                        *)
(* (wenlan-core/src/db/brief.rs) and the memory store with its check for   *)
(* known content in front of the ingest queue.                             *)
(*                                                                         *)
(* A drain can be cut off between the effect of a replay and the removal   *)
(* of its file: by the 30 s timeout, by a dropped manual drain, or by a    *)
(* crash.  A store that was cut off while queued stays queued              *)
(* (see IngestBatcher).                                                    *)
(*                                                                         *)
(* Abstractions.  A Brief envelope carries one delta, the summary or an    *)
(* item.  A memory is the first 200 characters the store compares.  A      *)
(* request digest is the only field a replay changes, expected_version.    *)
(***************************************************************************)
EXTENDS Naturals, FiniteSets

CONSTANTS
    Envelopes,    \* envelopes, naturals in file name order
    Summaries,    \* Brief updates that set the summary (reconciled)
    Items,        \* Brief updates of an item
    Malformed,    \* files that do not parse or have another schema
    Starts,       \* starts of memory contents
    StartOf,      \* the content start of a memory envelope
    Nobody,       \* the drain lock is free
    MaxFaults,    \* bound on cuts, crashes, I/O errors and 5xx answers
    MaxOnline     \* bound on the version other clients move the Brief to

Briefs == Summaries \cup Items
Stores == Envelopes \ (Briefs \cup Malformed)
Drainers == {"tick", "manual"}

ASSUME OutboxAssumption ==
    /\ Envelopes \subseteq Nat \ {0} /\ IsFiniteSet(Envelopes)
    /\ Summaries \subseteq Envelopes /\ Items \subseteq Envelopes
    /\ Malformed \subseteq Envelopes
    /\ Summaries \cap Items = {} /\ Briefs \cap Malformed = {}
    /\ StartOf \in [Stores -> Starts]
    /\ Nobody \notin Drainers
    /\ MaxFaults \in Nat /\ MaxOnline \in Nat

VARIABLES
    disk,         \* where an envelope's file is
    lock,         \* who holds outbox_drain_lock
    todo,         \* files the running drain has listed and not handled
    cur,          \* the file it handles, 0 for none
    stage,        \* how far it is with that file
    resp,         \* the replay's result
    version,      \* the Brief's version, 0 for no Brief
    expected,     \* expected_version of the request being replayed
    receipt,      \* operation_receipts rows
    applied,      \* how often a Brief update changed the Brief
    copies,       \* memories rows with a content start
    stray,        \* queued stores nobody waits for any more
    slips,        \* history: stores cut off while queued, or let past the
                  \* check for known content by its failure
    faults

drainVars == <<lock, todo, cur, stage, resp, expected>>
briefVars == <<version, receipt, applied>>
storeVars == <<copies, stray, slips>>
vars == <<disk, drainVars, briefVars, storeVars, faults>>

NoReceipt == [digest |-> 0, conflict |-> FALSE, present |-> FALSE]

Init ==
    /\ disk = [e \in Envelopes |-> "none"]
    /\ lock = Nobody /\ todo = {} /\ cur = 0 /\ stage = "idle"
    /\ resp = "none" /\ expected = 0
    /\ version = 0
    /\ receipt = [e \in Briefs |-> NoReceipt]
    /\ applied = [e \in Briefs |-> 0]
    /\ copies = [s \in Starts |-> 0]
    /\ stray = [s \in Starts |-> 0]
    /\ slips = [s \in Starts |-> 0]
    /\ faults = 0

Fault == faults < MaxFaults /\ faults' = faults + 1

-----------------------------------------------------------------------------
(* The CLI: enqueue writes a temporary file and renames it. *)

WriteTemporary(e) ==
    /\ disk[e] = "none"
    /\ disk' = [disk EXCEPT ![e] = "tmp"]
    /\ UNCHANGED <<drainVars, briefVars, storeVars, faults>>

RenameTemporary(e) ==
    /\ disk[e] = "tmp"
    /\ disk' = [disk EXCEPT ![e] = "queued"]
    /\ UNCHANGED <<drainVars, briefVars, storeVars, faults>>

-----------------------------------------------------------------------------
(* drain_once *)

\* Mutant: the listing does not skip temporary files.
ListedWithTemporaries == {e \in Envelopes : disk[e] \in {"tmp", "queued"}}

\* queued_files
QueuedFiles == {e \in Envelopes : disk[e] = "queued"}

\* try_lock and the listing.  A second drain meanwhile only reports.
DrainStart(d) ==
    /\ lock = Nobody
    /\ QueuedFiles # {}
    /\ lock' = d
    /\ todo' = QueuedFiles
    /\ stage' = "next"
    /\ UNCHANGED <<disk, cur, resp, expected, briefVars, storeVars, faults>>

\* A drain that finds no file returns.
DrainNothing ==
    /\ lock = Nobody
    /\ QueuedFiles = {}
    /\ UNCHANGED vars

\* The loop takes the next file in name order, reads it and parses it.  One
\* that cannot be read is failed like one that does not parse.
TakeFile ==
    /\ stage = "next"
    /\ \E e \in todo :
          /\ \A f \in todo : e <= f
          /\ cur' = e
          /\ todo' = todo \ {e}
          /\ \/ /\ stage' = "unreadable" /\ resp' = "rejected"
                /\ IF e \in Malformed THEN UNCHANGED faults ELSE Fault
             \/ /\ e \in Summaries
                /\ stage' = "reconcile" /\ UNCHANGED <<resp, faults>>
             \/ /\ e \in Items \cup Stores
                /\ stage' = "send" /\ UNCHANGED <<resp, faults>>
    /\ UNCHANGED <<disk, lock, expected, briefVars, storeVars>>

DrainEnd ==
    /\ stage = "next"
    /\ todo = {}
    /\ stage' = "idle"
    /\ lock' = Nobody
    /\ UNCHANGED <<disk, todo, cur, resp, expected, briefVars, storeVars,
                   faults>>

\* reconcile_summary_version: the summary is sent against the version read
\* now, whatever the CLI recorded.
Reconcile ==
    /\ stage = "reconcile"
    /\ expected' = version
    /\ stage' = "send"
    /\ UNCHANGED <<disk, lock, todo, cur, resp, briefVars, storeVars, faults>>

-----------------------------------------------------------------------------
(* The routes *)

Answer(r) == resp' = r /\ stage' = "reply"
sendUnchanged == <<disk, lock, todo, cur, expected>>

Digest == IF cur \in Summaries THEN expected ELSE 0

\* The delta's version test passes, or fails, inside the transaction.  An
\* item's version is not modelled: either may happen.
Matches == cur \in Summaries => expected = version
Differs == cur \in Summaries => expected # version

\* The transaction of apply_brief_update for an operation it has not seen.
\* The Brief is created on first use, also when its delta conflicts.
FirstApply(conflict) ==
    /\ IF conflict
         THEN /\ Differs
              /\ version' = IF version = 0 THEN 1 ELSE version
              /\ UNCHANGED applied
         ELSE /\ Matches
              /\ version' = version + 1
              /\ applied' = [applied EXCEPT ![cur] = @ + 1]
    /\ receipt' = [receipt EXCEPT ![cur] =
          [digest |-> Digest, conflict |-> conflict, present |-> TRUE]]
    /\ Answer(IF conflict THEN "conflict" ELSE "applied")

\* Mutant: the operation receipt is not looked up.
ApplyWithoutReceipt ==
    /\ stage = "send"
    /\ cur \in Briefs
    /\ \E conflict \in BOOLEAN : FirstApply(conflict)
    /\ UNCHANGED <<sendUnchanged, storeVars, faults>>

\* PATCH /api/brief.  A known operation answers with its receipt, or 409 if
\* the request differs from the one the receipt is for.
ApplyBrief ==
    /\ stage = "send"
    /\ cur \in Briefs
    /\ IF receipt[cur].present
         THEN /\ Answer(IF receipt[cur].digest # Digest THEN "rejected"
                        ELSE IF receipt[cur].conflict THEN "conflict"
                        ELSE "applied")
              /\ UNCHANGED briefVars
         ELSE \E conflict \in BOOLEAN : FirstApply(conflict)
    /\ UNCHANGED <<sendUnchanged, storeVars, faults>>

\* Another client updates the Brief.
OnlineUpdate ==
    /\ version < MaxOnline
    /\ version' = version + 1
    /\ UNCHANGED <<disk, drainVars, receipt, applied, storeVars, faults>>

\* Mutant: the store is not checked for the content first.
KnownNever == FALSE

\* has_memory_content
Known == copies[StartOf[cur]] > 0

\* POST /api/memory/store up to the ingest queue.  A lookup that fails counts
\* as "not known".
StoreCheck ==
    /\ stage = "send"
    /\ cur \in Stores
    /\ \/ Known /\ Answer("duplicate") /\ UNCHANGED <<slips, faults>>
       \/ ~Known /\ stage' = "wait" /\ UNCHANGED <<resp, slips, faults>>
       \/ /\ Known
          /\ Fault
          /\ stage' = "wait"
          /\ slips' = [slips EXCEPT ![StartOf[cur]] = @ + 1]
          /\ UNCHANGED resp
    /\ UNCHANGED <<sendUnchanged, briefVars, copies, stray>>

\* The queued store is flushed, or the gate rejects it, and its handler
\* answers.
Flush ==
    /\ stage = "wait"
    /\ \/ /\ copies' = [copies EXCEPT ![StartOf[cur]] = @ + 1]
          /\ Answer("applied")
       \/ /\ Answer("rejected")
          /\ UNCHANGED copies
    /\ UNCHANGED <<sendUnchanged, stray, slips, briefVars, faults>>

\* A queued store whose handler was dropped is flushed or rejected.
FlushStray(s) ==
    /\ stray[s] > 0
    /\ stray' = [stray EXCEPT ![s] = @ - 1]
    /\ copies' \in {copies, [copies EXCEPT ![s] = @ + 1]}
    /\ UNCHANGED <<disk, drainVars, slips, briefVars, faults>>

\* A request that fails validation gets its 4xx, which a Brief update that
\* was accepted once does not; and a 5xx has no effect.
Refuse ==
    /\ stage \in {"send", "wait"}
    /\ \/ /\ stage = "send"
          /\ cur \in Briefs => ~receipt[cur].present
          /\ Answer("rejected")
          /\ UNCHANGED faults
       \/ Answer("error") /\ Fault
    /\ UNCHANGED <<sendUnchanged, briefVars, storeVars>>

-----------------------------------------------------------------------------
(* What becomes of the file *)

\* Mutant: the conflicts of a Brief receipt are not looked at.
DisposeConflicts(r) ==
    CASE r \in {"applied", "duplicate", "conflict"} -> "remove"
      [] r = "rejected" -> "move"
      [] r = "error" -> "keep"

Disposal(r) ==
    CASE r \in {"applied", "duplicate"} -> "remove"
      [] r \in {"conflict", "rejected"} -> "move"
      [] r = "error" -> "keep"

\* The replay is settled; a failing remove_file or rename leaves the file.
Settle ==
    /\ stage \in {"reply", "unreadable"}
    /\ resp' = "none"
    /\ \/ /\ Disposal(resp) = "remove"
          /\ disk' = [disk EXCEPT ![cur] = "gone"]
          /\ stage' = "next" /\ cur' = 0
          /\ UNCHANGED faults
       \/ /\ Disposal(resp) = "move"
          /\ disk' = [disk EXCEPT ![cur] = "moved"]
          /\ stage' = "receipt" /\ UNCHANGED <<cur, faults>>
       \/ /\ Disposal(resp) = "keep"
          /\ stage' = "next" /\ cur' = 0
          /\ UNCHANGED <<disk, faults>>
       \/ /\ Disposal(resp) # "keep"
          /\ Fault
          /\ stage' = "next" /\ cur' = 0
          /\ UNCHANGED disk
    /\ UNCHANGED <<lock, todo, expected, briefVars, storeVars>>

\* move_to_failed, after its rename.
WriteReceipt ==
    /\ stage = "receipt"
    /\ disk' = [disk EXCEPT ![cur] = "failed"]
    /\ stage' = "next" /\ cur' = 0
    /\ UNCHANGED <<lock, todo, resp, expected, briefVars, storeVars, faults>>

-----------------------------------------------------------------------------
(* Faults *)

\* A request that is cut off while its store is queued leaves it there.
Strand ==
    IF stage = "wait"
      THEN /\ stray' = [stray EXCEPT ![StartOf[cur]] = @ + 1]
           /\ slips' = [slips EXCEPT ![StartOf[cur]] = @ + 1]
           /\ UNCHANGED copies
      ELSE UNCHANGED storeVars

Awaiting == stage \in {"reconcile", "send", "wait", "reply"}

\* The client's timeout, or a connection error: the file stays queued.
CutReplay ==
    /\ Awaiting
    /\ Fault
    /\ Strand
    /\ stage' = "next" /\ cur' = 0 /\ resp' = "none"
    /\ UNCHANGED <<disk, lock, todo, expected, briefVars>>

\* Mutant: a dropped drain keeps the lock.
CancelKeepsLock ==
    /\ lock = "manual"
    /\ Awaiting
    /\ Fault
    /\ Strand
    /\ stage' = "idle" /\ cur' = 0 /\ todo' = {} /\ resp' = "none"
    /\ UNCHANGED <<disk, lock, expected, briefVars>>

\* POST /api/outbox/drain is dropped by its client in the middle of a replay.
CancelDrain ==
    /\ lock = "manual"
    /\ Awaiting
    /\ Fault
    /\ Strand
    /\ stage' = "idle" /\ cur' = 0 /\ todo' = {} /\ resp' = "none"
    /\ lock' = Nobody
    /\ UNCHANGED <<disk, expected, briefVars>>

\* The daemon dies: files and tables stay, queues and locks do not.
Crash ==
    /\ Fault
    /\ lock' = Nobody /\ todo' = {} /\ cur' = 0 /\ stage' = "idle"
    /\ resp' = "none"
    /\ stray' = [s \in Starts |-> 0]
    /\ UNCHANGED <<disk, expected, briefVars, copies, slips>>

-----------------------------------------------------------------------------
Drain ==
    \/ TakeFile \/ DrainEnd \/ Reconcile \/ ApplyBrief \/ StoreCheck \/ Flush
    \/ Settle \/ WriteReceipt

Next ==
    \/ \E e \in Envelopes : WriteTemporary(e) \/ RenameTemporary(e)
    \/ \E d \in Drainers : DrainStart(d)
    \/ DrainNothing
    \/ Drain
    \/ Refuse
    \/ OnlineUpdate
    \/ \E s \in Starts : FlushStray(s)
    \/ CutReplay \/ CancelDrain \/ Crash

(***************************************************************************)
(* Fairness.  The daemon's interval keeps starting drains and a running    *)
(* drain goes on; nothing is assumed of the CLI or of manual drains.  The  *)
(* bound on faults says that in the end the daemon answers.                *)
(***************************************************************************)
Spec == Init /\ [][Next]_vars /\ WF_vars(DrainStart("tick")) /\ WF_vars(Drain)

-----------------------------------------------------------------------------
\* The variables keep their types, and the drain never touches a file that is
\* not queued: neither a temporary file of an unfinished enqueue nor one that
\* has already been settled.
TypeOK ==
    /\ disk \in [Envelopes -> {"none", "tmp", "queued", "moved", "failed",
                               "gone"}]
    /\ lock \in Drainers \cup {Nobody}
    /\ stage \in {"idle", "next", "reconcile", "send", "wait", "reply",
                  "unreadable", "receipt"}
    /\ stage = "idle" <=> lock = Nobody
    /\ resp \in {"none", "applied", "duplicate", "conflict", "rejected",
                 "error"}
    /\ todo \subseteq {e \in Envelopes : disk[e] = "queued"}
    /\ stage \in {"reconcile", "send", "wait", "reply", "unreadable"} =>
          disk[cur] = "queued"
    /\ version \in Nat /\ expected \in Nat
    /\ copies \in [Starts -> Nat] /\ stray \in [Starts -> Nat]
    /\ slips \in [Starts -> Nat] /\ applied \in [Briefs -> Nat]
    /\ faults \in 0 .. MaxFaults

\* Nothing that was queued is lost: a file leaves the outbox only if its
\* Brief update is in the Brief, or the store holds a memory it cannot tell
\* from this one; every other file is still queued or in failed/.
RemovedWasApplied ==
    \A e \in Envelopes :
        disk[e] = "gone" =>
            \/ e \in Briefs /\ applied[e] > 0
            \/ e \in Stores /\ copies[StartOf[e]] > 0

\* However often a Brief update is replayed after a cut or a crash, it
\* changes the Brief at most once: its operation receipt sees to that.
BriefAppliedOnce == \A e \in Briefs : applied[e] <= 1

\* The check for known content keeps replays from duplicating a memory: there
\* is a second copy only where a store was cut off while still queued, or the
\* check itself failed; a crash, a lost answer or a failed removal adds none.
CopiesNeedASlip == \A s \in Starts : copies[s] <= 1 + slips[s]

\* Every queued envelope is settled: removed, or moved to failed/.
QueuedIsSettled ==
    \A e \in Envelopes :
        disk[e] = "queued" ~> disk[e] \in {"gone", "moved", "failed"}

\* A Brief update in failed/ was rejected: it is not in the Brief.
FailedBriefNotApplied ==
    \A e \in Briefs : disk[e] \in {"moved", "failed"} => applied[e] = 0
=============================================================================
