---------------------------- MODULE OutboxProofs ----------------------------
(***************************************************************************)
(* Proofs about the outbox, for every set of envelopes, every assignment   *)
(* of contents to captures and every number of faults.                     *)
(***************************************************************************)
EXTENDS Outbox, TLAPS

\* What the drain knows of the file it handles: the file is queued (or just
\* moved) and no longer on the list, its route fits its kind, and a reply
\* that lets the file go has its effect in the store.
HandledFile ==
    /\ stage \in {"reconcile", "send", "wait", "reply", "unreadable"} =>
          cur \in Envelopes \ todo
    /\ stage = "receipt" => cur \in Envelopes \ todo /\ disk[cur] = "moved"
    /\ stage = "reconcile" => cur \in Summaries
    /\ stage = "send" => cur \in Briefs \cup Stores
    /\ stage = "wait" => cur \in Stores
    /\ stage = "unreadable" => resp = "rejected"
    /\ stage = "reply" =>
          /\ resp # "none"
          /\ resp = "applied" =>
                \/ cur \in Briefs /\ applied[cur] > 0
                \/ cur \in Stores /\ copies[StartOf[cur]] > 0
          /\ resp = "duplicate" =>
                cur \in Stores /\ copies[StartOf[cur]] > 0

\* The operation receipt of a Brief update says exactly whether the update is
\* in the Brief.
Receipts ==
    /\ receipt \in [Briefs -> [digest : Nat, conflict : BOOLEAN,
                               present : BOOLEAN]]
    /\ \A e \in Briefs :
          applied[e] = IF receipt[e].present /\ ~receipt[e].conflict
                         THEN 1 ELSE 0

\* The store the drain waits for, if it is of content start s.
Waiting(s) == IF stage = "wait" /\ StartOf[cur] = s THEN 1 ELSE 0

\* Every copy there is or may still be is paid for: the first is free, any
\* other has its slip.
CopiesPaid ==
    \A s \in Starts :
        /\ stray[s] <= slips[s]
        /\ copies[s] + stray[s] + Waiting(s) <= 1 + slips[s]

OutboxInv ==
    /\ TypeOK
    /\ HandledFile
    /\ Receipts
    /\ CopiesPaid
    /\ RemovedWasApplied

-----------------------------------------------------------------------------
(* The step that each action takes *)

\* An empty outbox and a drain that is not running satisfy the invariant.
LEMMA InitInv == Init => OutboxInv
<1> SUFFICES ASSUME Init PROVE OutboxInv
  OBVIOUS
<1> USE OutboxAssumption DEF Init, Drainers
<1>1. TypeOK
  BY DEF TypeOK
<1>2. HandledFile
  BY DEF HandledFile
<1>3. Receipts
  BY DEF Receipts, NoReceipt
<1>4. CopiesPaid
  BY DEF CopiesPaid, Waiting
<1>5. RemovedWasApplied
  BY DEF RemovedWasApplied
<1> QED
  BY <1>1, <1>2, <1>3, <1>4, <1>5 DEF OutboxInv

\* A temporary file of the CLI is nobody's business but its own.
LEMMA WriteTemporaryInv ==
    ASSUME OutboxInv, NEW e \in Envelopes, WriteTemporary(e)
    PROVE  OutboxInv'
<1> USE OutboxAssumption DEF OutboxInv, WriteTemporary, drainVars, briefVars, storeVars
<1>1. TypeOK'
  BY DEF TypeOK, HandledFile
<1>2. HandledFile'
  BY DEF TypeOK, HandledFile, Receipts
<1>3. Receipts'
  BY DEF TypeOK, HandledFile, Receipts
<1>4. CopiesPaid'
  BY DEF TypeOK, HandledFile, CopiesPaid, Waiting
<1>5. RemovedWasApplied'
  BY DEF TypeOK, HandledFile, RemovedWasApplied
<1> QED
  BY <1>1, <1>2, <1>3, <1>4, <1>5

\* A file that becomes queued was not settled before, and the running drain
\* has not listed it.
LEMMA RenameTemporaryInv ==
    ASSUME OutboxInv, NEW e \in Envelopes, RenameTemporary(e)
    PROVE  OutboxInv'
<1> USE OutboxAssumption DEF OutboxInv, RenameTemporary, drainVars, briefVars, storeVars
<1>1. TypeOK'
  BY DEF TypeOK, HandledFile
<1>2. HandledFile'
  BY DEF TypeOK, HandledFile, Receipts
<1>3. Receipts'
  BY DEF TypeOK, HandledFile, Receipts
<1>4. CopiesPaid'
  BY DEF TypeOK, HandledFile, CopiesPaid, Waiting
<1>5. RemovedWasApplied'
  BY DEF TypeOK, HandledFile, RemovedWasApplied
<1> QED
  BY <1>1, <1>2, <1>3, <1>4, <1>5

\* The listing holds queued files only, and nothing is handled yet.
LEMMA DrainStartInv ==
    ASSUME OutboxInv, NEW d \in Drainers, DrainStart(d)
    PROVE  OutboxInv'
<1> USE OutboxAssumption DEF OutboxInv, DrainStart, QueuedFiles, Drainers, briefVars, storeVars
<1>1. TypeOK'
  BY DEF TypeOK, HandledFile
<1>2. HandledFile'
  BY DEF TypeOK, HandledFile, Receipts
<1>3. Receipts'
  BY DEF TypeOK, HandledFile, Receipts
<1>4. CopiesPaid'
  BY DEF TypeOK, HandledFile, CopiesPaid, Waiting
<1>5. RemovedWasApplied'
  BY DEF TypeOK, HandledFile, RemovedWasApplied
<1> QED
  BY <1>1, <1>2, <1>3, <1>4, <1>5

\* The file leaves the list and its route follows from its kind.
LEMMA TakeFileInv ==
    ASSUME OutboxInv, TakeFile
    PROVE  OutboxInv'
<1> USE OutboxAssumption DEF OutboxInv, TakeFile, Fault, briefVars, storeVars, Briefs, Stores
<1>1. TypeOK'
  BY DEF TypeOK, HandledFile
<1>2. HandledFile'
  BY DEF TypeOK, HandledFile, Receipts
<1>3. Receipts'
  BY DEF TypeOK, HandledFile, Receipts
<1>4. CopiesPaid'
  BY DEF TypeOK, HandledFile, CopiesPaid, Waiting
<1>5. RemovedWasApplied'
  BY DEF TypeOK, HandledFile, RemovedWasApplied
<1> QED
  BY <1>1, <1>2, <1>3, <1>4, <1>5

\* The lock is given back with the drain at rest.
LEMMA DrainEndInv ==
    ASSUME OutboxInv, DrainEnd
    PROVE  OutboxInv'
<1> USE OutboxAssumption DEF OutboxInv, DrainEnd, briefVars, storeVars, Drainers
<1>1. TypeOK'
  BY DEF TypeOK, HandledFile
<1>2. HandledFile'
  BY DEF TypeOK, HandledFile, Receipts
<1>3. Receipts'
  BY DEF TypeOK, HandledFile, Receipts
<1>4. CopiesPaid'
  BY DEF TypeOK, HandledFile, CopiesPaid, Waiting
<1>5. RemovedWasApplied'
  BY DEF TypeOK, HandledFile, RemovedWasApplied
<1> QED
  BY <1>1, <1>2, <1>3, <1>4, <1>5

\* Reading the Brief's version changes neither file nor store.
LEMMA ReconcileInv ==
    ASSUME OutboxInv, Reconcile
    PROVE  OutboxInv'
<1> USE OutboxAssumption DEF OutboxInv, Reconcile, briefVars, storeVars, Briefs
<1>1. TypeOK'
  BY DEF TypeOK, HandledFile
<1>2. HandledFile'
  BY DEF TypeOK, HandledFile, Receipts
<1>3. Receipts'
  BY DEF TypeOK, HandledFile, Receipts
<1>4. CopiesPaid'
  BY DEF TypeOK, HandledFile, CopiesPaid, Waiting
<1>5. RemovedWasApplied'
  BY DEF TypeOK, HandledFile, RemovedWasApplied
<1> QED
  BY <1>1, <1>2, <1>3, <1>4, <1>5

\* An operation is applied only when it has no receipt, and gets its receipt
\* in the same transaction, so a replay finds it.
LEMMA ApplyBriefInv ==
    ASSUME OutboxInv, ApplyBrief
    PROVE  OutboxInv'
<1> USE OutboxAssumption DEF OutboxInv, ApplyBrief, FirstApply, Answer, Digest, Matches, Differs, sendUnchanged, briefVars, storeVars
<1>1. TypeOK'
  BY DEF TypeOK, HandledFile
<1>2. HandledFile'
  BY DEF TypeOK, HandledFile, Receipts
<1>3. Receipts'
  <2>1. Digest \in Nat
    BY DEF TypeOK
  <2>2. CASE receipt[cur].present
    BY <2>2 DEF Receipts
  <2>3. CASE ~receipt[cur].present
    <3>1. PICK conflict \in BOOLEAN : FirstApply(conflict)
      BY <2>3
    <3>2. receipt' = [receipt EXCEPT ![cur] =
              [digest |-> Digest, conflict |-> conflict, present |-> TRUE]]
      BY <3>1
    <3>3. [digest |-> Digest, conflict |-> conflict, present |-> TRUE]
              \in [digest : Nat, conflict : BOOLEAN, present : BOOLEAN]
      BY <2>1
    <3>4. receipt' \in [Briefs -> [digest : Nat, conflict : BOOLEAN,
                                   present : BOOLEAN]]
      BY <3>2, <3>3 DEF Receipts
    <3>5. ASSUME NEW e \in Briefs
          PROVE  applied'[e] = IF receipt'[e].present /\ ~receipt'[e].conflict
                                 THEN 1 ELSE 0
      BY <2>3, <3>1, <3>2 DEF TypeOK, Receipts
    <3> QED
      BY <3>4, <3>5 DEF Receipts
  <2> QED
    BY <2>2, <2>3
<1>4. CopiesPaid'
  BY DEF TypeOK, HandledFile, CopiesPaid, Waiting
<1>5. RemovedWasApplied'
  BY DEF TypeOK, HandledFile, RemovedWasApplied
<1> QED
  BY <1>1, <1>2, <1>3, <1>4, <1>5

\* Other clients move the version and nothing else.
LEMMA OnlineUpdateInv ==
    ASSUME OutboxInv, OnlineUpdate
    PROVE  OutboxInv'
<1> USE OutboxAssumption DEF OutboxInv, OnlineUpdate, drainVars, storeVars
<1>1. TypeOK'
  BY DEF TypeOK, HandledFile
<1>2. HandledFile'
  BY DEF TypeOK, HandledFile, Receipts
<1>3. Receipts'
  BY DEF TypeOK, HandledFile, Receipts
<1>4. CopiesPaid'
  BY DEF TypeOK, HandledFile, CopiesPaid, Waiting
<1>5. RemovedWasApplied'
  BY DEF TypeOK, HandledFile, RemovedWasApplied
<1> QED
  BY <1>1, <1>2, <1>3, <1>4, <1>5

\* A store is queued only if its content is unknown, or with a slip.
LEMMA StoreCheckInv ==
    ASSUME OutboxInv, StoreCheck
    PROVE  OutboxInv'
<1> USE OutboxAssumption DEF OutboxInv, StoreCheck, Known, Answer, Fault, sendUnchanged, briefVars
<1>1. TypeOK'
  BY DEF TypeOK, HandledFile
<1>2. HandledFile'
  BY DEF TypeOK, HandledFile, Receipts
<1>3. Receipts'
  BY DEF TypeOK, HandledFile, Receipts
<1>4. CopiesPaid'
  BY DEF TypeOK, HandledFile, CopiesPaid, Waiting
<1>5. RemovedWasApplied'
  BY DEF TypeOK, HandledFile, RemovedWasApplied
<1> QED
  BY <1>1, <1>2, <1>3, <1>4, <1>5

\* The queued store becomes a copy: what was awaited is now there.
LEMMA FlushInv ==
    ASSUME OutboxInv, Flush
    PROVE  OutboxInv'
<1> USE OutboxAssumption DEF OutboxInv, Flush, Answer, sendUnchanged, briefVars
<1>1. TypeOK'
  BY DEF TypeOK, HandledFile
<1>2. HandledFile'
  BY DEF TypeOK, HandledFile, Receipts
<1>3. Receipts'
  BY DEF TypeOK, HandledFile, Receipts
<1>4. CopiesPaid'
  BY DEF TypeOK, HandledFile, CopiesPaid, Waiting
<1>5. RemovedWasApplied'
  BY DEF TypeOK, HandledFile, RemovedWasApplied
<1> QED
  BY <1>1, <1>2, <1>3, <1>4, <1>5

\* A stray store becomes a copy: what was stray is now there.
LEMMA FlushStrayInv ==
    ASSUME OutboxInv, NEW s \in Starts, FlushStray(s)
    PROVE  OutboxInv'
<1> USE OutboxAssumption DEF OutboxInv, FlushStray, drainVars, briefVars
<1>1. TypeOK'
  BY DEF TypeOK, HandledFile
<1>2. HandledFile'
  BY DEF TypeOK, HandledFile, Receipts
<1>3. Receipts'
  BY DEF TypeOK, HandledFile, Receipts
<1>4. CopiesPaid'
  BY DEF TypeOK, HandledFile, CopiesPaid, Waiting
<1>5. RemovedWasApplied'
  BY DEF TypeOK, HandledFile, RemovedWasApplied
<1> QED
  BY <1>1, <1>2, <1>3, <1>4, <1>5

\* A refusal has no effect but the reply.
LEMMA RefuseInv ==
    ASSUME OutboxInv, Refuse
    PROVE  OutboxInv'
<1> USE OutboxAssumption DEF OutboxInv, Refuse, Answer, Fault, sendUnchanged, briefVars, storeVars
<1>1. TypeOK'
  BY DEF TypeOK, HandledFile
<1>2. HandledFile'
  BY DEF TypeOK, HandledFile, Receipts
<1>3. Receipts'
  BY DEF TypeOK, HandledFile, Receipts
<1>4. CopiesPaid'
  BY DEF TypeOK, HandledFile, CopiesPaid, Waiting
<1>5. RemovedWasApplied'
  BY DEF TypeOK, HandledFile, RemovedWasApplied
<1> QED
  BY <1>1, <1>2, <1>3, <1>4, <1>5

\* A file goes only on a reply that has its effect in the store.
LEMMA SettleInv ==
    ASSUME OutboxInv, Settle
    PROVE  OutboxInv'
<1> USE OutboxAssumption DEF OutboxInv, Settle, Disposal, Fault, briefVars, storeVars
<1>1. TypeOK'
  BY DEF TypeOK, HandledFile
<1>2. HandledFile'
  BY DEF TypeOK, HandledFile, Receipts
<1>3. Receipts'
  BY DEF TypeOK, HandledFile, Receipts
<1>4. CopiesPaid'
  BY DEF TypeOK, HandledFile, CopiesPaid, Waiting
<1>5. RemovedWasApplied'
  BY DEF TypeOK, HandledFile, RemovedWasApplied
<1> QED
  BY <1>1, <1>2, <1>3, <1>4, <1>5

\* The receipt is written for a file that is already out of the queue.
LEMMA WriteReceiptInv ==
    ASSUME OutboxInv, WriteReceipt
    PROVE  OutboxInv'
<1> USE OutboxAssumption DEF OutboxInv, WriteReceipt, briefVars, storeVars
<1>1. TypeOK'
  BY DEF TypeOK, HandledFile
<1>2. HandledFile'
  BY DEF TypeOK, HandledFile, Receipts
<1>3. Receipts'
  BY DEF TypeOK, HandledFile, Receipts
<1>4. CopiesPaid'
  BY DEF TypeOK, HandledFile, CopiesPaid, Waiting
<1>5. RemovedWasApplied'
  BY DEF TypeOK, HandledFile, RemovedWasApplied
<1> QED
  BY <1>1, <1>2, <1>3, <1>4, <1>5

\* A cut replay leaves its file queued and its store stray, with a slip.
LEMMA CutReplayInv ==
    ASSUME OutboxInv, CutReplay
    PROVE  OutboxInv'
<1> USE OutboxAssumption DEF OutboxInv, CutReplay, Awaiting, Strand, Fault, briefVars, storeVars
<1>1. TypeOK'
  BY DEF TypeOK, HandledFile
<1>2. HandledFile'
  BY DEF TypeOK, HandledFile, Receipts
<1>3. Receipts'
  BY DEF TypeOK, HandledFile, Receipts
<1>4. CopiesPaid'
  BY DEF TypeOK, HandledFile, CopiesPaid, Waiting
<1>5. RemovedWasApplied'
  BY DEF TypeOK, HandledFile, RemovedWasApplied
<1> QED
  BY <1>1, <1>2, <1>3, <1>4, <1>5

\* A dropped manual drain is a cut replay that also frees the lock.
LEMMA CancelDrainInv ==
    ASSUME OutboxInv, CancelDrain
    PROVE  OutboxInv'
<1> USE OutboxAssumption DEF OutboxInv, CancelDrain, Awaiting, Strand, Fault, briefVars, storeVars, Drainers
<1>1. TypeOK'
  BY DEF TypeOK, HandledFile
<1>2. HandledFile'
  BY DEF TypeOK, HandledFile, Receipts
<1>3. Receipts'
  BY DEF TypeOK, HandledFile, Receipts
<1>4. CopiesPaid'
  BY DEF TypeOK, HandledFile, CopiesPaid, Waiting
<1>5. RemovedWasApplied'
  BY DEF TypeOK, HandledFile, RemovedWasApplied
<1> QED
  BY <1>1, <1>2, <1>3, <1>4, <1>5

\* A crash forgets the drain and the queue, which only removes debts.
LEMMA CrashInv ==
    ASSUME OutboxInv, Crash
    PROVE  OutboxInv'
<1> USE OutboxAssumption DEF OutboxInv, Crash, Fault, briefVars
<1>1. TypeOK'
  BY DEF TypeOK, HandledFile
<1>2. HandledFile'
  BY DEF TypeOK, HandledFile, Receipts
<1>3. Receipts'
  BY DEF TypeOK, HandledFile, Receipts
<1>4. CopiesPaid'
  BY DEF TypeOK, HandledFile, CopiesPaid, Waiting
<1>5. RemovedWasApplied'
  BY DEF TypeOK, HandledFile, RemovedWasApplied
<1> QED
  BY <1>1, <1>2, <1>3, <1>4, <1>5

-----------------------------------------------------------------------------
(* The results *)

\* Every step of the outbox, its drain, its routes and its faults keeps the
\* invariant.
LEMMA StepInv ==
    ASSUME OutboxInv, [Next]_vars
    PROVE  OutboxInv'
<1>1. CASE \E e \in Envelopes : WriteTemporary(e) \/ RenameTemporary(e)
  BY <1>1, WriteTemporaryInv, RenameTemporaryInv
<1>2. CASE \E d \in Drainers : DrainStart(d)
  BY <1>2, DrainStartInv
<1>3. CASE DrainNothing \/ UNCHANGED vars
  BY <1>3 DEF DrainNothing, vars, drainVars, briefVars, storeVars, OutboxInv,
              TypeOK, HandledFile, Receipts, CopiesPaid, Waiting,
              RemovedWasApplied
<1>4. CASE Drain
  BY <1>4, TakeFileInv, DrainEndInv, ReconcileInv, ApplyBriefInv,
     StoreCheckInv, FlushInv, SettleInv, WriteReceiptInv DEF Drain
<1>5. CASE Refuse \/ OnlineUpdate
  BY <1>5, RefuseInv, OnlineUpdateInv
<1>6. CASE \E s \in Starts : FlushStray(s)
  BY <1>6, FlushStrayInv
<1>7. CASE CutReplay \/ CancelDrain \/ Crash
  BY <1>7, CutReplayInv, CancelDrainInv, CrashInv
<1> QED
  BY <1>1, <1>2, <1>3, <1>4, <1>5, <1>6, <1>7 DEF Next

\* The invariant holds in every state of every run of the outbox.
THEOREM OutboxInvariant == Spec => []OutboxInv
  BY InitInv, StepInv, PTL DEF Spec

\* The drain's variables keep their types and it only ever works on queued
\* files: not on a temporary file of an unfinished enqueue, nor on one that
\* was settled (drain_once, queued_files).
THEOREM TypeCorrect == Spec => []TypeOK
<1>1. OutboxInv => TypeOK
  BY DEF OutboxInv
<1> QED
  BY <1>1, OutboxInvariant, PTL

\* A file that left the outbox has its effect in the store, after any number
\* of cuts, crashes, lost answers and failed removals.
THEOREM NothingIsLost == Spec => []RemovedWasApplied
<1>1. OutboxInv => RemovedWasApplied
  BY DEF OutboxInv
<1> QED
  BY <1>1, OutboxInvariant, PTL

\* A Brief update changes the Brief at most once, however often it is
\* replayed: its count is read off its operation receipt.
THEOREM BriefUpdatesApplyOnce == Spec => []BriefAppliedOnce
<1>1. OutboxInv => BriefAppliedOnce
  BY DEF OutboxInv, Receipts, BriefAppliedOnce
<1> QED
  BY <1>1, OutboxInvariant, PTL

\* There are never more copies of a content than one and its slips: replays
\* alone do not duplicate a memory.
THEOREM CopiesArePaidFor == Spec => []CopiesNeedASlip
<1>1. OutboxInv => CopiesNeedASlip
  <2> SUFFICES ASSUME OutboxInv, NEW s \in Starts
               PROVE  copies[s] <= 1 + slips[s]
    BY DEF CopiesNeedASlip
  <2>1. Waiting(s) \in Nat
    BY DEF Waiting
  <2>2. copies[s] \in Nat /\ stray[s] \in Nat /\ slips[s] \in Nat
    BY DEF OutboxInv, TypeOK
  <2>3. copies[s] + stray[s] + Waiting(s) <= 1 + slips[s]
    BY DEF OutboxInv, CopiesPaid
  <2> QED
    BY <2>1, <2>2, <2>3
<1> QED
  BY <1>1, OutboxInvariant, PTL
=============================================================================
