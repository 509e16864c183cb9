--------------------- MODULE MaintenanceCoordinatorProofs ---------------------
(***************************************************************************)
(* Proofs about the repair write fence, for every number of callers,       *)
(* writers and snapshots, every set of requests and every token width.     *)
(***************************************************************************)
EXTENDS MaintenanceCoordinator, FiniteSetTheorems, TLAPS

-----------------------------------------------------------------------------
(* What the helpers do *)

\* Move: task t gets phase p, and a notification turns parked into woken.
LEMMA MoveEffect ==
    ASSUME TypeOK, NEW t \in Tasks, NEW p \in Phases, NEW notify \in BOOLEAN,
           Move(t, p, notify)
    PROVE  /\ phase' \in [Tasks -> Phases]
           /\ \A u \in Tasks \ {t} :
                phase'[u] = IF notify /\ phase[u] = "parked" THEN "woken"
                            ELSE phase[u]
           /\ phase'[t] = IF notify /\ p = "parked" THEN "woken" ELSE p
  BY DEF TypeOK, Move, Woken, Phases

\* A notification alone changes no phase but parked.
LEMMA WokenEffect ==
    ASSUME TypeOK, phase' = Woken(phase)
    PROVE  /\ phase' \in [Tasks -> Phases]
           /\ \A u \in Tasks :
                phase'[u] = IF phase[u] = "parked" THEN "woken" ELSE phase[u]
  BY DEF TypeOK, Woken, Phases

\* The counters issue tokens of their width, never 0.
LEMMA IssueType ==
    ASSUME NEW n \in 0..TokenLimit
    PROVE  Issue(n) \in Tokens /\ Issue(n) # 0 /\ Issue(n) \in 0..TokenLimit
  BY CoordinatorAssumption DEF Issue, Tokens

-----------------------------------------------------------------------------
(* Type correctness *)

\* A fresh coordinator is well typed.
LEMMA InitType == Init => TypeOK
<1> SUFFICES ASSUME Init PROVE TypeOK
  OBVIOUS
<1> USE CoordinatorAssumption DEF Init
<1>1. /\ NoLease \in [manifest : Manifests \cup {NoManifest},
                      durable : BOOLEAN, attempt : 0..TokenLimit]
      /\ NoPending \in [manifest : Manifests \cup {NoManifest},
                        owners : SUBSET Callers]
      /\ NoReservation \in [predecessor : Manifests \cup {NoManifest},
                            next_apply : Requests \cup {NoRequest},
                            generation : 0..TokenLimit, due : BOOLEAN]
      /\ NoGuard \in [manifest : Manifests \cup {NoManifest},
                      token : 0..TokenLimit, retain : BOOLEAN]
  BY DEF NoLease, NoPending, NoReservation, NoGuard
<1>2. /\ phase \in [Tasks -> Phases]
      /\ \A t \in Writers \cup Analysts : phase[t] \notin {"leaving", "dropping"}
  BY DEF Phases, Tasks
<1>3. /\ recovery_complete \in BOOLEAN
      /\ startup_claim_complete \in BOOLEAN
  OBVIOUS
<1>4. /\ active_background \in Nat /\ active_analysis \in Nat
      /\ next_repair_attempt \in 0..TokenLimit
      /\ next_reservation \in 0..TokenLimit
  OBVIOUS
<1>5. /\ startup_claim \in Requests \cup {NoRequest}
      /\ expired_repairs \subseteq Requests
      /\ runtime_resumption \in {"none", "active", "committed"}
      /\ timers \subseteq Tokens
  OBVIOUS
<1>6. request \in [Callers -> Requests \cup {NoRequest}]
  OBVIOUS
<1>7. guard \in [Callers -> [manifest : Manifests \cup {NoManifest},
                      token : 0..TokenLimit, retain : BOOLEAN]]
  BY <1>1
<1> QED
  BY <1>1, <1>2, <1>3, <1>4, <1>5, <1>6, <1>7 DEF TypeOK

\* Dropping a lapsed reservation keeps the types and leaves a well-formed
\* reservation or none.
LEMMA ExpireType ==
    ASSUME TypeOK, Shapes, ExpireReservation
    PROVE  /\ reserved_repair' \in [predecessor : Manifests \cup {NoManifest},
                                    next_apply : Requests \cup {NoRequest},
                                    generation : 0..TokenLimit, due : BOOLEAN]
           /\ expired_repairs' \subseteq Requests
  BY CoordinatorAssumption
     DEF TypeOK, Shapes, ExpireReservation, Lapsed, Tombstones, NoReservation, Reserved

-----------------------------------------------------------------------------
(* The counters and the sets they count *)

\* Only finitely many writers and snapshots run, so they can be counted.
LEMMA ActiveSetsFinite ==
    /\ IsFiniteSet(ActiveWriters) /\ Cardinality(ActiveWriters) \in Nat
    /\ IsFiniteSet(ActiveAnalysts) /\ Cardinality(ActiveAnalysts) \in Nat
<1>1. ActiveWriters \subseteq Writers /\ ActiveAnalysts \subseteq Analysts
  BY DEF ActiveWriters, ActiveAnalysts
<1> QED
  BY <1>1, CoordinatorAssumption, FS_Subset, FS_CardinalityType

\* A counter is zero exactly when no guard of its kind is live.
LEMMA CounterZero ==
    ASSUME Counters
    PROVE  /\ active_background = 0 <=> ActiveWriters = {}
           /\ active_analysis = 0 <=> ActiveAnalysts = {}
  BY ActiveSetsFinite, FS_EmptySet DEF Counters

\* The counters stay right when no writer and no snapshot starts or ends.
LEMMA CountersFrame ==
    ASSUME Counters, UNCHANGED <<active_background, active_analysis>>,
           \A u \in Writers \cup Analysts :
              phase'[u] = "active" <=> phase[u] = "active"
    PROVE  Counters' /\ ActiveWriters' = ActiveWriters
           /\ ActiveAnalysts' = ActiveAnalysts
<1>1. ActiveWriters' = ActiveWriters /\ ActiveAnalysts' = ActiveAnalysts
  BY DEF ActiveWriters, ActiveAnalysts
<1> QED
  BY <1>1 DEF Counters

\* Admitting one writer and incrementing active_background keep step.
LEMMA WriterStarts ==
    ASSUME Counters, NEW w \in Writers, phase[w] # "active",
           phase'[w] = "active",
           \A u \in (Writers \cup Analysts) \ {w} :
              phase'[u] = "active" <=> phase[u] = "active",
           active_background' = active_background + 1,
           active_analysis' = active_analysis
    PROVE  Counters' /\ ActiveAnalysts' = ActiveAnalysts
<1>1. /\ ActiveWriters' = ActiveWriters \cup {w} /\ w \notin ActiveWriters
      /\ ActiveAnalysts' = ActiveAnalysts
  BY CoordinatorAssumption DEF ActiveWriters, ActiveAnalysts
<1> QED
  BY <1>1, ActiveSetsFinite, FS_AddElement DEF Counters

\* Dropping one writer guard and decrementing active_background keep step.
LEMMA WriterEnds ==
    ASSUME Counters, NEW w \in Writers, phase[w] = "active",
           phase'[w] # "active",
           \A u \in (Writers \cup Analysts) \ {w} :
              phase'[u] = "active" <=> phase[u] = "active",
           active_background' =
              IF active_background = 0 THEN 0 ELSE active_background - 1,
           active_analysis' = active_analysis
    PROVE  Counters' /\ ActiveAnalysts' = ActiveAnalysts /\ active_background # 0
<1>1. /\ ActiveWriters' = ActiveWriters \ {w} /\ w \in ActiveWriters
      /\ ActiveAnalysts' = ActiveAnalysts
  BY CoordinatorAssumption DEF ActiveWriters, ActiveAnalysts
<1>2. active_background # 0
  BY <1>1, CounterZero
<1>3. Cardinality(ActiveWriters') = Cardinality(ActiveWriters) - 1
  BY <1>1, ActiveSetsFinite, FS_RemoveElement
<1> QED
  BY <1>1, <1>2, <1>3 DEF Counters

\* Admitting one snapshot and incrementing active_analysis keep step.
LEMMA AnalystStarts ==
    ASSUME Counters, NEW a \in Analysts, phase[a] # "active",
           phase'[a] = "active",
           \A u \in (Writers \cup Analysts) \ {a} :
              phase'[u] = "active" <=> phase[u] = "active",
           active_analysis' = active_analysis + 1,
           active_background' = active_background
    PROVE  Counters' /\ ActiveWriters' = ActiveWriters
<1>1. /\ ActiveAnalysts' = ActiveAnalysts \cup {a} /\ a \notin ActiveAnalysts
      /\ ActiveWriters' = ActiveWriters
  BY CoordinatorAssumption DEF ActiveWriters, ActiveAnalysts
<1> QED
  BY <1>1, ActiveSetsFinite, FS_AddElement DEF Counters

\* Dropping one snapshot guard and decrementing active_analysis keep step.
LEMMA AnalystEnds ==
    ASSUME Counters, NEW a \in Analysts, phase[a] = "active",
           phase'[a] # "active",
           \A u \in (Writers \cup Analysts) \ {a} :
              phase'[u] = "active" <=> phase[u] = "active",
           active_analysis' =
              IF active_analysis = 0 THEN 0 ELSE active_analysis - 1,
           active_background' = active_background
    PROVE  Counters' /\ ActiveWriters' = ActiveWriters /\ active_analysis # 0
<1>1. /\ ActiveAnalysts' = ActiveAnalysts \ {a} /\ a \in ActiveAnalysts
      /\ ActiveWriters' = ActiveWriters
  BY CoordinatorAssumption DEF ActiveWriters, ActiveAnalysts
<1>2. active_analysis # 0
  BY <1>1, CounterZero
<1>3. Cardinality(ActiveAnalysts') = Cardinality(ActiveAnalysts) - 1
  BY <1>1, ActiveSetsFinite, FS_RemoveElement
<1> QED
  BY <1>1, <1>2, <1>3 DEF Counters

-----------------------------------------------------------------------------
(* The actions preserve the invariant *)

\* Steps that start and end no guard and move no lease: refusals,
\* cancellations, wake-ups and the end of a reservation.
LEMMA FrameInv ==
    ASSUME FenceInv, TypeOK',
           UNCHANGED <<active_background, active_analysis, pending_repair,
                       repair_lease, runtime_resumption, request>>,
           recovery_complete => recovery_complete',
           Reserved' => Reserved /\ reserved_repair'.next_apply \in Requests,
           \A u \in Writers \cup Analysts :
              phase'[u] = "active" <=> phase[u] = "active",
           \A c \in Callers :
              /\ GuardLive(c)' <=> GuardLive(c)
              /\ guard'[c].token = guard[c].token
              /\ guard'[c].manifest = guard[c].manifest
              /\ c \in pending_repair.owners =>
                    phase'[c] \in {"parked", "woken", "leaving"}
    PROVE  FenceInv'
<1>0. TypeOK /\ Shapes /\ Counters /\ Compatible /\ SingleAttempt /\ PendingOwnersLive
  BY DEF FenceInv
<1>1. Shapes'
  BY <1>0 DEF Shapes, Leased, Pending
<1>2. Counters'
  BY <1>0, CountersFrame
<1>3. Compatible'
  BY <1>0 DEF Compatible, Leased, Pending, Quiet
<1>4. SingleAttempt'
  BY <1>0 DEF SingleAttempt, LiveGuards, Owns
<1>5. PendingOwnersLive'
  BY <1>0 DEF PendingOwnersLive, Pending, Leased, TypeOK
<1> QED
  BY <1>1, <1>2, <1>3, <1>4, <1>5 DEF FenceInv

\* finish_recovery opens the gates and wakes tasks; the fence is as before.
LEMMA FinishRecoveryInv == FenceInv /\ FinishRecovery => FenceInv'
<1> SUFFICES ASSUME FenceInv, FinishRecovery PROVE FenceInv'
  OBVIOUS
<1>1. TypeOK /\ Shapes
  BY DEF FenceInv
<1>2. /\ phase' \in [Tasks -> Phases]
      /\ \A u \in Tasks :
            phase'[u] = IF phase[u] = "parked" THEN "woken" ELSE phase[u]
  BY <1>1, WokenEffect DEF FinishRecovery
<1>3. TypeOK'
  BY <1>1, <1>2 DEF FinishRecovery, TypeOK, Tasks
<1> QED
  BY <1>1, <1>2, <1>3, FrameInv
     DEF FinishRecovery, Reserved, Shapes, GuardLive, Tasks, FenceInv,
         PendingOwnersLive, TypeOK

\* A writer or a snapshot is refused or cancelled, whatever it does next.
LEMMA RefusedTaskInv ==
    ASSUME FenceInv, NEW t \in Writers \cup Analysts, phase[t] # "active",
           NEW p \in {"idle", "parked"}, NEW notify \in BOOLEAN,
           Move(t, p, notify),
           ExpireReservation \/ UNCHANGED <<reserved_repair, expired_repairs>>,
           UNCHANGED <<active_background, active_analysis, admissionUnchanged>>
    PROVE  FenceInv'
<1> USE CoordinatorAssumption DEF admissionUnchanged
<1>1. TypeOK /\ Shapes /\ PendingOwnersLive
  BY DEF FenceInv
<1>2. t \in Tasks /\ t \notin Callers /\ p \in Phases
  BY DEF Tasks, Phases
<1>3. /\ phase' \in [Tasks -> Phases]
      /\ phase'[t] \in {"idle", "parked", "woken"}
      /\ \A u \in Tasks \ {t} : phase'[u] = IF notify /\ phase[u] = "parked"
                                          THEN "woken" ELSE phase[u]
  BY <1>1, <1>2, MoveEffect
<1>4. TypeOK'
  BY <1>1, <1>3, ExpireType DEF TypeOK, Tasks
<1>5. Reserved' => Reserved /\ reserved_repair'.next_apply \in Requests
  BY <1>1 DEF Shapes, ExpireReservation, Reserved, NoReservation
<1> QED
  BY <1>1, <1>2, <1>3, <1>4, <1>5, FrameInv
     DEF GuardLive, Tasks, PendingOwnersLive, TypeOK

\* A writer is admitted only when no lease, reservation or snapshot is there.
LEMMA AdmitBackgroundInv ==
    ASSUME FenceInv, NEW w \in Writers, phase[w] # "active", AdmitBackground(w)
    PROVE  FenceInv'
<1> USE CoordinatorAssumption
<1>0. TypeOK /\ Shapes /\ Counters /\ Compatible /\ SingleAttempt /\ PendingOwnersLive
  BY DEF FenceInv
<1>a. w \in Tasks /\ w \notin Callers
  BY DEF Tasks
<1>b. Lapsed \in BOOLEAN
  BY <1>0 DEF Lapsed, TypeOK
<1>1. /\ phase' \in [Tasks -> Phases]
      /\ phase'[w] = "active"
      /\ \A u \in Tasks \ {w} : phase'[u] = IF Lapsed /\ phase[u] = "parked"
                                          THEN "woken" ELSE phase[u]
  BY <1>0, <1>a, <1>b, MoveEffect DEF AdmitBackground, Phases
<1>2. TypeOK'
  BY <1>0, <1>1, ExpireType DEF AdmitBackground, TypeOK, admissionUnchanged, Tasks
<1>3. Shapes'
  BY <1>0 DEF AdmitBackground, Shapes, admissionUnchanged, ExpireReservation, Leased, Pending, Reserved, NoReservation, Lapsed
<1>4. Counters'
  BY <1>0, <1>1, WriterStarts DEF AdmitBackground, Tasks
<1>5. Compatible'
  BY <1>0 DEF AdmitBackground, Compatible, admissionUnchanged, ExpireReservation, Leased, Pending, Reserved, NoReservation, Lapsed, Quiet, BackgroundOpen, StillReserved, TypeOK
<1>6. SingleAttempt'
  BY <1>0, <1>1, <1>a DEF SingleAttempt, LiveGuards, GuardLive, Owns, AdmitBackground, admissionUnchanged, Tasks
<1>7. PendingOwnersLive'
  BY <1>0, <1>1, <1>a DEF PendingOwnersLive, AdmitBackground, BackgroundOpen, admissionUnchanged, Tasks, TypeOK, Pending, Leased, Reserved, Shapes
<1> QED
  BY <1>2, <1>3, <1>4, <1>5, <1>6, <1>7 DEF FenceInv

\* Both admission calls of a writer preserve the invariant.
LEMMA BeginBackgroundInv ==
    ASSUME FenceInv, NEW w \in Writers,
           BeginBackground(w) \/ TryBeginBackground(w)
    PROVE  FenceInv'
<1>1. phase[w] # "active" /\ Lapsed \in BOOLEAN
  BY DEF BeginBackground, TryBeginBackground, Lapsed, FenceInv, TypeOK
<1>2. CASE AdmitBackground(w)
  BY <1>1, <1>2, AdmitBackgroundInv
<1>3. CASE ~AdmitBackground(w)
  BY <1>1, <1>3, RefusedTaskInv DEF BeginBackground, TryBeginBackground
<1> QED
  BY <1>2, <1>3

\* A writer that ends leaves a counter that still counts the others.
LEMMA EndBackgroundInv ==
    ASSUME FenceInv, NEW w \in Writers, EndBackground(w)
    PROVE  FenceInv'
<1> USE CoordinatorAssumption DEF EndBackground, admissionUnchanged
<1>0. TypeOK /\ Shapes /\ Counters /\ Compatible /\ SingleAttempt /\ PendingOwnersLive
  BY DEF FenceInv
<1>1. w \in Tasks /\ w \notin Callers
  BY DEF Tasks
<1>2. /\ phase' \in [Tasks -> Phases]
      /\ phase'[w] = "idle"
      /\ \A u \in Tasks \ {w} :
            phase'[u] = IF phase[u] = "parked" THEN "woken" ELSE phase[u]
  BY <1>0, <1>1, MoveEffect DEF Phases
<1>3. Counters' /\ active_background # 0
  BY <1>0, <1>2, WriterEnds DEF Tasks
<1>4. TypeOK'
  BY <1>0, <1>2, <1>3 DEF TypeOK, Tasks
<1>5. Shapes'
  BY <1>0 DEF Shapes, Leased, Pending, Reserved
<1>6. Compatible'
  BY <1>0, <1>3 DEF Compatible, Leased, Pending, Reserved, Quiet, TypeOK
<1>7. SingleAttempt'
  BY <1>0, <1>1, <1>2 DEF SingleAttempt, LiveGuards, GuardLive, Owns, Tasks
<1>8. PendingOwnersLive'
  BY <1>0, <1>1, <1>2 DEF PendingOwnersLive, Tasks, TypeOK, Pending, Leased, Reserved
<1> QED
  BY <1>3, <1>4, <1>5, <1>6, <1>7, <1>8 DEF FenceInv

\* A snapshot is admitted beside an idle durable lease, never an attempt.
LEMMA BeginAnalysisInv ==
    ASSUME FenceInv, NEW a \in Analysts, BeginAnalysis(a)
    PROVE  FenceInv'
<1> USE CoordinatorAssumption DEF admissionUnchanged
<1>0. TypeOK /\ Shapes /\ Counters /\ Compatible /\ SingleAttempt /\ PendingOwnersLive
  BY DEF FenceInv
<1>1. a \in Tasks /\ a \notin Callers /\ phase[a] # "active" /\ Lapsed \in BOOLEAN
  BY <1>0 DEF Tasks, BeginAnalysis, Lapsed, TypeOK
<1>2. CASE ~AnalysisOpen
  BY <1>1, <1>2, RefusedTaskInv DEF BeginAnalysis
<1>3. CASE AnalysisOpen
  <2>1. /\ phase' \in [Tasks -> Phases]
        /\ phase'[a] = "active"
        /\ \A u \in Tasks \ {a} : phase'[u] = IF Lapsed /\ phase[u] = "parked"
                                            THEN "woken" ELSE phase[u]
    BY <1>0, <1>1, <1>3, MoveEffect DEF BeginAnalysis, Phases
  <2>2. TypeOK'
    BY <1>0, <1>3, <2>1, ExpireType DEF BeginAnalysis, TypeOK, Tasks
  <2>3. Shapes'
    BY <1>0, <1>3 DEF BeginAnalysis, Shapes, ExpireReservation, Leased,
       Pending, Reserved, NoReservation, Lapsed
  <2>4. Counters'
    BY <1>0, <1>1, <1>3, <2>1, AnalystStarts DEF BeginAnalysis, Tasks
  <2>5. Compatible'
    BY <1>0, <1>3 DEF BeginAnalysis, AnalysisOpen, RepairAllowsAnalysis,
       Compatible, Shapes, ExpireReservation, Leased, Pending, Reserved,
       NoReservation, Lapsed, StillReserved, Quiet, TypeOK
  <2>6. SingleAttempt'
    BY <1>0, <1>1, <1>3, <2>1
       DEF BeginAnalysis, SingleAttempt, LiveGuards, GuardLive, Owns, Tasks
  <2>7. PendingOwnersLive'
    BY <1>0, <1>1, <1>3, <2>1
       DEF BeginAnalysis, AnalysisOpen, PendingOwnersLive, Shapes, Tasks,
           TypeOK, Pending, Leased, Reserved
  <2> QED
    BY <2>2, <2>3, <2>4, <2>5, <2>6, <2>7 DEF FenceInv
<1> QED
  BY <1>2, <1>3

\* A snapshot that ends leaves a counter that still counts the others.
LEMMA EndAnalysisInv ==
    ASSUME FenceInv, NEW a \in Analysts, EndAnalysis(a)
    PROVE  FenceInv'
<1> USE CoordinatorAssumption DEF EndAnalysis, admissionUnchanged
<1>0. TypeOK /\ Shapes /\ Counters /\ Compatible /\ SingleAttempt /\ PendingOwnersLive
  BY DEF FenceInv
<1>1. a \in Tasks /\ a \notin Callers
  BY DEF Tasks
<1>2. /\ phase' \in [Tasks -> Phases]
      /\ phase'[a] = "idle"
      /\ \A u \in Tasks \ {a} :
            phase'[u] = IF phase[u] = "parked" THEN "woken" ELSE phase[u]
  BY <1>0, <1>1, MoveEffect DEF Phases
<1>3. Counters' /\ active_analysis # 0
  BY <1>0, <1>2, AnalystEnds DEF Tasks
<1>4. TypeOK'
  BY <1>0, <1>2, <1>3 DEF TypeOK, Tasks
<1>5. Shapes'
  BY <1>0 DEF Shapes, Leased, Pending, Reserved
<1>6. Compatible'
  BY <1>0, <1>3 DEF Compatible, Leased, Pending, Reserved, Quiet, TypeOK
<1>7. SingleAttempt'
  BY <1>0, <1>1, <1>2 DEF SingleAttempt, LiveGuards, GuardLive, Owns, Tasks
<1>8. PendingOwnersLive'
  BY <1>0, <1>1, <1>2 DEF PendingOwnersLive, Tasks, TypeOK, Pending, Leased, Reserved
<1> QED
  BY <1>3, <1>4, <1>5, <1>6, <1>7, <1>8 DEF FenceInv

\* A dropped waiting future of a writer or a snapshot leaves no trace.
LEMMA CancelAdmissionInv ==
    ASSUME FenceInv, NEW t \in Writers \cup Analysts, CancelAdmission(t)
    PROVE  FenceInv'
  BY RefusedTaskInv DEF CancelAdmission

-----------------------------------------------------------------------------
(* Acquiring and registering *)

\* A refused acquisition changes no lease; a registered caller is leaving.
LEMMA RefuseRepairInv ==
    ASSUME FenceInv, NEW c \in Callers, NEW r \in Requests, RefuseRepair(c, r)
    PROVE  FenceInv'
<1> USE CoordinatorAssumption DEF admissionUnchanged
<1>1. TypeOK /\ Shapes /\ PendingOwnersLive
  BY DEF FenceInv
<1>2. /\ c \in Tasks /\ Lapsed \in BOOLEAN
      /\ c \notin Writers \cup Analysts
      /\ phase[c] \in {"idle", "woken"}
  BY <1>1 DEF Tasks, Lapsed, TypeOK, RefuseRepair, Looks
<1>3. /\ phase' \in [Tasks -> Phases]
      /\ phase'[c] = IF phase[c] = "idle" THEN "idle" ELSE "leaving"
      /\ \A u \in Tasks \ {c} : phase'[u] = IF Lapsed /\ phase[u] = "parked"
                                          THEN "woken" ELSE phase[u]
  BY <1>1, <1>2, MoveEffect DEF RefuseRepair, Phases
<1>4. TypeOK'
  BY <1>1, <1>2, <1>3, ExpireType DEF RefuseRepair, TypeOK, Tasks
<1>5. Reserved' => Reserved /\ reserved_repair'.next_apply \in Requests
  BY <1>1 DEF RefuseRepair, Shapes, ExpireReservation, Reserved, NoReservation
<1> QED
  BY <1>1, <1>2, <1>3, <1>4, <1>5, FrameInv
     DEF RefuseRepair, GuardLive, Tasks, PendingOwnersLive, TypeOK

\* WithoutOwner removes exactly one owner and leaves no ownerless pending.
LEMMA WithoutOwnerEffect ==
    ASSUME NEW pending \in [manifest : Manifests \cup {NoManifest},
                            owners : SUBSET Callers],
           NEW m \in Manifests, NEW c \in Callers,
           pending.manifest = NoManifest <=> pending.owners = {}
    PROVE  LET after == WithoutOwner(pending, m, c) IN
           /\ after \in [manifest : Manifests \cup {NoManifest},
                         owners : SUBSET Callers]
           /\ after.manifest = NoManifest <=> after.owners = {}
           /\ after.manifest \in {pending.manifest, NoManifest}
           /\ after.owners \subseteq pending.owners
           /\ pending.manifest = m => c \notin after.owners
           /\ pending.owners \ {c} \subseteq after.owners
<1> DEFINE after == WithoutOwner(pending, m, c)
<1> USE CoordinatorAssumption DEF WithoutOwner, NoPending
<1>1. CASE pending.manifest # m
  BY <1>1
<1>2. CASE pending.manifest = m /\ pending.owners \ {c} = {}
  BY <1>2
<1>3. CASE pending.manifest = m /\ pending.owners \ {c} # {}
  <2>1. after = [pending EXCEPT !.owners = pending.owners \ {c}]
    BY <1>3
  <2>2. after.manifest = m /\ after.owners = pending.owners \ {c}
    BY <1>3, <2>1
  <2> QED
    BY <1>3, <2>1, <2>2
<1> QED
  BY <1>1, <1>2, <1>3

\* A grant needs no attempt to be active, so the new guard is the only one.
LEMMA GrantInv ==
    ASSUME FenceInv, NEW c \in Callers, NEW m \in Manifests,
           NEW durable \in BOOLEAN, GrantAttempt(c, m, durable),
           phase[c] \in {"idle", "woken"},
           repair_lease.attempt = 0, ~Reserved', runtime_resumption = "none",
           active_background = 0, active_analysis = 0,
           TypeOK', phase'[c] = "active",
           \A u \in Tasks \ {c} :
              \/ phase'[u] = phase[u]
              \/ phase[u] = "parked" /\ phase'[u] = "woken",
           Pending' <=> pending_repair'.owners # {},
           pending_repair'.manifest \in {m, NoManifest},
           pending_repair'.owners \subseteq pending_repair.owners \ {c},
           Pending' => pending_repair'.manifest = pending_repair.manifest,
           \A d \in Callers \ {c} : request'[d] = request[d],
           UNCHANGED <<active_background, active_analysis, runtime_resumption>>
    PROVE  FenceInv'
<1> USE CoordinatorAssumption
<1>0. TypeOK /\ Shapes /\ Counters /\ Compatible /\ SingleAttempt /\ PendingOwnersLive
  BY DEF FenceInv
<1> DEFINE token == Issue(next_repair_attempt)
<1>1. token \in Tokens /\ token # 0
  BY <1>0, IssueType DEF TypeOK
<1>2. /\ repair_lease'.manifest = m /\ repair_lease'.attempt = token
      /\ guard'[c].manifest = m /\ guard'[c].token = token
      /\ \A d \in Callers \ {c} : guard'[d] = guard[d]
  BY <1>0 DEF GrantAttempt, TypeOK
<1>3. LiveGuards = {} /\ LiveGuards' = {c}
  BY <1>0 DEF SingleAttempt, LiveGuards, GuardLive, Owns, Tasks
<1>4. Shapes'
  BY <1>0, <1>1, <1>2 DEF Shapes, Leased
<1>5. Counters'
  BY <1>0, CountersFrame DEF Tasks
<1>6. Compatible'
  BY <1>0 DEF Compatible
<1>7. SingleAttempt'
  BY <1>1, <1>2, <1>3 DEF SingleAttempt, Owns
<1>8. PendingOwnersLive'
  BY <1>0, <1>2 DEF PendingOwnersLive, Pending, Leased, Tasks, TypeOK
<1> QED
  BY <1>4, <1>5, <1>6, <1>7, <1>8 DEF FenceInv

\* The reserved request takes the fence: the reservation excludes every
\* writer, snapshot and lease, so the attempt is alone.
LEMMA ConsumeReservationInv ==
    ASSUME FenceInv, NEW c \in Callers, NEW r \in Requests,
           ConsumeReservation(c, r)
    PROVE  FenceInv'
<1> USE CoordinatorAssumption DEF grantUnchanged
<1>0. TypeOK /\ Shapes /\ Compatible /\ PendingOwnersLive
  BY DEF FenceInv
<1>1. /\ Reserved /\ ~Leased /\ ~Pending
      /\ active_background = 0 /\ active_analysis = 0
      /\ repair_lease.attempt = 0 /\ runtime_resumption = "none"
  BY <1>0 DEF ConsumeReservation, AcquireRefused, AcquireSealed, StillReserved,
              PendingOwnersLive, Shapes, Compatible
<1>2. /\ pending_repair' = pending_repair /\ pending_repair.owners = {}
      /\ r.manifest \in Manifests
  BY <1>0, <1>1 DEF ConsumeReservation, WithoutOwner, Pending, Shapes, Requests
<1>3. c \in Tasks /\ phase[c] \in {"idle", "woken"} /\ c \notin Writers \cup Analysts
  BY DEF Tasks, ConsumeReservation, Looks
<1>4. /\ phase' \in [Tasks -> Phases] /\ phase'[c] = "active"
      /\ \A u \in Tasks \ {c} : phase'[u] = phase[u]
  BY <1>0, <1>2, <1>3, MoveEffect DEF ConsumeReservation, Phases
<1>5. Issue(next_repair_attempt) \in 0..TokenLimit
  BY <1>0, IssueType DEF TypeOK
<1>6. TypeOK'
  BY <1>0, <1>2, <1>3, <1>4, <1>5
     DEF ConsumeReservation, GrantAttempt, TypeOK, NoReservation, Tasks
<1>7. ~Reserved'
  BY DEF ConsumeReservation, Reserved, NoReservation
<1> QED
  BY <1>0, <1>1, <1>2, <1>3, <1>4, <1>6, <1>7, GrantInv
     DEF ConsumeReservation, Pending, TypeOK

\* A retry takes an idle durable lease, so no other attempt is live.
LEMMA RetryDurableInv ==
    ASSUME FenceInv, NEW c \in Callers, NEW r \in Requests, RetryDurable(c, r)
    PROVE  FenceInv'
<1> USE CoordinatorAssumption DEF grantUnchanged
<1>0. TypeOK /\ Shapes /\ Compatible /\ PendingOwnersLive
  BY DEF FenceInv
<1>1. /\ Leased /\ ~Reserved /\ repair_lease.manifest = r.manifest
      /\ active_background = 0 /\ active_analysis = 0
      /\ repair_lease.attempt = 0 /\ runtime_resumption = "none"
      /\ r.manifest \in Manifests
  BY <1>0 DEF RetryDurable, AcquireRefused, AcquireSealed, LeaseBusy,
              Compatible, Requests
<1>2. /\ pending_repair' \in [manifest : Manifests \cup {NoManifest},
                               owners : SUBSET Callers]
      /\ Pending' <=> pending_repair'.owners # {}
      /\ pending_repair'.manifest \in {pending_repair.manifest, NoManifest}
      /\ pending_repair'.manifest \in {r.manifest, NoManifest}
      /\ pending_repair'.owners \subseteq pending_repair.owners \ {c}
  BY <1>0, <1>1, WithoutOwnerEffect
     DEF RetryDurable, TypeOK, Shapes, Pending, PendingOwnersLive
<1>3. /\ c \in Tasks /\ phase[c] \in {"idle", "woken"}
      /\ c \notin Writers \cup Analysts /\ ~Lapsed /\ Lapsed \in BOOLEAN
  BY <1>0, <1>1 DEF Tasks, RetryDurable, Looks, Lapsed, TypeOK
<1>4. /\ phase' \in [Tasks -> Phases] /\ phase'[c] = "active"
      /\ \A u \in Tasks \ {c} : phase'[u] = phase[u]
  BY <1>0, <1>3, MoveEffect DEF RetryDurable, Phases
<1>5. Issue(next_repair_attempt) \in 0..TokenLimit
  BY <1>0, IssueType DEF TypeOK
<1>6. TypeOK'
  BY <1>0, <1>1, <1>2, <1>3, <1>4, <1>5, ExpireType
     DEF RetryDurable, GrantAttempt, TypeOK, Tasks
<1>7. ~Reserved'
  BY <1>1 DEF RetryDurable, ExpireReservation, Lapsed, Reserved
<1> QED
  BY <1>0, <1>1, <1>2, <1>3, <1>4, <1>6, <1>7, GrantInv
     DEF RetryDurable, Pending, TypeOK

\* A provisional lease starts only when no writer and no snapshot is left.
LEMMA TakeProvisionalInv ==
    ASSUME FenceInv, NEW c \in Callers, NEW r \in Requests, TakeProvisional(c, r)
    PROVE  FenceInv'
<1> USE CoordinatorAssumption DEF grantUnchanged
<1>0. TypeOK /\ Shapes /\ Compatible /\ PendingOwnersLive
  BY DEF FenceInv
<1>1. /\ ~Leased /\ active_background = 0 /\ active_analysis = 0
      /\ repair_lease.attempt = 0 /\ runtime_resumption = "none"
      /\ r.manifest \in Manifests
      /\ pending_repair.manifest \in {NoManifest, r.manifest}
  BY <1>0 DEF TakeProvisional, AcquireRefused, AcquireSealed, Shapes, Requests
<1> DEFINE with == WithOwner(pending_repair, r.manifest, c)
<1>2. /\ with \in [manifest : Manifests \cup {NoManifest},
                    owners : SUBSET Callers]
      /\ with.manifest = r.manifest
      /\ with.owners = pending_repair.owners \cup {c}
  BY <1>0, <1>1 DEF WithOwner, TypeOK
<1>3. /\ pending_repair' \in [manifest : Manifests \cup {NoManifest},
                               owners : SUBSET Callers]
      /\ pending_repair'.manifest = NoManifest <=> pending_repair'.owners = {}
      /\ pending_repair'.manifest \in {r.manifest, NoManifest}
      /\ pending_repair'.owners \subseteq with.owners
      /\ c \notin pending_repair'.owners
  <2>1. with.manifest = NoManifest <=> with.owners = {}
    BY <1>1, <1>2
  <2>2. pending_repair' = WithoutOwner(with, r.manifest, c)
    BY DEF TakeProvisional
  <2> HIDE DEF with
  <2> QED
    BY <1>1, <1>2, <2>1, <2>2, WithoutOwnerEffect
<1>4. Pending' => pending_repair'.manifest = pending_repair.manifest
  BY <1>0, <1>1, <1>2, <1>3 DEF Pending, Shapes
<1>5. /\ c \in Tasks /\ phase[c] \in {"idle", "woken"} /\ Lapsed \in BOOLEAN
      /\ c \notin Writers \cup Analysts
  BY <1>0 DEF Tasks, TakeProvisional, Looks, Lapsed, TypeOK
<1>6. /\ phase' \in [Tasks -> Phases] /\ phase'[c] = "active"
      /\ \A u \in Tasks \ {c} : phase'[u] = IF Lapsed /\ phase[u] = "parked"
                                          THEN "woken" ELSE phase[u]
  BY <1>0, <1>5, MoveEffect DEF TakeProvisional, Phases
<1>7. Issue(next_repair_attempt) \in 0..TokenLimit
  BY <1>0, IssueType DEF TypeOK
<1>8. TypeOK'
  BY <1>0, <1>1, <1>3, <1>5, <1>6, <1>7, ExpireType
     DEF TakeProvisional, GrantAttempt, TypeOK, Tasks
<1>9. ~Reserved'
  BY <1>0 DEF TakeProvisional, ExpireReservation, Lapsed, StillReserved,
              Reserved, NoReservation, TypeOK
<1>10. pending_repair'.owners \subseteq pending_repair.owners \ {c}
  BY <1>2, <1>3
<1> HIDE DEF with
<1> QED
  BY <1>0, <1>1, <1>3, <1>4, <1>5, <1>6, <1>8, <1>9, <1>10, GrantInv
     DEF TakeProvisional, Pending, TypeOK

\* A verification takes an idle durable lease, so it is the only attempt.
LEMMA AcquireVerificationInv ==
    ASSUME FenceInv, NEW c \in Callers, NEW m \in Manifests,
           AcquireVerification(c, m)
    PROVE  FenceInv'
<1> USE CoordinatorAssumption DEF grantUnchanged
<1>0. TypeOK /\ Shapes /\ Compatible /\ PendingOwnersLive
  BY DEF FenceInv
<1>1. /\ Leased /\ ~Reserved /\ repair_lease.manifest = m
      /\ active_background = 0 /\ active_analysis = 0
      /\ repair_lease.attempt = 0 /\ runtime_resumption = "none"
  BY <1>0 DEF AcquireVerification, LeaseBusy, Compatible, Leased
<1>2. c \in Tasks /\ phase[c] = "idle" /\ c \notin Writers \cup Analysts
  BY DEF Tasks, AcquireVerification
<1>3. /\ phase' \in [Tasks -> Phases] /\ phase'[c] = "active"
      /\ \A u \in Tasks \ {c} : phase'[u] = phase[u]
  BY <1>0, <1>2, MoveEffect DEF AcquireVerification, Phases
<1>4. Issue(next_repair_attempt) \in 0..TokenLimit
  BY <1>0, IssueType DEF TypeOK
<1>5. TypeOK'
  BY <1>0, <1>2, <1>3, <1>4
     DEF AcquireVerification, GrantAttempt, TypeOK, Tasks
<1>6. c \notin pending_repair.owners
  BY <1>0, <1>2 DEF PendingOwnersLive
<1> QED
  BY <1>0, <1>1, <1>2, <1>3, <1>5, <1>6, GrantInv
     DEF AcquireVerification, Pending, Reserved, Shapes, PendingOwnersLive

\* A caller that has to wait becomes an owner of the pending repair.
LEMMA RegisterAndWaitInv ==
    ASSUME FenceInv, NEW c \in Callers, NEW r \in Requests, RegisterAndWait(c, r)
    PROVE  FenceInv'
<1> USE CoordinatorAssumption DEF grantUnchanged
<1>0. TypeOK /\ Shapes /\ Counters /\ Compatible /\ SingleAttempt /\ PendingOwnersLive
  BY DEF FenceInv
<1>1. /\ ~Leased
      /\ active_background # 0 \/ active_analysis # 0
      /\ runtime_resumption = "none"
      /\ r.manifest \in Manifests
      /\ pending_repair.manifest \in {NoManifest, r.manifest}
  BY <1>0 DEF RegisterAndWait, AcquireRefused, AcquireSealed, Requests
<1>2. /\ pending_repair'.manifest = r.manifest
      /\ pending_repair'.owners = pending_repair.owners \cup {c}
      /\ pending_repair' \in [manifest : Manifests \cup {NoManifest},
                               owners : SUBSET Callers]
  BY <1>0, <1>1 DEF RegisterAndWait, WithOwner, TypeOK
<1>3. /\ c \in Tasks /\ phase[c] \in {"idle", "woken"} /\ Lapsed \in BOOLEAN
      /\ c \notin Writers \cup Analysts
  BY <1>0 DEF Tasks, RegisterAndWait, Looks, Lapsed, TypeOK
<1>4. /\ phase' \in [Tasks -> Phases] /\ phase'[c] \in {"parked", "woken"}
      /\ \A u \in Tasks \ {c} : phase'[u] = IF Lapsed /\ phase[u] = "parked"
                                          THEN "woken" ELSE phase[u]
  BY <1>0, <1>3, MoveEffect DEF RegisterAndWait, Phases
<1>5. TypeOK'
  BY <1>0, <1>1, <1>2, <1>3, <1>4, ExpireType DEF RegisterAndWait, TypeOK, Tasks
<1>6. ~Reserved'
  BY <1>0 DEF RegisterAndWait, ExpireReservation, Lapsed, StillReserved,
              Reserved, NoReservation, TypeOK
<1>7. Shapes'
  BY <1>0, <1>1, <1>2, <1>6 DEF RegisterAndWait, Shapes, Leased, Pending
<1>8. Counters'
  BY <1>0, <1>3, <1>4, CountersFrame DEF RegisterAndWait, Tasks
<1>9. Compatible'
  BY <1>0, <1>1, <1>6 DEF RegisterAndWait, Compatible, Leased
<1>10. SingleAttempt'
  BY <1>0, <1>3, <1>4
     DEF RegisterAndWait, SingleAttempt, LiveGuards, GuardLive, Owns, Tasks
<1>11. PendingOwnersLive'
  <2>1. \A d \in pending_repair'.owners :
          /\ phase'[d] \in {"parked", "woken", "leaving"}
          /\ request'[d].manifest = pending_repair'.manifest
    BY <1>0, <1>1, <1>2, <1>4
       DEF RegisterAndWait, PendingOwnersLive, Shapes, Pending, TypeOK, Tasks
  <2> QED
    BY <1>1, <1>2, <1>6, <2>1 DEF RegisterAndWait, PendingOwnersLive, Leased
<1> QED
  BY <1>5, <1>7, <1>8, <1>9, <1>10, <1>11 DEF FenceInv

\* A dropped registration takes its owner out, and the pending repair with
\* the last one.
LEMMA DropRegistrationInv ==
    ASSUME FenceInv, NEW c \in Callers, DropRegistration(c)
    PROVE  FenceInv'
<1> USE CoordinatorAssumption DEF grantUnchanged
<1>0. TypeOK /\ Shapes /\ Counters /\ Compatible /\ SingleAttempt /\ PendingOwnersLive
  BY DEF FenceInv
<1> DEFINE m == request[c].manifest
<1>1. /\ pending_repair' \in [manifest : Manifests \cup {NoManifest},
                               owners : SUBSET Callers]
      /\ pending_repair'.manifest = NoManifest <=> pending_repair'.owners = {}
      /\ pending_repair'.manifest \in {pending_repair.manifest, NoManifest}
      /\ pending_repair'.owners \subseteq pending_repair.owners
      /\ c \notin pending_repair'.owners
  <2>1. CASE m \in Manifests
    <3>1. c \in pending_repair.owners => pending_repair.manifest = m
      BY <1>0 DEF PendingOwnersLive
    <3> QED
      BY <1>0, <2>1, <3>1, WithoutOwnerEffect
         DEF DropRegistration, TypeOK, Shapes, Pending
  <2>2. CASE m = NoManifest
    <3>1. c \notin pending_repair.owners
      BY <1>0, <2>2 DEF PendingOwnersLive, Shapes, Pending
    <3> QED
      BY <1>0, <2>2, <3>1
         DEF DropRegistration, WithoutOwner, NoPending, TypeOK, Shapes, Pending
  <2> QED
    BY <1>0, <2>1, <2>2 DEF TypeOK, Requests, NoRequest
<1>2. c \in Tasks /\ c \notin Writers \cup Analysts
  BY DEF Tasks
<1>3. PICK notify \in BOOLEAN : Move(c, "idle", notify)
  BY DEF DropRegistration
<1>4. /\ phase' \in [Tasks -> Phases] /\ phase'[c] = "idle"
      /\ \A u \in Tasks \ {c} : phase'[u] = IF notify /\ phase[u] = "parked"
                                          THEN "woken" ELSE phase[u]
  BY <1>0, <1>2, <1>3, MoveEffect DEF Phases
<1>5. TypeOK'
  BY <1>0, <1>1, <1>2, <1>4 DEF DropRegistration, TypeOK, Tasks
<1>6. Shapes'
  BY <1>0, <1>1 DEF DropRegistration, Shapes, Leased, Pending, Reserved
<1>7. Counters'
  BY <1>0, <1>2, <1>4, CountersFrame DEF DropRegistration, Tasks
<1>8. Compatible'
  BY <1>0, <1>1
     DEF DropRegistration, Compatible, Leased, Reserved, Quiet, Pending, TypeOK
<1>9. SingleAttempt'
  BY <1>0, <1>2, <1>4
     DEF DropRegistration, SingleAttempt, LiveGuards, GuardLive, Owns, Tasks
<1>10. PendingOwnersLive'
  <2>1. \A d \in pending_repair'.owners :
          /\ phase'[d] \in {"parked", "woken", "leaving"}
          /\ request'[d].manifest = pending_repair'.manifest
    BY <1>0, <1>1, <1>4
       DEF DropRegistration, PendingOwnersLive, TypeOK, Tasks
  <2> QED
    BY <1>0, <1>1, <2>1
       DEF DropRegistration, PendingOwnersLive, Pending, Leased, Reserved
<1> QED
  BY <1>5, <1>6, <1>7, <1>8, <1>9, <1>10 DEF FenceInv

-----------------------------------------------------------------------------
(* Settling an attempt *)

\* The guard of the only live attempt goes away; the lease is idle or gone,
\* and any reservation that replaces it finds the fence empty.
LEMMA SettleInv ==
    ASSUME FenceInv, NEW c \in Callers, GuardLive(c), TypeOK',
           NEW notify \in BOOLEAN, Settle(c, notify),
           repair_lease'.attempt = 0,
           Leased' => repair_lease'.durable /\ ~Reserved'
                      /\ repair_lease'.manifest = repair_lease.manifest,
           pending_repair' \in {pending_repair, NoPending},
           Reserved' => /\ reserved_repair'.next_apply \in Requests
                        /\ ~Pending',
           UNCHANGED <<active_background, active_analysis, runtime_resumption>>
    PROVE  FenceInv'
<1> USE CoordinatorAssumption
<1>0. TypeOK /\ Shapes /\ Counters /\ Compatible /\ SingleAttempt /\ PendingOwnersLive
  BY DEF FenceInv
<1>1. /\ Owns(c) /\ repair_lease.attempt # 0 /\ Leased
      /\ LiveGuards = {c}
  BY <1>0 DEF SingleAttempt, LiveGuards, Owns, Shapes
<1>2. c \in Tasks /\ c \notin Writers \cup Analysts
  BY DEF Tasks
<1>3. /\ phase'[c] = "idle"
      /\ \A u \in Tasks \ {c} : phase'[u] = IF notify /\ phase[u] = "parked"
                                          THEN "woken" ELSE phase[u]
  BY <1>0, <1>2, MoveEffect DEF Settle, Phases
<1>4. LiveGuards' = {}
  BY <1>1, <1>2, <1>3 DEF LiveGuards, GuardLive, Tasks
<1>5. Shapes'
  BY <1>0 DEF Shapes, Leased, Pending, NoPending
<1>6. Counters'
  BY <1>0, <1>2, <1>3, CountersFrame DEF Tasks
<1>7. /\ active_background = 0 /\ active_analysis = 0
      /\ runtime_resumption = "none"
  BY <1>0, <1>1 DEF Compatible, Quiet
<1>8. Compatible'
  BY <1>7 DEF Compatible
<1>9. SingleAttempt'
  BY <1>4 DEF SingleAttempt
<1>10. PendingOwnersLive'
  <2>1. c \notin pending_repair.owners
    BY <1>0 DEF PendingOwnersLive, GuardLive
  <2>2. \A d \in pending_repair'.owners :
          /\ phase'[d] \in {"parked", "woken", "leaving"}
          /\ request'[d].manifest = pending_repair'.manifest
    BY <1>0, <1>3, <2>1
       DEF Settle, PendingOwnersLive, TypeOK, Tasks, NoPending
  <2> QED
    BY <1>0, <1>1, <1>5, <2>2 DEF PendingOwnersLive, Pending, Leased, Shapes, NoPending
<1> QED
  BY <1>5, <1>6, <1>8, <1>9, <1>10 DEF FenceInv

\* The types of the parts that every settling operation writes.
LEMMA SettleType ==
    ASSUME FenceInv, NEW c \in Callers, NEW notify \in BOOLEAN,
           GuardLive(c), Settle(c, notify)
    PROVE  /\ phase' \in [Tasks -> Phases]
           /\ \A t \in Writers \cup Analysts :
                 phase'[t] \notin {"leaving", "dropping"}
           /\ request' \in [Callers -> Requests \cup {NoRequest}]
           /\ guard' \in [Callers -> [manifest : Manifests \cup {NoManifest},
                                      token : 0..TokenLimit, retain : BOOLEAN]]
           /\ NoLease \in [manifest : Manifests \cup {NoManifest},
                           durable : BOOLEAN, attempt : 0..TokenLimit]
           /\ NoPending \in [manifest : Manifests \cup {NoManifest},
                             owners : SUBSET Callers]
           /\ IdleDurable \in [manifest : Manifests \cup {NoManifest},
                               durable : BOOLEAN, attempt : 0..TokenLimit]
           /\ Owns(c) /\ ~Reserved /\ Leased
           /\ guard[c].manifest = repair_lease.manifest
<1> USE CoordinatorAssumption
<1>0. TypeOK /\ Shapes /\ Compatible /\ SingleAttempt
  BY DEF FenceInv
<1>1. c \in Tasks /\ c \notin Writers \cup Analysts
  BY DEF Tasks
<1>2. /\ phase' \in [Tasks -> Phases]
      /\ \A t \in Writers \cup Analysts :
            phase'[t] \notin {"leaving", "dropping"}
  BY <1>0, <1>1, MoveEffect DEF Settle, Phases, TypeOK, Tasks
<1>3. /\ request' \in [Callers -> Requests \cup {NoRequest}]
      /\ guard' \in [Callers -> [manifest : Manifests \cup {NoManifest},
                                 token : 0..TokenLimit, retain : BOOLEAN]]
  BY <1>0 DEF Settle, TypeOK, NoGuard
<1>4. /\ NoLease \in [manifest : Manifests \cup {NoManifest},
                      durable : BOOLEAN, attempt : 0..TokenLimit]
      /\ NoPending \in [manifest : Manifests \cup {NoManifest},
                        owners : SUBSET Callers]
      /\ IdleDurable \in [manifest : Manifests \cup {NoManifest},
                          durable : BOOLEAN, attempt : 0..TokenLimit]
  BY <1>0 DEF NoLease, NoPending, IdleDurable, TypeOK
<1>5. Owns(c) /\ ~Reserved /\ Leased
  BY <1>0 DEF SingleAttempt, LiveGuards, Owns, Shapes, Compatible
<1> QED
  BY <1>2, <1>3, <1>4, <1>5 DEF Owns

\* Retaining leaves an idle durable lease.
LEMMA RetainUntilVerificationInv ==
    ASSUME FenceInv, NEW c \in Callers, RetainUntilVerification(c)
    PROVE  FenceInv'
<1> USE DEF settleUnchanged
<1>1. GuardLive(c) /\ Settle(c, TRUE) /\ TypeOK
  BY DEF RetainUntilVerification, GuardLive, FenceInv
<1>2. TypeOK'
  BY <1>1, SettleType DEF RetainUntilVerification, TypeOK, WithoutManifest
<1>3. /\ repair_lease'.attempt = 0 /\ repair_lease'.durable
      /\ repair_lease'.manifest = repair_lease.manifest
  BY <1>1 DEF RetainUntilVerification, IdleDurable, TypeOK
<1>4. ~Reserved' /\ pending_repair' \in {pending_repair, NoPending}
  BY <1>1, SettleType DEF RetainUntilVerification, Reserved, WithoutManifest
<1> QED
  BY <1>1, <1>2, <1>3, <1>4, SettleInv DEF RetainUntilVerification

\* Releasing after a failure leaves no lease, or the idle lease of the claim.
LEMMA ReleaseAfterPrecommitFailureInv ==
    ASSUME FenceInv, NEW c \in Callers, ReleaseAfterPrecommitFailure(c)
    PROVE  FenceInv'
<1> USE DEF settleUnchanged
<1>1. GuardLive(c) /\ Settle(c, TRUE) /\ TypeOK
  BY DEF ReleaseAfterPrecommitFailure, GuardLive, FenceInv
<1>2. TypeOK'
  BY <1>1, SettleType DEF ReleaseAfterPrecommitFailure, TypeOK, WithoutManifest
<1>3. /\ repair_lease'.attempt = 0
      /\ Leased' => /\ repair_lease'.durable
                    /\ repair_lease'.manifest = repair_lease.manifest
  BY <1>1 DEF ReleaseAfterPrecommitFailure, IdleDurable, TypeOK, Leased, NoLease
<1>4. ~Reserved' /\ pending_repair' \in {pending_repair, NoPending}
  BY <1>1, SettleType DEF ReleaseAfterPrecommitFailure, Reserved, WithoutManifest
<1> QED
  BY <1>1, <1>2, <1>3, <1>4, SettleInv DEF ReleaseAfterPrecommitFailure

\* Releasing after verification leaves no lease.
LEMMA ReleaseAfterVerificationInv ==
    ASSUME FenceInv, NEW c \in Callers, ReleaseAfterVerification(c)
    PROVE  FenceInv'
<1> USE DEF settleUnchanged
<1>1. GuardLive(c) /\ Settle(c, TRUE) /\ TypeOK
  BY DEF ReleaseAfterVerification, GuardLive, FenceInv
<1>2. TypeOK'
  BY <1>1, SettleType DEF ReleaseAfterVerification, TypeOK, WithoutManifest
<1>3. repair_lease'.attempt = 0 /\ ~Leased'
  BY <1>1 DEF ReleaseAfterVerification, Leased, NoLease
<1>4. ~Reserved' /\ pending_repair' \in {pending_repair, NoPending}
  BY <1>1, SettleType DEF ReleaseAfterVerification, Reserved, WithoutManifest
<1> QED
  BY <1>1, <1>2, <1>3, <1>4, SettleInv DEF ReleaseAfterVerification

\* A handoff replaces the lease by a reservation in one step.
LEMMA HandoffAfterVerificationInv ==
    ASSUME FenceInv, NEW c \in Callers, NEW next \in Requests,
           HandoffAfterVerification(c, next)
    PROVE  FenceInv'
<1> USE DEF settleUnchanged
<1>1. /\ GuardLive(c) /\ Settle(c, FALSE) /\ TypeOK /\ Shapes
      /\ PendingOwnersLive
  BY DEF HandoffAfterVerification, GuardLive, FenceInv
<1>2. Issue(next_reservation) \in Tokens /\ Issue(next_reservation) \in 0..TokenLimit
  BY <1>1, IssueType DEF TypeOK
<1>3. TypeOK'
  BY <1>1, <1>2, SettleType
     DEF HandoffAfterVerification, TypeOK, WithoutManifest
<1>4. repair_lease'.attempt = 0 /\ ~Leased'
  BY <1>1 DEF HandoffAfterVerification, Leased, NoLease
<1>5. pending_repair' \in {pending_repair, NoPending} /\ ~Pending'
  BY <1>1, SettleType
     DEF HandoffAfterVerification, WithoutManifest, NoPending, Pending,
         PendingOwnersLive, Leased, Owns
<1>6. reserved_repair'.next_apply \in Requests
  BY DEF HandoffAfterVerification
<1> QED
  BY <1>1, <1>3, <1>4, <1>5, <1>6, SettleInv DEF HandoffAfterVerification

\* A dropped guard leaves its lease idle and durable, or none.
LEMMA DropGuardInv ==
    ASSUME FenceInv, NEW c \in Callers, DropGuard(c)
    PROVE  FenceInv'
<1> USE DEF settleUnchanged
<1>1. GuardLive(c) /\ TypeOK
  BY DEF DropGuard, FenceInv
<1>2. Owns(c) /\ Settle(c, TRUE)
  BY <1>1 DEF DropGuard, FenceInv, SingleAttempt, LiveGuards
<1>3. TypeOK'
  BY <1>1, <1>2, SettleType DEF DropGuard, TypeOK
<1>4. /\ repair_lease'.attempt = 0
      /\ Leased' => /\ repair_lease'.durable
                    /\ repair_lease'.manifest = repair_lease.manifest
  BY <1>1, <1>2 DEF DropGuard, IdleDurable, TypeOK, Leased, NoLease
<1>5. ~Reserved' /\ pending_repair' = pending_repair
  BY <1>1, <1>2, SettleType DEF DropGuard, Reserved
<1> QED
  BY <1>1, <1>2, <1>3, <1>4, <1>5, SettleInv DEF DropGuard

\* Marking a guard touches nothing the invariant speaks of.
LEMMA RetainOnUncertainDropInv ==
    ASSUME FenceInv, NEW c \in Callers, RetainOnUncertainDrop(c)
    PROVE  FenceInv'
<1> USE DEF RetainOnUncertainDrop, coordinatorVars
<1>1. TypeOK /\ Shapes /\ PendingOwnersLive
  BY DEF FenceInv
<1>2. TypeOK'
  <2>1. guard' \in [Callers -> [manifest : Manifests \cup {NoManifest},
                               token : 0..TokenLimit, retain : BOOLEAN]]
    <3>1. guard \in [Callers -> [manifest : Manifests \cup {NoManifest},
                                token : 0..TokenLimit, retain : BOOLEAN]]
      BY <1>1 DEF TypeOK
    <3>2. guard' = [guard EXCEPT ![c].retain = TRUE]
      OBVIOUS
    <3> HIDE DEF RetainOnUncertainDrop
    <3> QED
      BY ONLY <3>1, <3>2
  <2>2. UNCHANGED <<recovery_complete, active_background, active_analysis,
                    pending_repair, repair_lease, startup_claim,
                    startup_claim_complete, reserved_repair, expired_repairs,
                    next_repair_attempt, next_reservation, runtime_resumption,
                    timers, phase, request>>
    OBVIOUS
  <2> HIDE DEF RetainOnUncertainDrop
  <2> QED
    BY <1>1, <2>1, <2>2 DEF TypeOK
<1>3. \A d \in Callers : /\ guard'[d].token = guard[d].token
                          /\ guard'[d].manifest = guard[d].manifest
  BY <1>1 DEF TypeOK
<1> QED
  BY <1>1, <1>2, <1>3, FrameInv
     DEF GuardLive, Reserved, Shapes, PendingOwnersLive, TypeOK

\* A refused settling call still owns its attempt until the guard drops.
LEMMA SettleRefusedInv ==
    ASSUME FenceInv, NEW c \in Callers, SettleRefused(c)
    PROVE  FenceInv'
<1> USE CoordinatorAssumption DEF settleUnchanged
<1>1. TypeOK /\ Shapes /\ PendingOwnersLive
  BY DEF FenceInv
<1>2. c \in Tasks /\ c \notin Writers \cup Analysts /\ phase[c] = "active"
  BY DEF Tasks, SettleRefused
<1>3. /\ phase' \in [Tasks -> Phases] /\ phase'[c] = "dropping"
      /\ \A u \in Tasks \ {c} : phase'[u] = phase[u]
  BY <1>1, <1>2, MoveEffect DEF SettleRefused, Phases
<1>4. next_reservation' \in 0..TokenLimit
  BY <1>1, IssueType DEF SettleRefused, TypeOK
<1>5. TypeOK'
  BY <1>1, <1>2, <1>3, <1>4 DEF SettleRefused, TypeOK, Tasks
<1> QED
  BY <1>1, <1>2, <1>3, <1>5, FrameInv
     DEF SettleRefused, GuardLive, Reserved, Shapes, PendingOwnersLive, TypeOK, Tasks

-----------------------------------------------------------------------------
(* Time, startup and the resumption seal *)

\* The passing of the deadline alone ends no reservation.
LEMMA ReservationFallsDueInv == FenceInv /\ ReservationFallsDue => FenceInv'
<1> SUFFICES ASSUME FenceInv, ReservationFallsDue PROVE FenceInv'
  OBVIOUS
<1> USE DEF ReservationFallsDue, admissionUnchanged
<1>1. TypeOK /\ Shapes /\ PendingOwnersLive
  BY DEF FenceInv
<1>2. TypeOK' /\ reserved_repair'.next_apply = reserved_repair.next_apply
  BY <1>1 DEF TypeOK
<1> QED
  BY <1>1, <1>2, FrameInv DEF GuardLive, Reserved, Shapes, PendingOwnersLive, TypeOK

\* Reading a lapsed reservation drops it.
LEMMA MatchesHandoffInv == FenceInv /\ MatchesHandoff => FenceInv'
<1> SUFFICES ASSUME FenceInv, MatchesHandoff PROVE FenceInv'
  OBVIOUS
<1> USE DEF MatchesHandoff, admissionUnchanged
<1>1. TypeOK /\ Shapes /\ PendingOwnersLive
  BY DEF FenceInv
<1>2. /\ phase' \in [Tasks -> Phases]
      /\ \A u \in Tasks :
            phase'[u] = IF phase[u] = "parked" THEN "woken" ELSE phase[u]
  BY <1>1, WokenEffect
<1>3. TypeOK'
  BY <1>1, <1>2, ExpireType DEF TypeOK, Tasks
<1> QED
  BY <1>1, <1>2, <1>3, FrameInv
     DEF ExpireReservation, NoReservation, GuardLive, Reserved, Shapes,
         PendingOwnersLive, TypeOK, Tasks

\* A timer drops its own reservation or does nothing.
LEMMA ExpireReservedRepairInv ==
    ASSUME FenceInv, NEW g \in Tokens, ExpireReservedRepair(g)
    PROVE  FenceInv'
<1>1. TypeOK /\ Shapes /\ PendingOwnersLive
  BY DEF FenceInv
<1>2. /\ phase' \in [Tasks -> Phases]
      /\ \A u \in Tasks : \/ phase'[u] = phase[u]
                          \/ phase[u] = "parked" /\ phase'[u] = "woken"
  <2>1. CASE phase' = Woken(phase)
    BY <1>1, <2>1, WokenEffect
  <2>2. CASE phase' = phase
    BY <1>1, <2>2 DEF TypeOK
  <2> QED
    BY <2>1, <2>2 DEF ExpireReservedRepair, TimerIsCurrent, TimerIsCurrent
<1>3. /\ ExpireReservation \/ UNCHANGED <<reserved_repair, expired_repairs>>
      /\ timers' \subseteq timers
  BY DEF ExpireReservedRepair, TimerIsCurrent, TimerIsCurrent
<1>4. TypeOK'
  BY <1>1, <1>2, <1>3, ExpireType DEF ExpireReservedRepair, TimerIsCurrent, TypeOK, Tasks
<1>5. Reserved' => Reserved /\ reserved_repair'.next_apply \in Requests
  BY <1>1, <1>3 DEF Shapes, ExpireReservation, Reserved, NoReservation
<1> QED
  BY <1>1, <1>2, <1>4, <1>5, FrameInv
     DEF ExpireReservedRepair, TimerIsCurrent, GuardLive, PendingOwnersLive, TypeOK, Tasks

\* Startup arms an idle durable lease before anything is admitted.
LEMMA RearmApprovedRepairInv ==
    ASSUME FenceInv, NEW r \in Requests, RearmApprovedRepair(r)
    PROVE  FenceInv'
<1> USE CoordinatorAssumption DEF RearmApprovedRepair
<1>0. TypeOK /\ Shapes /\ Counters /\ Compatible /\ SingleAttempt /\ PendingOwnersLive
  BY DEF FenceInv
<1>1. r.manifest \in Manifests
  BY DEF Requests
<1>2. repair_lease' \in [manifest : Manifests \cup {NoManifest},
                         durable : BOOLEAN, attempt : 0..TokenLimit]
  BY <1>0, <1>1 DEF TypeOK
<1>3. TypeOK'
  BY <1>0, <1>2 DEF TypeOK
<1>4. /\ repair_lease'.attempt = repair_lease.attempt
      /\ Leased => repair_lease' = repair_lease
      /\ ~Leased => repair_lease'.durable
      /\ Leased'
  BY <1>0, <1>1 DEF Shapes, Leased
<1>5. Shapes'
  BY <1>0, <1>4 DEF Shapes, Pending, Reserved
<1>6. Counters'
  BY <1>0, CountersFrame
<1>7. Compatible'
  BY <1>0, <1>4 DEF Compatible, Reserved
<1>8. SingleAttempt'
  <2>1. CASE Leased
    BY <1>0, <1>4, <2>1 DEF SingleAttempt, LiveGuards, GuardLive, Owns
  <2>2. CASE ~Leased
    <3>1. LiveGuards = {}
      BY <1>0, <2>2 DEF SingleAttempt, Shapes, Owns
    <3> QED
      BY <1>0, <1>4, <2>2, <3>1 DEF SingleAttempt, LiveGuards, GuardLive, Shapes
  <2> QED
    BY <2>1, <2>2
<1>9. PendingOwnersLive'
  BY <1>0 DEF PendingOwnersLive, Pending, Reserved
<1> QED
  BY <1>3, <1>5, <1>6, <1>7, <1>8, <1>9 DEF FenceInv

\* Sealing, unsealing and committing move only the seal and wake tasks.
LEMMA SealInv ==
    ASSUME FenceInv,
           \/ \E r \in Requests : BeginRuntimeResumption(r)
           \/ CommitResumption
           \/ DropResumption
    PROVE  FenceInv'
<1> USE DEF BeginRuntimeResumption, CommitResumption, DropResumption, sealUnchanged
<1>0. TypeOK /\ Shapes /\ Counters /\ Compatible /\ SingleAttempt /\ PendingOwnersLive
  BY DEF FenceInv
<1>1. /\ phase' \in [Tasks -> Phases]
      /\ \A u \in Tasks : \/ phase'[u] = phase[u]
                          \/ phase[u] = "parked" /\ phase'[u] = "woken"
  <2>1. CASE phase' = Woken(phase)
    BY <1>0, <2>1, WokenEffect
  <2>2. CASE phase' = phase
    BY <1>0, <2>2 DEF TypeOK
  <2> QED
    BY <2>1, <2>2
<1>2. TypeOK'
  BY <1>0, <1>1 DEF TypeOK, Tasks
<1>3. Shapes'
  BY <1>0 DEF Shapes, Leased, Pending, Reserved
<1>4. Counters'
  BY <1>0, <1>1, CountersFrame DEF Tasks
<1>5. Compatible'
  BY <1>0 DEF Compatible, Leased, Pending, Reserved, Quiet
<1>6. SingleAttempt'
  BY <1>0, <1>1 DEF SingleAttempt, LiveGuards, GuardLive, Owns, Tasks
<1>7. PendingOwnersLive'
  BY <1>0, <1>1 DEF PendingOwnersLive, Pending, Leased, Reserved, TypeOK, Tasks
<1> QED
  BY <1>2, <1>3, <1>4, <1>5, <1>6, <1>7 DEF FenceInv

-----------------------------------------------------------------------------
(* The theorems *)

\* A fresh coordinator satisfies the invariant.
LEMMA InitInv == Init => FenceInv
<1> SUFFICES ASSUME Init PROVE FenceInv
  OBVIOUS
<1>1. TypeOK
  BY InitType
<1>2. /\ ~Leased /\ ~Pending /\ ~Reserved /\ repair_lease.attempt = 0
      /\ pending_repair.owners = {}
  BY DEF Init, Leased, Pending, Reserved, NoLease, NoPending, NoReservation
<1>3. ActiveWriters = {} /\ ActiveAnalysts = {} /\ LiveGuards = {}
  BY DEF Init, ActiveWriters, ActiveAnalysts, LiveGuards, GuardLive, Tasks
<1>4. Counters
  BY <1>3, FS_EmptySet DEF Init, Counters
<1> QED
  BY <1>1, <1>2, <1>3, <1>4
     DEF FenceInv, Shapes, Compatible, SingleAttempt, PendingOwnersLive, Init

\* Every step of every task preserves the invariant.
LEMMA NextInv == FenceInv /\ [Next]_vars => FenceInv'
<1> SUFFICES ASSUME FenceInv, [Next]_vars PROVE FenceInv'
  OBVIOUS
<1>1. CASE FinishRecovery
  BY <1>1, FinishRecoveryInv
<1>2. CASE \E w \in Writers :
             BeginBackground(w) \/ TryBeginBackground(w) \/ EndBackground(w)
  BY <1>2, BeginBackgroundInv, EndBackgroundInv
<1>3. CASE \E a \in Analysts : BeginAnalysis(a) \/ EndAnalysis(a)
  BY <1>3, BeginAnalysisInv, EndAnalysisInv
<1>4. CASE \E t \in Writers \cup Analysts : CancelAdmission(t)
  BY <1>4, CancelAdmissionInv
<1>5. CASE \E c \in Callers, r \in Requests : Acquire(c, r)
  BY <1>5, RefuseRepairInv, ConsumeReservationInv, RetryDurableInv,
     TakeProvisionalInv, RegisterAndWaitInv DEF Acquire
<1>6. CASE \E c \in Callers : DropRegistration(c)
  BY <1>6, DropRegistrationInv
<1>7. CASE \E c \in Callers, m \in Manifests : AcquireVerification(c, m)
  BY <1>7, AcquireVerificationInv
<1>8. CASE \E c \in Callers : RetainOnUncertainDrop(c) \/ SettleAttempt(c)
  BY <1>8, RetainOnUncertainDropInv, RetainUntilVerificationInv,
     ReleaseAfterPrecommitFailureInv, ReleaseAfterVerificationInv,
     HandoffAfterVerificationInv, SettleRefusedInv, DropGuardInv
     DEF SettleAttempt
<1>9. CASE ReservationFallsDue \/ MatchesHandoff
  BY <1>9, ReservationFallsDueInv, MatchesHandoffInv
<1>10. CASE \E g \in Tokens : ExpireReservedRepair(g)
  BY <1>10, ExpireReservedRepairInv
<1>11. CASE \E r \in Requests : RearmApprovedRepair(r)
  BY <1>11, RearmApprovedRepairInv
<1>12. CASE \/ \E r \in Requests : BeginRuntimeResumption(r)
            \/ CommitResumption \/ DropResumption
  BY <1>12, SealInv
<1>13. CASE UNCHANGED vars
  BY <1>13
     DEF vars, coordinatorVars, FenceInv, TypeOK, Shapes, Counters, Compatible,
         SingleAttempt, PendingOwnersLive, Leased, Pending, Reserved, Quiet,
         ActiveWriters, ActiveAnalysts, LiveGuards, GuardLive, Owns
<1> QED
  BY <1>1, <1>2, <1>3, <1>4, <1>5, <1>6, <1>7, <1>8, <1>9, <1>10, <1>11,
     <1>12, <1>13 DEF Next

\* The inductive invariant holds in every reachable state of the fence.
THEOREM FenceInvariant == Spec => []FenceInv
  BY InitInv, NextInv, PTL DEF Spec

\* Every variable of the fence keeps its type.
THEOREM TypeCorrect == Spec => []TypeOK
<1>1. FenceInv => TypeOK
  BY DEF FenceInv
<1> QED
  BY <1>1, FenceInvariant, PTL

\* The counters agree with the tasks they count, so what the code decides on
\* counters keeps the tasks themselves apart.
LEMMA InvExcludes == FenceInv => FenceExclusion
<1> SUFFICES ASSUME FenceInv PROVE FenceExclusion
  OBVIOUS
<1>1. Counters /\ Compatible /\ SingleAttempt /\ Shapes
  BY DEF FenceInv
<1>2. LiveGuards # {} => repair_lease.attempt # 0
  BY <1>1 DEF SingleAttempt, Owns
<1> QED
  BY <1>1, <1>2, CounterZero DEF FenceExclusion, Compatible, Shapes

\* No writer overlaps a snapshot, a lease or a reservation, and no attempt
\* overlaps a writer or a snapshot.
THEOREM FenceExcludes == Spec => []FenceExclusion
  BY InvExcludes, FenceInvariant, PTL

\* The live guard and the lease's active attempt are one and the same.
THEOREM AttemptsExclusive == Spec => []SingleAttempt
<1>1. FenceInv => SingleAttempt
  BY DEF FenceInv
<1> QED
  BY <1>1, FenceInvariant, PTL

\* No pending repair outlives the registrations that own it.
THEOREM PendingHasOwners == Spec => []PendingOwnersLive
<1>1. FenceInv => PendingOwnersLive
  BY DEF FenceInv
<1> QED
  BY <1>1, FenceInvariant, PTL

\* The seal is granted to an idle fence and keeps it so.
LEMMA InvSeals == FenceInv => SealExcludesAll
<1> SUFFICES ASSUME FenceInv PROVE SealExcludesAll
  OBVIOUS
<1>1. Compatible /\ SingleAttempt /\ Shapes
  BY DEF FenceInv
<1>2. LiveGuards # {} => repair_lease.attempt # 0
  BY <1>1 DEF SingleAttempt, Owns
<1> QED
  BY <1>1, <1>2 DEF SealExcludesAll, Compatible, Shapes, Quiet

\* Under the resumption seal the fence is empty.
THEOREM SealIsExclusive == Spec => []SealExcludesAll
  BY InvSeals, FenceInvariant, PTL
=============================================================================
