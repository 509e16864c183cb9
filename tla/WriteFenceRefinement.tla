------------------------- MODULE WriteFenceRefinement -------------------------
(***************************************************************************)
(* The maintenance coordinator implements the abstract write fence, for    *)
(* every number of callers, writers and snapshots, every set of requests   *)
(* and every token width.                                                  *)
(***************************************************************************)
EXTENDS MaintenanceCoordinatorProofs

-----------------------------------------------------------------------------
(* What the abstract fence sees *)

\* The abstract state of the fence, decided field by field.
LEMMA FenceStateValue ==
    ASSUME TypeOK, TypeOK'
    PROVE  /\ FenceState =
                IF runtime_resumption = "active" THEN "sealed"
                ELSE IF runtime_resumption = "committed" THEN "retired"
                ELSE IF Leased THEN "owed"
                ELSE IF StillReserved THEN "chained" ELSE "open"
           /\ FenceState' =
                IF runtime_resumption' = "active" THEN "sealed"
                ELSE IF runtime_resumption' = "committed" THEN "retired"
                ELSE IF Leased' THEN "owed"
                ELSE IF StillReserved' THEN "chained" ELSE "open"
<1>1. /\ runtime_resumption \in {"none", "active", "committed"}
      /\ runtime_resumption' \in {"none", "active", "committed"}
  BY DEF TypeOK
<1>2. /\ Leased \in BOOLEAN /\ Leased' \in BOOLEAN
      /\ StillReserved \in BOOLEAN /\ StillReserved' \in BOOLEAN
  BY DEF Leased, StillReserved, Reserved, TypeOK
<1> QED
  BY <1>1, <1>2 DEF FenceState

\* A task that moves ends or starts nobody else's guard.
LEMMA MoveFrame ==
    ASSUME TypeOK, NEW t \in Tasks, NEW p \in Phases, NEW notify \in BOOLEAN,
           Move(t, p, notify)
    PROVE  /\ \A u \in Tasks \ {t} :
                /\ phase'[u] = "active" <=> phase[u] = "active"
                /\ phase'[u] = "dropping" <=> phase[u] = "dropping"
           /\ p # "parked" => phase'[t] = p
           /\ p = "parked" => phase'[t] \in {"parked", "woken"}
  BY MoveEffect

\* A notification starts and ends no guard.
LEMMA WokenFrame ==
    ASSUME TypeOK, phase' = Woken(phase)
    PROVE  \A u \in Tasks :
              /\ phase'[u] = "active" <=> phase[u] = "active"
              /\ phase'[u] = "dropping" <=> phase[u] = "dropping"
  BY WokenEffect

\* Sweeping up a lapsed reservation is invisible: it stopped counting when
\* its deadline passed.
LEMMA ExpireInvisible ==
    ASSUME ExpireReservation
    PROVE  StillReserved' <=> StillReserved
  BY DEF ExpireReservation, StillReserved, Reserved, Lapsed, NoReservation

\* A step that starts and ends no guard, and moves no lease, reservation or
\* seal, is a stuttering step of the abstract fence.
LEMMA Stutters ==
    ASSUME TypeOK, TypeOK',
           UNCHANGED <<repair_lease, runtime_resumption>>,
           StillReserved' <=> StillReserved,
           \A u \in Writers \cup Analysts :
              phase'[u] = "active" <=> phase[u] = "active",
           \A c \in Callers : GuardLive(c)' <=> GuardLive(c)
    PROVE  UNCHANGED Fence!vars
<1>1. /\ ActiveWriters' = ActiveWriters /\ ActiveAnalysts' = ActiveAnalysts
      /\ LiveGuards' = LiveGuards
  BY DEF ActiveWriters, ActiveAnalysts, LiveGuards
<1>2. Leased' <=> Leased
  BY DEF Leased
<1>3. FenceState' = FenceState
  BY <1>2, FenceStateValue
<1> QED
  BY <1>1, <1>3 DEF Fence!vars

\* Without an attempt in the lease no guard is live.
LEMMA NoAttemptNoGuard ==
    ASSUME FenceInv, repair_lease.attempt = 0
    PROVE  LiveGuards = {}
  BY DEF FenceInv, SingleAttempt, Owns

-----------------------------------------------------------------------------
(* Steps the abstract fence does not see *)

\* Refused and cancelled writers and snapshots.
LEMMA RefusedTaskStutters ==
    ASSUME FenceInv, FenceInv', NEW t \in Writers \cup Analysts,
           phase[t] # "active", NEW p \in {"idle", "parked"},
           NEW notify \in BOOLEAN, Move(t, p, notify),
           ExpireReservation \/ UNCHANGED reserved_repair,
           UNCHANGED admissionUnchanged
    PROVE  UNCHANGED Fence!vars
<1> USE CoordinatorAssumption
<1>1. TypeOK /\ TypeOK'
  BY DEF FenceInv
<1>2. t \in Tasks /\ t \notin Callers /\ p \in Phases
  BY DEF Tasks, Phases
<1>3. StillReserved' <=> StillReserved
  BY ExpireInvisible DEF StillReserved, Reserved
<1>4. /\ phase'[t] # "active"
      /\ \A u \in Tasks \ {t} :
            /\ phase'[u] = "active" <=> phase[u] = "active"
            /\ phase'[u] = "dropping" <=> phase[u] = "dropping"
  BY <1>1, <1>2, MoveFrame
<1> QED
  BY <1>1, <1>2, <1>3, <1>4, Stutters DEF Tasks, GuardLive, admissionUnchanged

\* A caller without a live guard is refused, registers or leaves.
LEMMA WaitingCallerStutters ==
    ASSUME FenceInv, FenceInv', NEW c \in Callers, ~GuardLive(c),
           NEW p \in {"idle", "parked", "leaving"}, NEW notify \in BOOLEAN,
           Move(c, p, notify),
           ExpireReservation \/ UNCHANGED reserved_repair,
           UNCHANGED <<repair_lease, runtime_resumption>>
    PROVE  UNCHANGED Fence!vars
<1> USE CoordinatorAssumption
<1>1. TypeOK /\ TypeOK'
  BY DEF FenceInv
<1>2. c \in Tasks /\ c \notin Writers \cup Analysts /\ p \in Phases
  BY DEF Tasks, Phases
<1>3. StillReserved' <=> StillReserved
  BY ExpireInvisible DEF StillReserved, Reserved
<1>4. /\ phase'[c] \notin {"active", "dropping"}
      /\ \A u \in Tasks \ {c} :
            /\ phase'[u] = "active" <=> phase[u] = "active"
            /\ phase'[u] = "dropping" <=> phase[u] = "dropping"
  BY <1>1, <1>2, MoveFrame
<1> QED
  BY <1>1, <1>2, <1>3, <1>4, Stutters DEF Tasks, GuardLive

\* Refusal and registration.
LEMMA WaitingStepsStutter ==
    ASSUME FenceInv, FenceInv', NEW c \in Callers, NEW r \in Requests,
           RefuseRepair(c, r) \/ RegisterAndWait(c, r)
    PROVE  UNCHANGED Fence!vars
<1>1. Lapsed \in BOOLEAN
  BY DEF FenceInv, TypeOK, Lapsed
<1>2. CASE RefuseRepair(c, r)
  <2>1. ~GuardLive(c)
    BY <1>2 DEF RefuseRepair, Looks, GuardLive
  <2>2. PICK p \in {"idle", "leaving"} : Move(c, p, Lapsed)
    BY <1>2 DEF RefuseRepair
  <2> QED
    BY <1>1, <1>2, <2>1, <2>2, WaitingCallerStutters
       DEF RefuseRepair, admissionUnchanged
<1>3. CASE RegisterAndWait(c, r)
  <2>1. ~GuardLive(c)
    BY <1>3 DEF RegisterAndWait, Looks, GuardLive
  <2> QED
    BY <1>1, <1>3, <2>1, WaitingCallerStutters
       DEF RegisterAndWait, grantUnchanged
<1> QED
  BY <1>2, <1>3

\* The end of a registration, whoever is woken by it.
LEMMA DropRegistrationStutters ==
    ASSUME FenceInv, FenceInv', NEW c \in Callers, DropRegistration(c)
    PROVE  UNCHANGED Fence!vars
<1> DEFINE notify == pending_repair' # pending_repair
<1>1. ~GuardLive(c) /\ Move(c, "idle", notify) /\ notify \in BOOLEAN
  BY DEF DropRegistration, GuardLive
<1> HIDE DEF notify
<1> QED
  BY <1>1, WaitingCallerStutters DEF DropRegistration, grantUnchanged

\* Marking a guard, or dropping it later because a settling call was refused,
\* does not end its attempt.
LEMMA MarkedGuardStutters ==
    ASSUME FenceInv, FenceInv', NEW c \in Callers,
           RetainOnUncertainDrop(c) \/ SettleRefused(c)
    PROVE  UNCHANGED Fence!vars
<1> USE CoordinatorAssumption
<1>1. TypeOK /\ TypeOK'
  BY DEF FenceInv
<1>2. CASE RetainOnUncertainDrop(c)
  BY <1>1, <1>2, Stutters
     DEF RetainOnUncertainDrop, coordinatorVars, GuardLive, StillReserved, Reserved
<1>3. CASE SettleRefused(c)
  <2>1. c \in Tasks /\ c \notin Writers \cup Analysts /\ "dropping" \in Phases
    BY DEF Tasks, Phases
  <2>2. /\ phase[c] = "active" /\ Move(c, "dropping", FALSE)
        /\ UNCHANGED <<repair_lease, runtime_resumption, reserved_repair>>
    BY <1>3 DEF SettleRefused, settleUnchanged
  <2>3. /\ phase'[c] = "dropping"
        /\ \A u \in Tasks \ {c} :
              /\ phase'[u] = "active" <=> phase[u] = "active"
              /\ phase'[u] = "dropping" <=> phase[u] = "dropping"
    BY <1>1, <2>1, <2>2, MoveFrame
  <2> QED
    BY <1>1, <2>1, <2>2, <2>3, Stutters
       DEF Tasks, GuardLive, StillReserved, Reserved
<1> QED
  BY <1>2, <1>3

\* The end of recovery and the sweeping of a lapsed reservation only wake.
LEMMA SweepStutters ==
    ASSUME FenceInv, FenceInv',
           \/ FinishRecovery \/ MatchesHandoff
           \/ \E g \in Tokens : ExpireReservedRepair(g)
    PROVE  UNCHANGED Fence!vars
<1>1. TypeOK /\ TypeOK'
  BY DEF FenceInv
<1>2. /\ phase' = Woken(phase) \/ phase' = phase
      /\ ExpireReservation \/ reserved_repair' = reserved_repair
      /\ UNCHANGED <<repair_lease, runtime_resumption>>
  BY DEF FinishRecovery, MatchesHandoff, ExpireReservedRepair, admissionUnchanged
<1>3. StillReserved' <=> StillReserved
  BY <1>2, ExpireInvisible DEF StillReserved, Reserved
<1>4. \A u \in Tasks : /\ phase'[u] = "active" <=> phase[u] = "active"
                       /\ phase'[u] = "dropping" <=> phase[u] = "dropping"
  BY <1>1, <1>2, WokenFrame
<1> QED
  BY <1>1, <1>2, <1>3, <1>4, Stutters DEF Tasks, GuardLive

-----------------------------------------------------------------------------
(* Steps of the abstract fence *)

\* Admitting a writer, or refusing it.
LEMMA WriterBegins ==
    ASSUME FenceInv, FenceInv', NEW w \in Writers,
           BeginBackground(w) \/ TryBeginBackground(w)
    PROVE  Fence!BeginWrite(w) \/ UNCHANGED Fence!vars
<1> USE CoordinatorAssumption
<1>1. TypeOK /\ TypeOK' /\ Counters /\ Compatible
  BY DEF FenceInv
<1>2. w \in Tasks /\ w \notin Callers \cup Analysts /\ "active" \in Phases
  BY DEF Tasks, Phases
<1>3. phase[w] # "active" /\ Lapsed \in BOOLEAN
  BY <1>1 DEF BeginBackground, TryBeginBackground, Lapsed, TypeOK
<1>4. CASE AdmitBackground(w)
  <2>1. /\ phase'[w] = "active"
        /\ \A u \in Tasks \ {w} :
              /\ phase'[u] = "active" <=> phase[u] = "active"
              /\ phase'[u] = "dropping" <=> phase[u] = "dropping"
    BY <1>1, <1>2, <1>3, <1>4, MoveFrame DEF AdmitBackground
  <2>2. /\ ActiveWriters' = ActiveWriters \cup {w}
        /\ ActiveAnalysts' = ActiveAnalysts /\ LiveGuards' = LiveGuards
    BY <1>2, <2>1 DEF ActiveWriters, ActiveAnalysts, LiveGuards, GuardLive, Tasks
  <2>3. /\ active_analysis = 0 /\ ~Leased /\ ~StillReserved
        /\ runtime_resumption = "none"
        /\ UNCHANGED <<repair_lease, runtime_resumption>> /\ ExpireReservation
    BY <1>4 DEF AdmitBackground, BackgroundOpen, admissionUnchanged
  <2>4. ~Leased' /\ ~StillReserved'
    BY <2>3, ExpireInvisible DEF Leased
  <2>5. FenceState = "open" /\ FenceState' = "open"
    BY <1>1, <2>3, <2>4, FenceStateValue
  <2>6. ActiveAnalysts = {}
    BY <1>1, <2>3, CounterZero
  <2> QED
    BY <2>2, <2>5, <2>6 DEF Fence!BeginWrite
<1>5. CASE ~AdmitBackground(w)
  <2>1. PICK p \in {"idle", "parked"} : Move(w, p, Lapsed)
    BY <1>5 DEF BeginBackground, TryBeginBackground
  <2> QED
    BY <1>3, <1>5, <2>1, RefusedTaskStutters DEF BeginBackground, TryBeginBackground
<1> QED
  BY <1>4, <1>5

\* Admitting a snapshot, or refusing it.
LEMMA AnalystBegins ==
    ASSUME FenceInv, FenceInv', NEW a \in Analysts, BeginAnalysis(a)
    PROVE  Fence!BeginRead(a) \/ UNCHANGED Fence!vars
<1> USE CoordinatorAssumption
<1>1. TypeOK /\ TypeOK' /\ Counters /\ Shapes
  BY DEF FenceInv
<1>2. a \in Tasks /\ a \notin Callers \cup Writers /\ "active" \in Phases
  BY DEF Tasks, Phases
<1>3. phase[a] # "active" /\ Lapsed \in BOOLEAN /\ ExpireReservation
  BY <1>1 DEF BeginAnalysis, Lapsed, TypeOK
<1>4. CASE AnalysisOpen
  <2>1. /\ phase'[a] = "active"
        /\ \A u \in Tasks \ {a} :
              /\ phase'[u] = "active" <=> phase[u] = "active"
              /\ phase'[u] = "dropping" <=> phase[u] = "dropping"
    BY <1>1, <1>2, <1>3, <1>4, MoveFrame DEF BeginAnalysis
  <2>2. /\ ActiveAnalysts' = ActiveAnalysts \cup {a}
        /\ ActiveWriters' = ActiveWriters /\ LiveGuards' = LiveGuards
    BY <1>2, <2>1 DEF ActiveWriters, ActiveAnalysts, LiveGuards, GuardLive, Tasks
  <2>3. /\ active_background = 0 /\ ~StillReserved
        /\ repair_lease.attempt = 0
        /\ runtime_resumption = "none"
        /\ UNCHANGED <<repair_lease, runtime_resumption>>
    BY <1>1, <1>4
       DEF BeginAnalysis, AnalysisOpen, RepairAllowsAnalysis, Shapes, admissionUnchanged
  <2>4. (Leased' <=> Leased) /\ ~StillReserved'
    BY <1>3, <2>3, ExpireInvisible DEF Leased
  <2>5. FenceState \in {"open", "owed"} /\ FenceState' = FenceState
    BY <1>1, <2>3, <2>4, FenceStateValue
  <2>6. ActiveWriters = {} /\ LiveGuards = {}
    BY <1>1, <2>3, CounterZero, NoAttemptNoGuard
  <2> QED
    BY <2>2, <2>5, <2>6 DEF Fence!BeginRead
<1>5. CASE ~AnalysisOpen
  BY <1>3, <1>5, RefusedTaskStutters DEF BeginAnalysis
<1> QED
  BY <1>4, <1>5

\* A writer's guard is dropped.
LEMMA WriterLeaves ==
    ASSUME FenceInv, FenceInv', NEW w \in Writers, EndBackground(w)
    PROVE  Fence!EndWrite(w)
<1> USE CoordinatorAssumption
<1>1. TypeOK /\ TypeOK'
  BY DEF FenceInv
<1>2. w \in Tasks /\ w \notin Callers \cup Analysts /\ "idle" \in Phases
  BY DEF Tasks, Phases
<1>3. /\ phase[w] = "active" /\ phase'[w] = "idle"
      /\ \A u \in Tasks \ {w} :
            /\ phase'[u] = "active" <=> phase[u] = "active"
            /\ phase'[u] = "dropping" <=> phase[u] = "dropping"
  BY <1>1, <1>2, MoveFrame DEF EndBackground
<1>4. /\ w \in ActiveWriters /\ ActiveWriters' = ActiveWriters \ {w}
      /\ ActiveAnalysts' = ActiveAnalysts /\ LiveGuards' = LiveGuards
  BY <1>2, <1>3 DEF ActiveWriters, ActiveAnalysts, LiveGuards, GuardLive, Tasks
<1>5. /\ Leased' <=> Leased
      /\ StillReserved' <=> StillReserved
      /\ UNCHANGED runtime_resumption
  BY DEF EndBackground, admissionUnchanged, Leased, StillReserved, Reserved
<1>6. FenceState' = FenceState
  BY <1>1, <1>5, FenceStateValue
<1> QED
  BY <1>4, <1>6 DEF Fence!EndWrite

\* A snapshot's guard is dropped.
LEMMA AnalystLeaves ==
    ASSUME FenceInv, FenceInv', NEW a \in Analysts, EndAnalysis(a)
    PROVE  Fence!EndRead(a)
<1> USE CoordinatorAssumption
<1>1. TypeOK /\ TypeOK'
  BY DEF FenceInv
<1>2. a \in Tasks /\ a \notin Callers \cup Writers /\ "idle" \in Phases
  BY DEF Tasks, Phases
<1>3. /\ phase[a] = "active" /\ phase'[a] = "idle"
      /\ \A u \in Tasks \ {a} :
            /\ phase'[u] = "active" <=> phase[u] = "active"
            /\ phase'[u] = "dropping" <=> phase[u] = "dropping"
  BY <1>1, <1>2, MoveFrame DEF EndAnalysis
<1>4. /\ a \in ActiveAnalysts /\ ActiveAnalysts' = ActiveAnalysts \ {a}
      /\ ActiveWriters' = ActiveWriters /\ LiveGuards' = LiveGuards
  BY <1>2, <1>3 DEF ActiveWriters, ActiveAnalysts, LiveGuards, GuardLive, Tasks
<1>5. /\ Leased' <=> Leased
      /\ StillReserved' <=> StillReserved
      /\ UNCHANGED runtime_resumption
  BY DEF EndAnalysis, admissionUnchanged, Leased, StillReserved, Reserved
<1>6. FenceState' = FenceState
  BY <1>1, <1>5, FenceStateValue
<1> QED
  BY <1>4, <1>6 DEF Fence!EndRead

\* Whatever way an attempt is granted, the caller begins a repair alone.
LEMMA GrantBegins ==
    ASSUME FenceInv, FenceInv', NEW c \in Callers, NEW m \in Manifests,
           NEW durable \in BOOLEAN, GrantAttempt(c, m, durable),
           NEW notify \in BOOLEAN, Move(c, "active", notify),
           repair_lease.attempt = 0, runtime_resumption = "none",
           active_background = 0, active_analysis = 0,
           UNCHANGED runtime_resumption
    PROVE  Fence!BeginRepair(c)
<1> USE CoordinatorAssumption
<1>1. TypeOK /\ TypeOK' /\ Counters
  BY DEF FenceInv
<1>2. c \in Tasks /\ c \notin Writers \cup Analysts /\ "active" \in Phases
  BY DEF Tasks, Phases
<1>3. /\ phase'[c] = "active"
      /\ \A u \in Tasks \ {c} :
            /\ phase'[u] = "active" <=> phase[u] = "active"
            /\ phase'[u] = "dropping" <=> phase[u] = "dropping"
  BY <1>1, <1>2, MoveFrame
<1>4. ActiveWriters = {} /\ ActiveAnalysts = {} /\ LiveGuards = {}
  BY <1>1, CounterZero, NoAttemptNoGuard
<1>5. ActiveWriters' = {} /\ ActiveAnalysts' = {} /\ LiveGuards' = {c}
  BY <1>2, <1>3, <1>4 DEF ActiveWriters, ActiveAnalysts, LiveGuards, GuardLive, Tasks
<1>6. Leased'
  BY DEF GrantAttempt, Leased
<1>7. FenceState \in {"open", "owed", "chained"} /\ FenceState' = "owed"
  BY <1>1, <1>6, FenceStateValue
<1> QED
  BY <1>4, <1>5, <1>7 DEF Fence!BeginRepair

\* A consumed reservation, a retry and a provisional lease grant an attempt.
LEMMA AcquireBegins ==
    ASSUME FenceInv, FenceInv', NEW c \in Callers, NEW r \in Requests,
           \/ ConsumeReservation(c, r)
           \/ RetryDurable(c, r)
           \/ TakeProvisional(c, r)
    PROVE  Fence!BeginRepair(c)
<1>1. TypeOK /\ Shapes /\ Compatible
  BY DEF FenceInv
<1>2. r.manifest \in Manifests /\ Lapsed \in BOOLEAN
  BY <1>1 DEF Requests, Lapsed, TypeOK
<1>3. CASE ConsumeReservation(c, r)
  <2>1. /\ repair_lease.attempt = 0 /\ runtime_resumption = "none"
        /\ active_background = 0 /\ active_analysis = 0
    BY <1>1, <1>3
       DEF ConsumeReservation, AcquireRefused, AcquireSealed, StillReserved, Shapes
  <2> DEFINE notify == pending_repair' # pending_repair
  <2>2. Move(c, "active", notify) /\ notify \in BOOLEAN
    BY <1>3 DEF ConsumeReservation
  <2> HIDE DEF notify
  <2> QED
    BY <1>2, <1>3, <2>1, <2>2, GrantBegins DEF ConsumeReservation, grantUnchanged
<1>4. CASE RetryDurable(c, r)
  <2>1. /\ repair_lease.attempt = 0 /\ runtime_resumption = "none"
        /\ active_background = 0 /\ active_analysis = 0
    BY <1>1, <1>4
       DEF RetryDurable, AcquireRefused, AcquireSealed, LeaseBusy, Compatible
  <2> QED
    BY <1>2, <1>4, <2>1, GrantBegins DEF RetryDurable, grantUnchanged
<1>5. CASE TakeProvisional(c, r)
  <2>1. /\ repair_lease.attempt = 0 /\ runtime_resumption = "none"
        /\ active_background = 0 /\ active_analysis = 0
    BY <1>1, <1>5
       DEF TakeProvisional, AcquireRefused, AcquireSealed, Shapes
  <2> QED
    BY <1>2, <1>5, <2>1, GrantBegins DEF TakeProvisional, grantUnchanged
<1> QED
  BY <1>3, <1>4, <1>5

\* A verification takes the idle durable lease of its manifest.
LEMMA VerificationBegins ==
    ASSUME FenceInv, FenceInv', NEW c \in Callers, NEW m \in Manifests,
           AcquireVerification(c, m)
    PROVE  Fence!BeginRepair(c)
<1>1. /\ repair_lease.attempt = 0 /\ runtime_resumption = "none"
      /\ active_background = 0 /\ active_analysis = 0
  BY CoordinatorAssumption
     DEF AcquireVerification, LeaseBusy, FenceInv, Compatible, Leased
<1> QED
  BY <1>1, GrantBegins DEF AcquireVerification, grantUnchanged

\* However an attempt is settled, its guard was the only one and is gone.
LEMMA SettleEnds ==
    ASSUME FenceInv, FenceInv', NEW c \in Callers, GuardLive(c),
           NEW notify \in BOOLEAN, Settle(c, notify),
           UNCHANGED runtime_resumption
    PROVE  Fence!EndRepair(c)
<1> USE CoordinatorAssumption
<1>1. TypeOK /\ TypeOK' /\ Shapes /\ Compatible /\ SingleAttempt
  BY DEF FenceInv
<1>2. c \in Tasks /\ c \notin Writers \cup Analysts /\ "idle" \in Phases
  BY DEF Tasks, Phases
<1>3. /\ phase'[c] = "idle"
      /\ \A u \in Tasks \ {c} :
            /\ phase'[u] = "active" <=> phase[u] = "active"
            /\ phase'[u] = "dropping" <=> phase[u] = "dropping"
  BY <1>1, <1>2, MoveFrame DEF Settle
<1>4. LiveGuards = {c} /\ repair_lease.attempt # 0
  BY <1>1 DEF SingleAttempt, LiveGuards, Owns
<1>5. /\ ActiveWriters' = ActiveWriters /\ ActiveAnalysts' = ActiveAnalysts
      /\ LiveGuards' = {}
  BY <1>2, <1>3, <1>4 DEF ActiveWriters, ActiveAnalysts, LiveGuards, GuardLive, Tasks
<1>6. runtime_resumption = "none"
  BY <1>1, <1>4 DEF Compatible, Shapes, Quiet
<1>7. FenceState' \in {"open", "owed", "chained"}
  BY <1>1, <1>6, FenceStateValue
<1> QED
  BY <1>4, <1>5, <1>7 DEF Fence!EndRepair

\* The settling calls end the attempt; a refused one keeps it for now.
LEMMA SettleAttemptEnds ==
    ASSUME FenceInv, FenceInv', NEW c \in Callers, SettleAttempt(c)
    PROVE  Fence!EndRepair(c) \/ UNCHANGED Fence!vars
<1>1. CASE SettleRefused(c)
  BY <1>1, MarkedGuardStutters
<1>2. CASE ~SettleRefused(c)
  <2>1. GuardLive(c) /\ UNCHANGED runtime_resumption
    BY <1>2 DEF SettleAttempt, RetainUntilVerification,
       ReleaseAfterPrecommitFailure, ReleaseAfterVerification,
       HandoffAfterVerification, DropGuard, GuardLive, settleUnchanged
  <2>2. \E notify \in BOOLEAN : Settle(c, notify)
    <3>1. Owns(c) \in BOOLEAN
      BY DEF Owns
    <3> QED
      BY <1>2, <3>1 DEF SettleAttempt, RetainUntilVerification,
         ReleaseAfterPrecommitFailure, ReleaseAfterVerification,
         HandoffAfterVerification, DropGuard
  <2> QED
    BY <2>1, <2>2, SettleEnds
<1> QED
  BY <1>1, <1>2

\* The deadline of a reservation is what ends the chain.
LEMMA ReservationLapses ==
    ASSUME FenceInv, FenceInv', ReservationFallsDue
    PROVE  Fence!Lapse
<1>1. TypeOK /\ TypeOK' /\ Compatible
  BY DEF FenceInv
<1>2. /\ StillReserved /\ ~Leased /\ runtime_resumption = "none"
      /\ UNCHANGED <<repair_lease, runtime_resumption, phase>>
  BY <1>1 DEF ReservationFallsDue, StillReserved, Compatible, Quiet, admissionUnchanged
<1>3. ~StillReserved' /\ ~Leased'
  BY <1>1, <1>2 DEF ReservationFallsDue, StillReserved, Leased, TypeOK
<1>4. FenceState = "chained" /\ FenceState' = "open"
  BY <1>1, <1>2, <1>3, FenceStateValue
<1>5. UNCHANGED <<ActiveWriters, ActiveAnalysts, LiveGuards>>
  BY <1>2 DEF ActiveWriters, ActiveAnalysts, LiveGuards, GuardLive
<1> QED
  BY <1>4, <1>5 DEF Fence!Lapse

\* Before recovery is complete no snapshot runs: the invariant that startup
\* arming needs beyond FenceInv.
NoEarlySnapshot == ~recovery_complete => active_analysis = 0

\* Startup arms the empty fence, or finds it armed already.
LEMMA RearmArms ==
    ASSUME FenceInv, FenceInv', NoEarlySnapshot, NEW r \in Requests,
           RearmApprovedRepair(r)
    PROVE  Fence!Arm \/ UNCHANGED Fence!vars
<1> USE CoordinatorAssumption
<1>1. TypeOK /\ TypeOK' /\ Counters /\ Compatible
  BY DEF FenceInv
<1>2. /\ runtime_resumption = "none" /\ ~StillReserved
      /\ UNCHANGED <<runtime_resumption, phase, reserved_repair>>
      /\ active_background = 0 /\ active_analysis = 0
  BY <1>1 DEF RearmApprovedRepair, Compatible, StillReserved, TypeOK, NoEarlySnapshot
<1>3. UNCHANGED <<ActiveWriters, ActiveAnalysts, LiveGuards>>
  BY <1>2 DEF ActiveWriters, ActiveAnalysts, LiveGuards, GuardLive
<1>4. ActiveWriters = {} /\ ActiveAnalysts = {}
  BY <1>1, <1>2, CounterZero
<1>5. Leased'
  BY DEF RearmApprovedRepair, Leased, Requests
<1>6. FenceState' = "owed" /\ FenceState = IF Leased THEN "owed" ELSE "open"
  BY <1>1, <1>2, <1>5, FenceStateValue
<1> QED
  BY <1>3, <1>4, <1>6 DEF Fence!Arm, Fence!vars

\* The seal is set on the empty fence, and committed or taken back.
LEMMA SealSteps ==
    ASSUME FenceInv, FenceInv',
           \/ \E r \in Requests : BeginRuntimeResumption(r)
           \/ CommitResumption \/ DropResumption
    PROVE  Fence!Seal \/ Fence!Unseal
<1>1. TypeOK /\ TypeOK' /\ Counters /\ Compatible /\ Shapes
  BY DEF FenceInv
<1>2. /\ Quiet /\ repair_lease.attempt = 0
      /\ UNCHANGED <<repair_lease, reserved_repair>>
      /\ phase' = phase \/ phase' = Woken(phase)
  BY <1>1 DEF BeginRuntimeResumption, CommitResumption, DropResumption,
     Compatible, Shapes, Quiet, sealUnchanged
<1>3. \A u \in Tasks : /\ phase'[u] = "active" <=> phase[u] = "active"
                       /\ phase'[u] = "dropping" <=> phase[u] = "dropping"
  BY <1>1, <1>2, WokenFrame
<1>4. UNCHANGED <<ActiveWriters, ActiveAnalysts, LiveGuards>>
  BY <1>3 DEF ActiveWriters, ActiveAnalysts, LiveGuards, GuardLive, Tasks
<1>5. ActiveWriters = {} /\ ActiveAnalysts = {} /\ LiveGuards = {}
  BY <1>1, <1>2, CounterZero, NoAttemptNoGuard DEF Quiet
<1>6. ~Leased /\ ~StillReserved /\ ~Leased' /\ ~StillReserved'
  BY <1>2 DEF Quiet, Leased, StillReserved, Reserved
<1>7. CASE \E r \in Requests : BeginRuntimeResumption(r)
  <2>1. FenceState = "open" /\ FenceState' = "sealed"
    BY <1>1, <1>6, <1>7, FenceStateValue DEF BeginRuntimeResumption
  <2> QED
    BY <1>4, <1>5, <2>1 DEF Fence!Seal
<1>8. CASE CommitResumption \/ DropResumption
  <2>1. FenceState = "sealed" /\ FenceState' \in {"open", "retired"}
    BY <1>1, <1>6, <1>8, FenceStateValue DEF CommitResumption, DropResumption
  <2> QED
    BY <1>4, <2>1 DEF Fence!Unseal
<1> QED
  BY <1>7, <1>8

-----------------------------------------------------------------------------
(* The theorem *)

\* Snapshots are admitted only after recovery, which is never undone.
LEMMA NoEarlySnapshotInv ==
    ASSUME FenceInv, NoEarlySnapshot, [Next]_vars
    PROVE  NoEarlySnapshot'
<1>0. recovery_complete \in BOOLEAN /\ active_analysis \in Nat
  BY DEF FenceInv, TypeOK
<1>1. CASE FinishRecovery
  BY <1>1 DEF FinishRecovery, NoEarlySnapshot
<1>2. CASE \E a \in Analysts : BeginAnalysis(a) \/ EndAnalysis(a)
  <2>1. PICK a \in Analysts : BeginAnalysis(a) \/ EndAnalysis(a)
    BY <1>2
  <2>2. recovery_complete' = recovery_complete
    BY <2>1 DEF BeginAnalysis, EndAnalysis, admissionUnchanged
  <2>3. ~recovery_complete /\ active_analysis = 0 => active_analysis' = 0
    BY <2>1 DEF BeginAnalysis, EndAnalysis, AnalysisOpen
  <2> QED
    BY <1>0, <2>2, <2>3 DEF NoEarlySnapshot
<1>3. SUFFICES ASSUME ~FinishRecovery,
                      ~\E a \in Analysts : BeginAnalysis(a) \/ EndAnalysis(a)
               PROVE  UNCHANGED <<recovery_complete, active_analysis>>
  BY <1>0, <1>1, <1>2 DEF NoEarlySnapshot
<1>4. ASSUME NEW w \in Writers,
             BeginBackground(w) \/ TryBeginBackground(w) \/ EndBackground(w)
      PROVE  UNCHANGED <<recovery_complete, active_analysis>>
  BY <1>4 DEF BeginBackground, TryBeginBackground, EndBackground,
     AdmitBackground, admissionUnchanged
<1>5. ASSUME NEW t \in Writers \cup Analysts, CancelAdmission(t)
      PROVE  UNCHANGED <<recovery_complete, active_analysis>>
  BY <1>5 DEF CancelAdmission, admissionUnchanged
<1>6. ASSUME NEW c \in Callers, NEW r \in Requests, Acquire(c, r)
      PROVE  UNCHANGED <<recovery_complete, active_analysis>>
  BY <1>6 DEF Acquire, RefuseRepair, ConsumeReservation, RetryDurable,
     TakeProvisional, RegisterAndWait, grantUnchanged, admissionUnchanged
<1>7. ASSUME NEW c \in Callers, DropRegistration(c)
      PROVE  UNCHANGED <<recovery_complete, active_analysis>>
  BY <1>7 DEF DropRegistration, grantUnchanged
<1>8. ASSUME NEW c \in Callers, NEW m \in Manifests, AcquireVerification(c, m)
      PROVE  UNCHANGED <<recovery_complete, active_analysis>>
  BY <1>8 DEF AcquireVerification, grantUnchanged
<1>9. ASSUME NEW c \in Callers, RetainOnUncertainDrop(c) \/ SettleAttempt(c)
      PROVE  UNCHANGED <<recovery_complete, active_analysis>>
  BY <1>9 DEF RetainOnUncertainDrop, coordinatorVars, SettleAttempt,
     RetainUntilVerification, ReleaseAfterPrecommitFailure,
     ReleaseAfterVerification, HandoffAfterVerification, SettleRefused,
     DropGuard, settleUnchanged
<1>10. ASSUME ReservationFallsDue \/ MatchesHandoff
       PROVE  UNCHANGED <<recovery_complete, active_analysis>>
  BY <1>10 DEF ReservationFallsDue, MatchesHandoff, admissionUnchanged
<1>11. ASSUME NEW g \in Tokens, ExpireReservedRepair(g)
       PROVE  UNCHANGED <<recovery_complete, active_analysis>>
  BY <1>11 DEF ExpireReservedRepair
<1>12. ASSUME NEW r \in Requests,
              RearmApprovedRepair(r) \/ BeginRuntimeResumption(r)
       PROVE  UNCHANGED <<recovery_complete, active_analysis>>
  BY <1>12 DEF RearmApprovedRepair, BeginRuntimeResumption, sealUnchanged
<1>13. ASSUME CommitResumption \/ DropResumption
       PROVE  UNCHANGED <<recovery_complete, active_analysis>>
  BY <1>13 DEF CommitResumption, DropResumption, sealUnchanged
<1>14. ASSUME UNCHANGED vars
       PROVE  UNCHANGED <<recovery_complete, active_analysis>>
  BY <1>14 DEF vars, coordinatorVars
<1> QED
  BY <1>3, <1>4, <1>5, <1>6, <1>7, <1>8, <1>9, <1>10, <1>11, <1>12, <1>13,
     <1>14 DEF Next

\* A fresh coordinator is an open, empty fence.
LEMMA InitRefines == Init => Fence!Init /\ NoEarlySnapshot
<1> SUFFICES ASSUME Init PROVE Fence!Init /\ NoEarlySnapshot
  OBVIOUS
<1>1. ActiveWriters = {} /\ ActiveAnalysts = {} /\ LiveGuards = {}
  BY DEF Init, ActiveWriters, ActiveAnalysts, LiveGuards, GuardLive, Tasks
<1>2. ~Leased /\ ~StillReserved /\ runtime_resumption = "none"
  BY DEF Init, Leased, StillReserved, Reserved, NoLease, NoReservation
<1>3. FenceState = "open"
  BY <1>2 DEF FenceState
<1> QED
  BY <1>1, <1>3 DEF Fence!Init, Init, NoEarlySnapshot

\* Every critical section is one step of the abstract fence or invisible.
LEMMA NextRefines ==
    ASSUME FenceInv, FenceInv', NoEarlySnapshot, [Next]_vars
    PROVE  [Fence!Next]_(Fence!vars)
<1>1. CASE FinishRecovery
  BY <1>1, SweepStutters
<1>2. CASE \E w \in Writers :
             BeginBackground(w) \/ TryBeginBackground(w) \/ EndBackground(w)
  BY <1>2, WriterBegins, WriterLeaves DEF Fence!Next
<1>3. CASE \E a \in Analysts : BeginAnalysis(a) \/ EndAnalysis(a)
  BY <1>3, AnalystBegins, AnalystLeaves DEF Fence!Next
<1>4. CASE \E t \in Writers \cup Analysts : CancelAdmission(t)
  BY <1>4, RefusedTaskStutters DEF CancelAdmission
<1>5. CASE \E c \in Callers, r \in Requests : Acquire(c, r)
  BY <1>5, AcquireBegins, WaitingStepsStutter DEF Acquire, Fence!Next
<1>6. CASE \E c \in Callers : DropRegistration(c)
  BY <1>6, DropRegistrationStutters
<1>7. CASE \E c \in Callers, m \in Manifests : AcquireVerification(c, m)
  BY <1>7, VerificationBegins DEF Fence!Next
<1>8. CASE \E c \in Callers : RetainOnUncertainDrop(c) \/ SettleAttempt(c)
  BY <1>8, MarkedGuardStutters, SettleAttemptEnds DEF Fence!Next
<1>9. CASE ReservationFallsDue \/ MatchesHandoff
  BY <1>9, ReservationLapses, SweepStutters DEF Fence!Next
<1>10. CASE \E g \in Tokens : ExpireReservedRepair(g)
  BY <1>10, SweepStutters
<1>11. CASE \E r \in Requests : RearmApprovedRepair(r)
  BY <1>11, RearmArms DEF Fence!Next
<1>12. CASE \/ \E r \in Requests : BeginRuntimeResumption(r)
            \/ CommitResumption \/ DropResumption
  BY <1>12, SealSteps DEF Fence!Next
<1>13. CASE UNCHANGED vars
  BY <1>13
     DEF vars, coordinatorVars, Fence!vars, ActiveWriters, ActiveAnalysts,
         LiveGuards, GuardLive, FenceState, Leased, StillReserved, Reserved
<1> QED
  BY <1>1, <1>2, <1>3, <1>4, <1>5, <1>6, <1>7, <1>8, <1>9, <1>10, <1>11,
     <1>12, <1>13 DEF Next

\* The coordinator implements the write fence: whatever its callers, writers,
\* snapshots, timers and startup do, each critical section of
\* maintenance_coordinator.rs is one step of WriteFence or leaves it alone.
THEOREM CoordinatorImplementsFence == Spec => ImplementsWriteFence
<1>1. Spec => []NoEarlySnapshot
  BY InitRefines, FenceInvariant, NoEarlySnapshotInv, PTL DEF Spec
<1>2. FenceInv /\ FenceInv' /\ NoEarlySnapshot /\ [Next]_vars
        => [Fence!Next]_(Fence!vars)
  BY NextRefines
<1> QED
  BY <1>1, <1>2, InitRefines, FenceInvariant, PTL
     DEF Spec, ImplementsWriteFence, Fence!Spec
=============================================================================
