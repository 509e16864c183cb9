------------------------- MODULE GenesisShadowProofs -------------------------
(***************************************************************************)
(* Proofs about the genesis pipeline's tables, for every number of spaces, *)
(* candidates and roots, every grouping and scope, every cap and limit and *)
(* every number of graph moves and crashes.                                *)
(***************************************************************************)
EXTENDS GenesisShadow, TLAPS

\* A candidate that can still be charged has an attempt left.
AttemptsLeft ==
    \A c \in Candidates :
        cand[c].state \in {"none", "observed", "prepared"} =>
            cand[c].attempt <= AttemptLimit

\* A generation counts moves of the graph.
GenerationsCounted == \A s \in Spaces : generation[s] <= moves

\* No two exclusive claims share an independence group.
ClaimsExclusive ==
    \A c, d \in Concepts : c # d =>
        \A r \in LiveRoots(c), q \in LiveRoots(d) : Group[r] # Group[q]

\* Once the turn is past its reconciliation, no eligible group of its space
\* has two reasons.
TurnReconciled ==
    pc \in {"prepare", "finalize"} =>
        \A g \in Eligible(rotation) : ~DoubleBooked(rotation, g)

GenesisInv ==
    /\ TypeOK
    /\ AttemptsLeft
    /\ GenerationsCounted
    /\ ClaimsExclusive
    /\ TurnReconciled
    /\ NoGroupLost
    /\ OwnedLeaseHasWork
    /\ PassedHoldsItsClaims

-----------------------------------------------------------------------------
(* The initial state and the steps that leave the tables alone *)

\* Empty tables over a grounded graph satisfy the invariant.
LEMMA InitInv == Init => GenesisInv
<1> SUFFICES ASSUME Init PROVE GenesisInv
  OBVIOUS
<1> USE GenesisAssumption DEF Init
<1>1. TypeOK
  <2>1. [state |-> "none", gen |-> 0, digest |-> {}, attempt |-> 0,
         due |-> TRUE, verdict |-> "none"] \in Candidate
    BY DEF Candidate, CandidateStates
  <2>2. 0 \in Spaces
    BY DEF Spaces
  <2>3. /\ generation \in [Spaces -> 0 .. MaxMoves]
        /\ lease \in [Spaces -> Lease \cup {NoLease}]
        /\ claims \in [Candidates -> [Roots -> {"none", "live", "released"}]]
    OBVIOUS
  <2>4. cand \in [Candidates -> Candidate]
    BY <2>1
  <2>5. recovered \in BOOLEAN
    OBVIOUS
  <2>6. /\ grounded \subseteq Edges /\ frontier \subseteq Spaces \X Groups
        /\ todo \subseteq Candidates
    OBVIOUS
  <2>7. moves \in 0 .. MaxMoves /\ crashes \in 0 .. MaxCrashes
    OBVIOUS
  <2>8. rotation \in Spaces
    BY <2>2
  <2>9. pc \in {"idle", "recover", "reconcile", "prepare", "finalize"}
    OBVIOUS
  <2> HIDE DEF Init
  <2> QED
    BY <2>3, <2>4, <2>5, <2>6, <2>7, <2>8, <2>9 DEF TypeOK
<1>2. AttemptsLeft /\ GenerationsCounted
  BY DEF AttemptsLeft, GenerationsCounted
<1>3. \A c \in Candidates : LiveRoots(c) = {} /\ ClaimRoots(c) = {}
  BY DEF LiveRoots, ClaimRoots
<1>4. ClaimsExclusive /\ NoGroupLost
  BY <1>3 DEF ClaimsExclusive, NoGroupLost
<1>5. TurnReconciled /\ OwnedLeaseHasWork /\ PassedHoldsItsClaims
  BY DEF TurnReconciled, OwnedLeaseHasWork, PassedHoldsItsClaims, Passed
<1> QED
  BY <1>1, <1>2, <1>4, <1>5 DEF GenesisInv

\* The driver's own variables may change as they like while the tables and
\* the graph stay, except that only the reconciliation starts the writing
\* part of a turn.
LEMMA DriverInv ==
    ASSUME GenesisInv, UNCHANGED <<graph, tables>>,
           recovered' \in BOOLEAN, rotation' \in Spaces,
           todo' \subseteq Candidates, crashes' \in 0 .. MaxCrashes,
           pc' \in {"idle", "recover", "reconcile", "prepare", "finalize"},
           pc' \in {"prepare", "finalize"} =>
              pc \in {"prepare", "finalize"} /\ rotation' = rotation
    PROVE  GenesisInv'
<1> USE GenesisAssumption DEF GenesisInv, graph, tables
<1>1. TypeOK'
  BY DEF TypeOK
<1>2. AttemptsLeft' /\ GenerationsCounted'
  BY DEF AttemptsLeft, GenerationsCounted
<1>3. ClaimsExclusive'
  BY DEF ClaimsExclusive, LiveRoots
<1>4. TurnReconciled'
  BY DEF TurnReconciled, Eligible, DoubleBooked, Reserved, LiveRoots
<1>5. NoGroupLost'
  BY DEF NoGroupLost, ClaimRoots, Accounted, Reserved, LiveRoots
<1>6. OwnedLeaseHasWork'
  BY DEF OwnedLeaseHasWork
<1>7. PassedHoldsItsClaims'
  BY DEF PassedHoldsItsClaims, Passed, LiveRoots
<1> QED
  BY <1>1, <1>2, <1>3, <1>4, <1>5, <1>6, <1>7

\* The steps of a turn that only move the driver on, and a crash.
LEMMA DriverStepsInv ==
    ASSUME GenesisInv,
           \/ BeginTurn \/ RecoveryEnds \/ PrepareEnds \/ TurnIdles \/ Crash
           \/ UNCHANGED vars
           \/ \E c \in Candidates : PrepareRefusedBudget(c)
    PROVE  GenesisInv'
<1> USE GenesisAssumption
<1>0. TypeOK
  BY DEF GenesisInv
<1>1. CASE BeginTurn
  BY <1>0, <1>1, DriverInv DEF BeginTurn, TypeOK
<1>2. CASE RecoveryEnds
  BY <1>0, <1>2, DriverInv DEF RecoveryEnds, TypeOK
<1>3. CASE PrepareEnds
  BY <1>0, <1>3, DriverInv DEF PrepareEnds, TypeOK
<1>4. CASE TurnIdles
  <2>1. rotation' \in Spaces
    BY <1>0, <1>4 DEF TurnIdles, TypeOK, Spaces
  <2> QED
    BY <1>0, <1>4, <2>1, DriverInv DEF TurnIdles, TypeOK
<1>5. CASE Crash
  <2>1. rotation' \in Spaces
    BY <1>5 DEF Crash, Spaces
  <2>2. crashes' \in 0 .. MaxCrashes
    BY <1>0, <1>5 DEF Crash, TypeOK
  <2> QED
    BY <1>5, <2>1, <2>2, DriverInv DEF Crash
<1>6. CASE UNCHANGED vars
  BY <1>0, <1>6, DriverInv DEF vars, graph, tables, TypeOK
<1>7. CASE \E c \in Candidates : PrepareRefusedBudget(c)
  BY <1>0, <1>7, DriverInv DEF PrepareRefusedBudget, next_proposal, TypeOK
<1> QED
  BY <1>1, <1>2, <1>3, <1>4, <1>5, <1>6, <1>7

\* A lease that expires has no owner any more.
LEMMA LeaseExpiresInv ==
    ASSUME GenesisInv, NEW s \in Spaces, LeaseExpires(s)
    PROVE  GenesisInv'
<1> USE GenesisAssumption DEF GenesisInv, LeaseExpires, graph, driver
<1>1. TypeOK'
  BY DEF TypeOK
<1>2. AttemptsLeft' /\ GenerationsCounted'
  BY DEF AttemptsLeft, GenerationsCounted
<1>3. ClaimsExclusive'
  BY DEF ClaimsExclusive, LiveRoots
<1>4. TurnReconciled'
  BY DEF TurnReconciled, Eligible, DoubleBooked, Reserved, LiveRoots
<1>5. NoGroupLost'
  BY DEF NoGroupLost, ClaimRoots, Accounted, Reserved, LiveRoots
<1>6. OwnedLeaseHasWork' /\ PassedHoldsItsClaims'
  BY DEF TypeOK, OwnedLeaseHasWork, PassedHoldsItsClaims, Passed, LiveRoots
<1> QED
  BY <1>1, <1>2, <1>3, <1>4, <1>5, <1>6

\* What an elapsed backoff does to the candidates.
LEMMA ElapsedRow ==
    ASSUME TypeOK, NEW c \in Candidates, BackoffElapses(c)
    PROVE  /\ cand' \in [Candidates -> Candidate]
           /\ \A d \in Candidates :
                /\ cand'[d].state = cand[d].state /\ cand'[d].gen = cand[d].gen
                /\ cand'[d].digest = cand[d].digest
                /\ cand'[d].attempt = cand[d].attempt
                /\ cand'[d].verdict = cand[d].verdict
<1> USE DEF BackoffElapses
<1>1. cand \in [Candidates -> Candidate]
  BY DEF TypeOK
<1> DEFINE k == cand[c]
<1>2. /\ cand'[c] = [k EXCEPT !.due = TRUE] /\ k \in Candidate
      /\ \A d \in Candidates \ {c} : cand'[d] = cand[d]
  BY <1>1
<1>3. ASSUME NEW d \in Candidates
      PROVE  /\ cand'[d] \in Candidate
             /\ cand'[d].state = cand[d].state /\ cand'[d].gen = cand[d].gen
             /\ cand'[d].digest = cand[d].digest
             /\ cand'[d].attempt = cand[d].attempt
             /\ cand'[d].verdict = cand[d].verdict
  <2>1. CASE d = c
    <3> HIDE DEF k
    <3>1. [k EXCEPT !.due = TRUE] \in Candidate
      BY <1>2 DEF Candidate
    <3>2. /\ cand'[c].state = k.state /\ cand'[c].gen = k.gen
          /\ cand'[c].digest = k.digest /\ cand'[c].attempt = k.attempt
          /\ cand'[c].verdict = k.verdict
      BY <1>2 DEF Candidate
    <3> QED
      BY <1>2, <2>1, <3>1, <3>2 DEF k
  <2>2. CASE d # c
    BY <1>1, <1>2, <2>2
  <2> QED
    BY <2>1, <2>2
<1> QED
  BY <1>1, <1>3

\* A backoff that elapses makes its candidate due and nothing else.
LEMMA BackoffElapsesInv ==
    ASSUME GenesisInv, NEW c \in Candidates, BackoffElapses(c)
    PROVE  GenesisInv'
<1> USE GenesisAssumption DEF GenesisInv, BackoffElapses, graph, driver
<1>1. /\ cand' \in [Candidates -> Candidate]
      /\ \A d \in Candidates :
           /\ cand'[d].state = cand[d].state /\ cand'[d].gen = cand[d].gen
           /\ cand'[d].digest = cand[d].digest
           /\ cand'[d].attempt = cand[d].attempt
           /\ cand'[d].verdict = cand[d].verdict
  BY ElapsedRow
<1>2. TypeOK'
  BY <1>1 DEF TypeOK
<1>3. AttemptsLeft' /\ GenerationsCounted'
  BY <1>1 DEF AttemptsLeft, GenerationsCounted
<1>4. ClaimsExclusive'
  BY DEF ClaimsExclusive, LiveRoots
<1>5. TurnReconciled'
  BY DEF TurnReconciled, Eligible, DoubleBooked, Reserved, LiveRoots
<1>6. NoGroupLost'
  BY DEF NoGroupLost, ClaimRoots, Accounted, Reserved, LiveRoots
<1>7. OwnedLeaseHasWork' /\ PassedHoldsItsClaims'
  BY <1>1 DEF OwnedLeaseHasWork, PassedHoldsItsClaims, Passed, LiveRoots
<1> QED
  BY <1>2, <1>3, <1>4, <1>5, <1>6, <1>7

\* The graph moves between turns, when nothing is reconciled yet.
LEMMA EdgeMovesInv ==
    ASSUME GenesisInv, NEW e \in Edges, EdgeMoves(e)
    PROVE  GenesisInv'
<1> USE GenesisAssumption DEF GenesisInv, EdgeMoves, tables, driver
<1>1. /\ generation' \in [Spaces -> 0 .. MaxMoves]
      /\ \A s \in Spaces : generation'[s] <= moves'
  BY DEF TypeOK, GenerationsCounted
<1>2. TypeOK'
  BY <1>1 DEF TypeOK
<1>3. AttemptsLeft' /\ GenerationsCounted'
  BY <1>1 DEF AttemptsLeft, GenerationsCounted
<1>4. ClaimsExclusive'
  BY DEF ClaimsExclusive, LiveRoots
<1>5. TurnReconciled'
  BY DEF TurnReconciled
<1>6. NoGroupLost'
  BY DEF NoGroupLost, ClaimRoots, Accounted, Reserved, LiveRoots
<1>7. OwnedLeaseHasWork' /\ PassedHoldsItsClaims'
  BY DEF OwnedLeaseHasWork, PassedHoldsItsClaims, Passed, LiveRoots
<1> QED
  BY <1>2, <1>3, <1>4, <1>5, <1>6, <1>7

\* The reconciliation adds frontier rows only for groups with no reason, and
\* goes on only if none has two.
LEMMA ReconcileInv ==
    ASSUME GenesisInv, Reconcile
    PROVE  GenesisInv'
<1> USE GenesisAssumption DEF GenesisInv, Reconcile, graph
<1> DEFINE missing == {g \in Eligible(rotation) : ~Accounted(rotation, g)}
           refused == \E g \in Eligible(rotation) : DoubleBooked(rotation, g)
<1>1. Eligible(rotation) \subseteq Groups
  BY DEF Eligible, Groups, TypeOK
<1>2. /\ frontier \subseteq frontier'
      /\ frontier' \subseteq frontier \cup {<<rotation, g>> : g \in missing}
  OBVIOUS
<1>3. TypeOK'
  <2>1. frontier' \subseteq Spaces \X Groups
    BY <1>1, <1>2 DEF TypeOK
  <2>2. todo' \subseteq Candidates
    BY DEF Considered
  <2> QED
    BY <2>1, <2>2 DEF TypeOK
<1>4. AttemptsLeft' /\ GenerationsCounted'
  BY DEF AttemptsLeft, GenerationsCounted
<1>5. ClaimsExclusive'
  BY DEF ClaimsExclusive, LiveRoots
<1>6. TurnReconciled'
  <2> SUFFICES ASSUME pc' \in {"prepare", "finalize"} PROVE TurnReconciled'
    BY DEF TurnReconciled
  <2>1. ~refused /\ frontier' = frontier
    OBVIOUS
  <2>2. /\ Eligible(rotation)' = Eligible(rotation)
        /\ \A g : DoubleBooked(rotation, g)' <=> DoubleBooked(rotation, g)
    BY <2>1 DEF Eligible, DoubleBooked, Reserved, LiveRoots
  <2> QED
    BY <2>1, <2>2 DEF TurnReconciled
<1>7. NoGroupLost'
  BY <1>2 DEF NoGroupLost, ClaimRoots, Accounted, Reserved, LiveRoots
<1>8. OwnedLeaseHasWork'
  BY DEF OwnedLeaseHasWork
<1>9. PassedHoldsItsClaims'
  BY DEF PassedHoldsItsClaims, Passed, LiveRoots
<1> QED
  BY <1>3, <1>4, <1>5, <1>6, <1>7, <1>8, <1>9

-----------------------------------------------------------------------------
(* mark_stale *)

\* What mark_stale does to the candidates: this one is stale, the others are
\* left alone.
LEMMA StaleCandidate ==
    ASSUME TypeOK, NEW c \in Candidates, NEW delay \in BOOLEAN,
           mark_stale(c, delay)
    PROVE  /\ cand' \in [Candidates -> Candidate]
           /\ \A d \in Candidates \ {c} : cand'[d] = cand[d]
           /\ cand'[c].state = "stale"
<1> DEFINE k == cand[c]
           k1 == [k EXCEPT !.state = "stale", !.due = ~delay]
<1>1. k \in Candidate /\ cand \in [Candidates -> Candidate]
  BY DEF TypeOK
<1>2. cand' = [cand EXCEPT ![c] = k1]
  BY DEF mark_stale
<1> HIDE DEF k
<1>3. k1 \in Candidate /\ k1.state = "stale"
  BY <1>1 DEF Candidate, CandidateStates
<1> HIDE DEF k1
<1> QED
  BY <1>1, <1>2, <1>3

\* What it does to the claims: those of the candidate are released, and none
\* is forgotten.
LEMMA StaleClaims ==
    ASSUME TypeOK, NEW c \in Candidates, NEW delay \in BOOLEAN,
           mark_stale(c, delay)
    PROVE  /\ claims' \in [Candidates -> [Roots -> {"none", "live", "released"}]]
           /\ \A d \in Candidates \ {c} : claims'[d] = claims[d]
           /\ \A d \in Candidates \ {c} : LiveRoots(d)' = LiveRoots(d)
           /\ LiveRoots(c)' = {}
           /\ \A d \in Candidates : ClaimRoots(d)' = ClaimRoots(d)
<1>1. claims \in [Candidates -> [Roots -> {"none", "live", "released"}]]
  BY DEF TypeOK
<1>2. /\ \A d \in Candidates \ {c} : claims'[d] = claims[d]
      /\ claims'[c] = [r \in Roots |-> IF claims[c][r] = "live" THEN "released"
                                       ELSE claims[c][r]]
      /\ claims' \in [Candidates -> [Roots -> {"none", "live", "released"}]]
  BY <1>1 DEF mark_stale
<1> QED
  BY <1>1, <1>2 DEF LiveRoots, ClaimRoots

\* What it does to the lease: the candidate holds it no more.
LEMMA StaleLease ==
    ASSUME TypeOK, NEW c \in Candidates, NEW delay \in BOOLEAN,
           mark_stale(c, delay)
    PROVE  /\ lease' \in [Spaces -> Lease \cup {NoLease}]
           /\ \A d \in Candidates :
                lease'[SpaceOf[d]] # NoLease /\ lease'[SpaceOf[d]].holder = d =>
                   d # c /\ lease'[SpaceOf[d]] = lease[SpaceOf[d]]
<1> DEFINE s == SpaceOf[c]
           l == lease[s]
           l1 == IF l # NoLease /\ l.holder = c THEN [l EXCEPT !.holder = Nobody]
                                                ELSE l
<1> USE GenesisAssumption
<1>1. lease \in [Spaces -> Lease \cup {NoLease}] /\ s \in Spaces
  BY DEF TypeOK
<1>2. lease' = [lease EXCEPT ![s] = l1]
  BY DEF mark_stale
<1>3. /\ l1 \in Lease \cup {NoLease}
      /\ l1 # NoLease => l1.holder # c
      /\ l1 = l \/ l1.holder = Nobody
  <2>1. CASE l # NoLease /\ l.holder = c
    <3>1. l \in Lease
      BY <1>1, <2>1
    <3> HIDE DEF l
    <3>2. [l EXCEPT !.holder = Nobody] \in Lease
          /\ [l EXCEPT !.holder = Nobody].holder = Nobody
      BY <3>1 DEF Lease
    <3> QED
      BY <2>1, <3>2
  <2>2. CASE ~(l # NoLease /\ l.holder = c)
    BY <1>1, <2>2
  <2> QED
    BY <2>1, <2>2
<1> HIDE DEF l1
<1>4. lease' \in [Spaces -> Lease \cup {NoLease}]
  BY <1>1, <1>2, <1>3
<1>5. ASSUME NEW d \in Candidates, lease'[SpaceOf[d]] # NoLease,
             lease'[SpaceOf[d]].holder = d
      PROVE  d # c /\ lease'[SpaceOf[d]] = lease[SpaceOf[d]]
  <2>1. CASE SpaceOf[d] = s
    <3>1. lease'[SpaceOf[d]] = l1
      BY <1>1, <1>2, <2>1
    <3> QED
      BY <1>3, <1>5, <2>1, <3>1
  <2>2. CASE SpaceOf[d] # s
    BY <1>1, <1>2, <2>2
  <2> QED
    BY <2>1, <2>2
<1> QED
  BY <1>4, <1>5

\* Staling a candidate keeps the invariant: its groups are on the frontier
\* when its claims go.
LEMMA MarkStaleInv ==
    ASSUME GenesisInv, NEW c \in Candidates, NEW delay \in BOOLEAN,
           mark_stale(c, delay), UNCHANGED <<graph, recovered, rotation, crashes>>,
           todo' \subseteq Candidates, pc' \in {"idle", "recover"}
    PROVE  GenesisInv'
<1> USE GenesisAssumption DEF GenesisInv, graph
<1> DEFINE back == IF c \in Concepts
                     THEN {<<SpaceOf[c], Group[r]>> : r \in LiveRoots(c)} ELSE {}
<1>1. /\ cand' \in [Candidates -> Candidate]
      /\ \A d \in Candidates \ {c} : cand'[d] = cand[d]
      /\ cand'[c].state = "stale"
  BY StaleCandidate
<1>2. /\ claims' \in [Candidates -> [Roots -> {"none", "live", "released"}]]
      /\ \A d \in Candidates \ {c} : claims'[d] = claims[d]
      /\ \A d \in Candidates \ {c} : LiveRoots(d)' = LiveRoots(d)
      /\ LiveRoots(c)' = {}
      /\ \A d \in Candidates : ClaimRoots(d)' = ClaimRoots(d)
  BY StaleClaims
<1>3. frontier' = frontier \cup back
  BY DEF mark_stale
<1>4. TypeOK'
  <2>1. frontier' \subseteq Spaces \X Groups
    BY <1>3 DEF TypeOK, LiveRoots, Groups
  <2> QED
    BY <1>1, <1>2, <2>1, StaleLease DEF TypeOK
<1>5. AttemptsLeft' /\ GenerationsCounted'
  BY <1>1 DEF AttemptsLeft, GenerationsCounted
<1>6. ClaimsExclusive'
  BY <1>2 DEF ClaimsExclusive
<1>7. TurnReconciled'
  BY DEF TurnReconciled
<1>8. NoGroupLost'
  <2> SUFFICES ASSUME NEW d \in Concepts, NEW r \in ClaimRoots(d)
               PROVE  Accounted(SpaceOf[d], Group[r])'
    BY <1>2 DEF NoGroupLost
  <2>1. Reserved(SpaceOf[d], Group[r]) \/ <<SpaceOf[d], Group[r]>> \in frontier
    BY DEF NoGroupLost, Accounted
  <2>2. CASE <<SpaceOf[d], Group[r]>> \in frontier
    BY <1>3, <2>2 DEF Accounted
  <2>3. CASE Reserved(SpaceOf[d], Group[r])
    <3>1. PICK b \in Concepts : SpaceOf[b] = SpaceOf[d]
                                /\ \E q \in LiveRoots(b) : Group[q] = Group[r]
      BY <2>3 DEF Reserved
    <3>2. CASE b = c
      <4>1. <<SpaceOf[d], Group[r]>> \in back
        BY <3>1, <3>2
      <4> QED
        BY <1>3, <4>1 DEF Accounted
    <3>3. CASE b # c
      BY <1>2, <3>1, <3>3 DEF Accounted, Reserved
    <3> QED
      BY <3>2, <3>3
  <2> QED
    BY <2>1, <2>2, <2>3
<1>9. OwnedLeaseHasWork'
  BY <1>1, StaleLease DEF OwnedLeaseHasWork
<1>10. PassedHoldsItsClaims'
  <2> SUFFICES ASSUME NEW d \in Concepts, Passed(d)', NEW r \in cand'[d].digest
               PROVE  /\ claims'[d][r] = "live"
                      /\ \A b \in Concepts \ {d} :
                           \A q \in LiveRoots(b)' : Group[q] # Group[r]
    BY DEF PassedHoldsItsClaims
  <2>1. d # c /\ cand'[d] = cand[d] /\ claims'[d] = claims[d]
    BY <1>1, <1>2 DEF Passed
  <2>2. /\ claims[d][r] = "live"
        /\ \A b \in Concepts \ {d} : \A q \in LiveRoots(b) : Group[q] # Group[r]
    BY <2>1 DEF PassedHoldsItsClaims, Passed
  <2>3. \A b \in Candidates : LiveRoots(b)' \subseteq LiveRoots(b)
    BY <1>2
  <2> QED
    BY <2>1, <2>2, <2>3
<1> QED
  BY <1>4, <1>5, <1>6, <1>7, <1>8, <1>9, <1>10

\* The recovery scan stales a candidate whose lease is gone, or passes it by.
LEMMA RecoverCandidateInv ==
    ASSUME GenesisInv, NEW c \in Candidates, RecoverCandidate(c)
    PROVE  GenesisInv'
<1> USE DEF RecoverCandidate
<1>1. todo' \subseteq Candidates /\ pc' = "recover"
  BY DEF GenesisInv, TypeOK
<1>2. CASE cand[c].state \in RecoverableStates /\ ~Owns(c)
  <2>1. mark_stale(c, cand[c].attempt > 0) /\ (cand[c].attempt > 0) \in BOOLEAN
    BY <1>2
  <2> QED
    BY <1>1, <2>1, MarkStaleInv
<1>3. CASE ~(cand[c].state \in RecoverableStates /\ ~Owns(c))
  BY <1>1, <1>3, DriverInv DEF GenesisInv, TypeOK
<1> QED
  BY <1>2, <1>3

\* Parking an exhausted candidate is staling it.
LEMMA PrepareParksInv ==
    ASSUME GenesisInv, NEW c \in Candidates, PrepareParks(c)
    PROVE  GenesisInv'
  BY MarkStaleInv DEF PrepareParks

-----------------------------------------------------------------------------
(* The preparation *)

\* The row after the observation has its type, an attempt left unless it
\* waits or is stale, and is the old row if there was one.
LEMMA ObservedRow ==
    ASSUME GenesisInv, NEW c \in Candidates
    PROVE  /\ observed(c) \in Candidate
           /\ observed(c).state # "none"
           /\ observed(c).state \in {"observed", "prepared"} =>
                 observed(c).attempt <= AttemptLimit
           /\ cand[c].state # "none" => observed(c) = cand[c]
           /\ cand[c].state = "none" => observed(c).state = "observed"
<1> DEFINE k == cand[c]
           g == generation[SpaceOf[c]]
           p == Proposal(c)
           k1 == [k EXCEPT !.state = "observed", !.gen = g, !.digest = p]
<1> USE GenesisAssumption
<1>1. k \in Candidate /\ g \in 0 .. MaxMoves /\ p \in SUBSET Roots
  BY DEF GenesisInv, TypeOK, Proposal
<1>2. k.state \in {"none", "observed", "prepared"} => k.attempt <= AttemptLimit
  BY DEF GenesisInv, AttemptsLeft
<1>3. observed(c) = IF k.state # "none" THEN k ELSE k1
  BY DEF observed
<1> HIDE DEF k, g, p
<1>4. k1 \in Candidate /\ k1.state = "observed" /\ k1.attempt = k.attempt
  BY <1>1 DEF Candidate, CandidateStates
<1> HIDE DEF k1
<1>5. CASE k.state # "none"
  BY <1>1, <1>2, <1>3, <1>5 DEF k
<1>6. CASE k.state = "none"
  BY <1>2, <1>3, <1>4, <1>6 DEF k
<1> QED
  BY <1>5, <1>6

\* A skipped proposal leaves at most its observation.
LEMMA PrepareSkipsInv ==
    ASSUME GenesisInv, NEW c \in Candidates, PrepareSkips(c)
    PROVE  GenesisInv'
<1> USE GenesisAssumption DEF GenesisInv, PrepareSkips, next_proposal, graph
<1>1. /\ cand' \in [Candidates -> Candidate] /\ cand'[c] = observed(c)
      /\ \A d \in Candidates \ {c} : cand'[d] = cand[d]
  BY ObservedRow DEF TypeOK
<1>2. TypeOK'
  BY <1>1 DEF TypeOK
<1>3. AttemptsLeft'
  BY <1>1, ObservedRow DEF AttemptsLeft
<1>4. GenerationsCounted'
  BY DEF GenerationsCounted
<1>5. ClaimsExclusive'
  BY DEF ClaimsExclusive, LiveRoots
<1>6. TurnReconciled'
  BY DEF TurnReconciled, Eligible, DoubleBooked, Reserved, LiveRoots
<1>7. NoGroupLost'
  BY DEF NoGroupLost, ClaimRoots, Accounted, Reserved, LiveRoots
<1>8. \A d \in Candidates : cand'[d].state = "prepared" => cand'[d] = cand[d]
  BY <1>1, ObservedRow
<1>9. \A d \in Candidates : cand[d].state = "prepared" => cand'[d] = cand[d]
  BY <1>1, ObservedRow
<1>10. OwnedLeaseHasWork'
  BY <1>9 DEF OwnedLeaseHasWork
<1>11. PassedHoldsItsClaims'
  <2>1. \A d \in Concepts : Passed(d)' => Passed(d) /\ cand'[d] = cand[d]
    BY <1>8 DEF Passed
  <2>2. \A d : LiveRoots(d)' = LiveRoots(d)
    BY DEF LiveRoots
  <2> QED
    BY <2>1, <2>2 DEF PassedHoldsItsClaims
<1> QED
  BY <1>2, <1>3, <1>4, <1>5, <1>6, <1>7, <1>10, <1>11

\* The inserts that the two unique indexes let through share no group with a
\* live claim of another candidate.
LEMMA AcceptedIsFree ==
    ASSUME TypeOK, NEW c \in Candidates
    PROVE  /\ accepted(c) \subseteq Proposal(c)
           /\ Proposal(c) \subseteq Roots
           /\ c \in Concepts =>
                \A r \in accepted(c) : \A d \in Concepts \ {c} :
                   \A q \in LiveRoots(d) : Group[q] # Group[r]
           /\ conflicting(c) = {} => accepted(c) = Proposal(c)
<1> USE GenesisAssumption
<1>1. /\ accepted(c) \subseteq Proposal(c) /\ Proposal(c) \subseteq Roots
      /\ conflicting(c) = {} => accepted(c) = Proposal(c)
  BY DEF accepted, Proposal
<1>2. ASSUME c \in Concepts, NEW r \in accepted(c), NEW d \in Concepts \ {c},
             NEW q \in LiveRoots(d)
      PROVE  Group[q] # Group[r]
  <2>1. r \notin conflicting(c)
    <3>1. r \in Nat
      BY <1>1
    <3>2. \A x \in conflicting(c) : r < x
      BY DEF accepted
    <3> QED
      BY <3>1, <3>2
  <2> QED
    BY <1>1, <1>2, <2>1 DEF conflicting
<1> QED
  BY <1>1, <1>2

\* What inserting live claims does to the table.
LEMMA InsertedClaims ==
    ASSUME TypeOK, NEW c \in Candidates, NEW roots \in SUBSET Roots,
           insert_claims(c, roots)
    PROVE  /\ claims' \in [Candidates -> [Roots -> {"none", "live", "released"}]]
           /\ \A d \in Candidates \ {c} : claims'[d] = claims[d]
           /\ \A d \in Candidates \ {c} : LiveRoots(d)' = LiveRoots(d)
           /\ \A d \in Candidates \ {c} : ClaimRoots(d)' = ClaimRoots(d)
           /\ LiveRoots(c)' = LiveRoots(c) \cup roots
           /\ ClaimRoots(c)' = ClaimRoots(c) \cup roots
<1>1. claims \in [Candidates -> [Roots -> {"none", "live", "released"}]]
  BY DEF TypeOK
<1>2. /\ \A d \in Candidates \ {c} : claims'[d] = claims[d]
      /\ claims'[c] = [r \in Roots |-> IF r \in roots THEN "live"
                                       ELSE claims[c][r]]
      /\ claims' \in [Candidates -> [Roots -> {"none", "live", "released"}]]
  BY <1>1 DEF insert_claims
<1> QED
  BY <1>1, <1>2 DEF LiveRoots, ClaimRoots

\* New claims on free groups keep the claims apart.
LEMMA InsertedApart ==
    ASSUME GenesisInv, NEW c \in Candidates, insert_claims(c, accepted(c))
    PROVE  ClaimsExclusive'
<1> USE GenesisAssumption
<1>1. TypeOK /\ accepted(c) \in SUBSET Roots
  BY AcceptedIsFree DEF GenesisInv
<1> SUFFICES ASSUME NEW a \in Concepts, NEW b \in Concepts, a # b,
                    NEW r \in LiveRoots(a)', NEW q \in LiveRoots(b)'
             PROVE  Group[r] # Group[q]
  BY DEF ClaimsExclusive
<1>2. \A x \in Concepts, y \in Concepts : x # y =>
         \A i \in LiveRoots(x), j \in LiveRoots(y) : Group[i] # Group[j]
  BY DEF GenesisInv, ClaimsExclusive
<1>3. /\ \A d \in Candidates \ {c} : LiveRoots(d)' = LiveRoots(d)
      /\ LiveRoots(c)' = LiveRoots(c) \cup accepted(c)
  BY <1>1, InsertedClaims
<1>4. c \in Concepts => \A i \in accepted(c) : \A d \in Concepts \ {c} :
         \A j \in LiveRoots(d) : Group[j] # Group[i]
  BY <1>1, AcceptedIsFree
<1>5. CASE a = c
  BY <1>2, <1>3, <1>4, <1>5
<1>6. CASE b = c
  BY <1>2, <1>3, <1>4, <1>6
<1>7. CASE a # c /\ b # c
  BY <1>2, <1>3, <1>7
<1> QED
  BY <1>5, <1>6, <1>7


\* A refused prepare commits its lease, its observation and the claims that
\* went through; they are live claims on free groups, and the lease is
\* nobody's.
LEMMA PrepareRefusedInv ==
    ASSUME GenesisInv, NEW c \in Candidates, PrepareRefused(c)
    PROVE  GenesisInv'
<1> USE GenesisAssumption DEF GenesisInv, PrepareRefused, graph
<1> DEFINE l == [holder |-> Nobody, gen |-> observed(c).gen]
<1>1. /\ cand' \in [Candidates -> Candidate] /\ cand'[c] = observed(c)
      /\ \A d \in Candidates \ {c} : cand'[d] = cand[d]
      /\ observed(c).state \in {"observed", "retry_wait", "stale"}
  BY ObservedRow DEF TypeOK, preparable
<1>2. accepted(c) \in SUBSET Roots
  BY AcceptedIsFree
<1>3. /\ claims' \in [Candidates -> [Roots -> {"none", "live", "released"}]]
      /\ \A d \in Candidates \ {c} : claims'[d] = claims[d]
      /\ \A d \in Candidates \ {c} : LiveRoots(d)' = LiveRoots(d)
      /\ \A d \in Candidates \ {c} : ClaimRoots(d)' = ClaimRoots(d)
      /\ LiveRoots(c)' = LiveRoots(c) \cup accepted(c)
      /\ ClaimRoots(c)' = ClaimRoots(c) \cup accepted(c)
  BY <1>2, InsertedClaims
<1>4. /\ lease' = [lease EXCEPT ![SpaceOf[c]] = l]
      /\ l \in Lease /\ l.holder = Nobody
  BY ObservedRow DEF acquire, Lease, Candidate
<1> HIDE DEF l
<1>5. TypeOK'
  BY <1>1, <1>3, <1>4 DEF TypeOK
<1>6. AttemptsLeft'
  BY <1>1, ObservedRow DEF AttemptsLeft
<1>7. GenerationsCounted' /\ TurnReconciled'
  BY DEF GenerationsCounted, TurnReconciled
<1>8. ClaimsExclusive'
  BY InsertedApart
<1>9. NoGroupLost'
  <2> SUFFICES ASSUME NEW d \in Concepts, NEW r \in ClaimRoots(d)'
               PROVE  Accounted(SpaceOf[d], Group[r])'
    BY DEF NoGroupLost
  <2>1. CASE d = c /\ r \in accepted(c)
    BY <1>3, <2>1 DEF Accounted, Reserved
  <2>2. CASE r \in ClaimRoots(d)
    <3>1. Reserved(SpaceOf[d], Group[r]) \/ <<SpaceOf[d], Group[r]>> \in frontier
      BY <2>2 DEF NoGroupLost, Accounted
    <3>2. Reserved(SpaceOf[d], Group[r]) => Reserved(SpaceOf[d], Group[r])'
      <4>1. \A b \in Concepts : LiveRoots(b) \subseteq LiveRoots(b)'
        BY <1>3
      <4> QED
        BY <4>1 DEF Reserved
    <3> QED
      BY <3>1, <3>2 DEF Accounted
  <2> QED
    BY <1>3, <2>1, <2>2
<1>10. OwnedLeaseHasWork'
  <2> SUFFICES ASSUME NEW d \in Candidates, lease'[SpaceOf[d]] # NoLease,
                      lease'[SpaceOf[d]].holder = d
               PROVE  /\ cand'[d].state = "prepared"
                      /\ cand'[d].verdict = "unverified"
                      /\ lease'[SpaceOf[d]].gen = cand'[d].gen
    BY DEF OwnedLeaseHasWork
  <2>1. SpaceOf[d] # SpaceOf[c] /\ lease'[SpaceOf[d]] = lease[SpaceOf[d]]
    BY <1>4 DEF TypeOK
  <2> QED
    BY <1>1, <2>1 DEF OwnedLeaseHasWork
<1>11. PassedHoldsItsClaims'
  <2> SUFFICES ASSUME NEW d \in Concepts, Passed(d)', NEW r \in cand'[d].digest
               PROVE  /\ claims'[d][r] = "live"
                      /\ \A b \in Concepts \ {d} :
                           \A q \in LiveRoots(b)' : Group[q] # Group[r]
    BY DEF PassedHoldsItsClaims
  <2>1. d # c /\ cand'[d] = cand[d] /\ claims'[d] = claims[d]
    BY <1>1, <1>3 DEF Passed
  <2>2. claims[d][r] = "live" /\ r \in Roots
    BY <2>1 DEF PassedHoldsItsClaims, Passed, TypeOK, Candidate
  <2>3. r \in LiveRoots(d)'
    BY <1>3, <2>1, <2>2 DEF LiveRoots
  <2> QED
    BY <1>8, <2>1, <2>2, <2>3 DEF ClaimsExclusive
<1> QED
  BY <1>5, <1>6, <1>7, <1>8, <1>9, <1>10, <1>11

\* The row of a prepared candidate: unverified, with an attempt left.
LEMMA PreparedRow ==
    ASSUME GenesisInv, NEW c \in Candidates, Prepare(c)
    PROVE  /\ cand' \in [Candidates -> Candidate]
           /\ \A d \in Candidates \ {c} : cand'[d] = cand[d]
           /\ cand'[c].state = "prepared" /\ cand'[c].verdict = "unverified"
           /\ cand'[c].attempt <= AttemptLimit
           /\ cand'[c].gen = observed(c).gen
<1> DEFINE k == observed(c)
           a == IF k.state = "stale" THEN 0 ELSE k.attempt
           k1 == [k EXCEPT !.state = "prepared", !.due = TRUE, !.attempt = a,
                           !.verdict = "unverified"]
<1> USE GenesisAssumption
<1>1. k \in Candidate /\ cand \in [Candidates -> Candidate]
  BY ObservedRow DEF GenesisInv, TypeOK
<1>2. cand' = [cand EXCEPT ![c] = k1]
  BY DEF Prepare
<1>3. /\ k.state \in {"observed", "retry_wait", "stale"}
      /\ k.state = "observed" => k.attempt <= AttemptLimit
      /\ ~(k.state = "retry_wait" /\ k.attempt > AttemptLimit)
  BY ObservedRow DEF Prepare, preparable, retry_exhausted
<1>4. k.attempt \in 0 .. AttemptLimit + 1
  <2> HIDE DEF k
  <2> QED
    BY <1>1 DEF Candidate
<1>5. a \in 0 .. AttemptLimit + 1 /\ a <= AttemptLimit
  <2> HIDE DEF k
  <2> QED
    BY <1>3, <1>4
<1> HIDE DEF k, a
<1>6. /\ k1 \in Candidate /\ k1.state = "prepared"
      /\ k1.verdict = "unverified" /\ k1.attempt = a /\ k1.gen = k.gen
  BY <1>1, <1>5 DEF Candidate, CandidateStates
<1> HIDE DEF k1
<1> QED
  BY <1>1, <1>2, <1>5, <1>6 DEF k

\* A prepare moves its groups from the frontier to its claims, which share no
\* group with another candidate's, and takes the lease under its own token.
LEMMA PrepareInv ==
    ASSUME GenesisInv, NEW c \in Candidates, Prepare(c)
    PROVE  GenesisInv'
<1> USE GenesisAssumption DEF GenesisInv, Prepare, graph
<1> DEFINE l == [holder |-> c, gen |-> observed(c).gen]
           taken == IF c \in Concepts
                      THEN {<<SpaceOf[c], Group[r]>> : r \in Proposal(c)} ELSE {}
<1>1. /\ cand' \in [Candidates -> Candidate]
      /\ \A d \in Candidates \ {c} : cand'[d] = cand[d]
      /\ cand'[c].state = "prepared" /\ cand'[c].verdict = "unverified"
      /\ cand'[c].attempt <= AttemptLimit
      /\ cand'[c].gen = observed(c).gen
  BY PreparedRow
<1>2. accepted(c) = Proposal(c) /\ Proposal(c) \in SUBSET Roots
  BY AcceptedIsFree
<1>3. /\ claims' \in [Candidates -> [Roots -> {"none", "live", "released"}]]
      /\ \A d \in Candidates \ {c} : claims'[d] = claims[d]
      /\ \A d \in Candidates \ {c} : LiveRoots(d)' = LiveRoots(d)
      /\ \A d \in Candidates \ {c} : ClaimRoots(d)' = ClaimRoots(d)
      /\ LiveRoots(c)' = LiveRoots(c) \cup Proposal(c)
      /\ ClaimRoots(c)' = ClaimRoots(c) \cup Proposal(c)
  BY <1>2, InsertedClaims
<1>4. /\ lease' = [lease EXCEPT ![SpaceOf[c]] = l]
      /\ l \in Lease /\ l.holder = c /\ l.gen = observed(c).gen
  BY ObservedRow DEF acquire, Lease, Candidate
<1> HIDE DEF l
<1>5. frontier' = frontier \ taken
  OBVIOUS
<1>6. TypeOK'
  BY <1>1, <1>3, <1>4 DEF TypeOK
<1>7. AttemptsLeft'
  BY <1>1 DEF AttemptsLeft
<1>8. GenerationsCounted' /\ TurnReconciled'
  BY DEF GenerationsCounted, TurnReconciled
<1>9. ClaimsExclusive'
  BY <1>2, InsertedApart
<1>10. NoGroupLost'
  <2> SUFFICES ASSUME NEW d \in Concepts, NEW r \in ClaimRoots(d)'
               PROVE  Accounted(SpaceOf[d], Group[r])'
    BY DEF NoGroupLost
  <2>1. CASE <<SpaceOf[d], Group[r]>> \in taken
    <3>1. PICK q \in Proposal(c) : SpaceOf[c] = SpaceOf[d] /\ Group[q] = Group[r]
      BY <2>1
    <3> QED
      BY <1>3, <2>1, <3>1 DEF Accounted, Reserved
  <2>2. CASE d = c /\ r \in Proposal(c)
    BY <1>3, <2>2 DEF Accounted, Reserved
  <2>3. CASE r \in ClaimRoots(d) /\ <<SpaceOf[d], Group[r]>> \notin taken
    <3>1. Reserved(SpaceOf[d], Group[r]) \/ <<SpaceOf[d], Group[r]>> \in frontier'
      BY <1>5, <2>3 DEF NoGroupLost, Accounted
    <3>2. Reserved(SpaceOf[d], Group[r]) => Reserved(SpaceOf[d], Group[r])'
      <4>1. \A b \in Concepts : LiveRoots(b) \subseteq LiveRoots(b)'
        BY <1>3
      <4> QED
        BY <4>1 DEF Reserved
    <3> QED
      BY <3>1, <3>2 DEF Accounted
  <2> QED
    BY <1>3, <2>1, <2>2, <2>3
<1>11. OwnedLeaseHasWork'
  <2> SUFFICES ASSUME NEW d \in Candidates, lease'[SpaceOf[d]] # NoLease,
                      lease'[SpaceOf[d]].holder = d
               PROVE  /\ cand'[d].state = "prepared"
                      /\ cand'[d].verdict = "unverified"
                      /\ lease'[SpaceOf[d]].gen = cand'[d].gen
    BY DEF OwnedLeaseHasWork
  <2>1. CASE SpaceOf[d] = SpaceOf[c]
    <3>1. lease'[SpaceOf[d]] = l
      BY <1>4, <2>1 DEF TypeOK
    <3> QED
      BY <1>1, <1>4, <3>1
  <2>2. CASE SpaceOf[d] # SpaceOf[c]
    <3>1. lease'[SpaceOf[d]] = lease[SpaceOf[d]]
      BY <1>4, <2>2 DEF TypeOK
    <3> QED
      BY <1>1, <2>2, <3>1 DEF OwnedLeaseHasWork
  <2> QED
    BY <2>1, <2>2
<1>12. PassedHoldsItsClaims'
  <2> SUFFICES ASSUME NEW d \in Concepts, Passed(d)', NEW r \in cand'[d].digest
               PROVE  /\ claims'[d][r] = "live"
                      /\ \A b \in Concepts \ {d} :
                           \A q \in LiveRoots(b)' : Group[q] # Group[r]
    BY DEF PassedHoldsItsClaims
  <2>1. d # c /\ cand'[d] = cand[d] /\ claims'[d] = claims[d]
    BY <1>1, <1>3 DEF Passed
  <2>2. claims[d][r] = "live" /\ r \in Roots
    BY <2>1 DEF PassedHoldsItsClaims, Passed, TypeOK, Candidate
  <2>3. r \in LiveRoots(d)'
    BY <1>3, <2>1, <2>2 DEF LiveRoots
  <2> QED
    BY <1>9, <2>1, <2>2, <2>3 DEF ClaimsExclusive
<1> QED
  BY <1>6, <1>7, <1>8, <1>9, <1>10, <1>11, <1>12

-----------------------------------------------------------------------------
(* The finalization *)

\* The release takes the lease away from its owner and from nobody else.
LEMMA ReleasedLease ==
    ASSUME GenesisInv, NEW c \in Candidates, release(c)
    PROVE  /\ lease' \in [Spaces -> Lease \cup {NoLease}]
           /\ \A d \in Candidates :
                lease'[SpaceOf[d]] # NoLease /\ lease'[SpaceOf[d]].holder = d =>
                   d # c /\ lease'[SpaceOf[d]] = lease[SpaceOf[d]]
<1> USE GenesisAssumption
<1>1. lease \in [Spaces -> Lease \cup {NoLease}]
  BY DEF GenesisInv, TypeOK
<1>2. CASE Owns(c)
  <2>1. lease' = [lease EXCEPT ![SpaceOf[c]] = NoLease]
    BY <1>2 DEF release
  <2> QED
    BY <1>1, <2>1
<1>3. CASE ~Owns(c)
  <2>1. lease' = lease
    BY <1>3 DEF release
  <2>2. ~(lease[SpaceOf[c]] # NoLease /\ lease[SpaceOf[c]].holder = c)
    BY <1>3 DEF Owns, GenesisInv, OwnedLeaseHasWork
  <2> QED
    BY <1>1, <2>1, <2>2
<1> QED
  BY <1>2, <1>3

\* A refused candidate waits for its retry.
LEMMA RefusedRow ==
    ASSUME TypeOK, NEW c \in Candidates, FinalizeRefuses(c)
    PROVE  cand'[c].state = "retry_wait"
<1> DEFINE k == cand[c]
           k1 == [k EXCEPT !.verdict = "refused", !.state = "retry_wait",
                           !.attempt = k.attempt + 1, !.due = FALSE]
<1>1. k \in Candidate /\ cand \in [Candidates -> Candidate]
  BY DEF TypeOK
<1>2. cand' = [cand EXCEPT ![c] = k1]
  BY DEF FinalizeRefuses
<1> HIDE DEF k
<1>3. k1.state = "retry_wait"
  BY <1>1 DEF Candidate
<1> HIDE DEF k1
<1> QED
  BY <1>1, <1>2, <1>3

\* A finalized candidate has its verdict and nothing else of the tables
\* changes but its lease; a passed one holds its claims, because its gates
\* read the claims of this very state.
LEMMA FinalizeInv ==
    ASSUME GenesisInv, NEW c \in Candidates,
           FinalizePasses(c) \/ FinalizeRefuses(c)
    PROVE  GenesisInv'
<1> USE GenesisAssumption DEF GenesisInv, graph
<1> DEFINE k == cand[c]
           k1 == [k EXCEPT !.verdict = "passed"]
           k2 == [k EXCEPT !.verdict = "refused", !.state = "retry_wait",
                           !.attempt = k.attempt + 1, !.due = FALSE]
<1>1. /\ k \in Candidate /\ cand \in [Candidates -> Candidate]
      /\ k.state = "prepared" /\ k.verdict = "unverified"
      /\ k.attempt <= AttemptLimit
  BY DEF FinalizePasses, FinalizeRefuses, Due, TypeOK, AttemptsLeft
<1>2. /\ UNCHANGED <<graph, claims, frontier, recovered, rotation, todo, crashes>>
      /\ pc' = "idle" /\ release(c)
  BY DEF FinalizePasses, FinalizeRefuses
<1>3. /\ FinalizePasses(c) => cand' = [cand EXCEPT ![c] = k1]
      /\ FinalizeRefuses(c) => cand' = [cand EXCEPT ![c] = k2]
  BY DEF FinalizePasses, FinalizeRefuses
<1>4. /\ cand' \in [Candidates -> Candidate]
      /\ \A d \in Candidates \ {c} : cand'[d] = cand[d]
      /\ cand'[c].digest = cand[c].digest
      /\ cand'[c].state = "prepared" =>
            FinalizePasses(c) /\ cand'[c].attempt = cand[c].attempt
      /\ cand'[c].state \in {"prepared", "retry_wait"}
  <2>1. k.attempt \in 0 .. AttemptLimit + 1
    <3> HIDE DEF k
    <3> QED
      BY <1>1 DEF Candidate
  <2>2. k.attempt + 1 \in 0 .. AttemptLimit + 1
    <3> HIDE DEF k
    <3> QED
      BY <1>1, <2>1
  <2> HIDE DEF k
  <2>3. /\ k1 \in Candidate /\ k1.digest = k.digest /\ k1.attempt = k.attempt
        /\ k1.state = "prepared"
    BY <1>1 DEF Candidate
  <2>4. /\ k2 \in Candidate /\ k2.digest = k.digest /\ k2.state = "retry_wait"
    BY <1>1, <2>2 DEF Candidate, CandidateStates
  <2> HIDE DEF k1, k2
  <2>5. CASE FinalizePasses(c)
    BY <1>1, <1>3, <2>3, <2>5 DEF k
  <2>6. CASE FinalizeRefuses(c)
    BY <1>1, <1>3, <2>4, <2>6 DEF k
  <2> QED
    BY <2>5, <2>6
<1> HIDE DEF k, k1, k2
<1>5. TypeOK'
  BY <1>2, <1>4, ReleasedLease DEF TypeOK
<1>6. AttemptsLeft'
  <2>1. cand[c].attempt <= AttemptLimit
    BY <1>1 DEF k
  <2> QED
    BY <1>4, <2>1 DEF AttemptsLeft
<1>7. GenerationsCounted' /\ TurnReconciled'
  BY <1>2 DEF GenerationsCounted, TurnReconciled
<1>8. ClaimsExclusive'
  <2>1. \A d : LiveRoots(d)' = LiveRoots(d) /\ ClaimRoots(d)' = ClaimRoots(d)
    BY <1>2 DEF LiveRoots, ClaimRoots
  <2> QED
    BY <2>1 DEF ClaimsExclusive
<1>9. NoGroupLost'
  BY <1>2 DEF NoGroupLost, ClaimRoots, Accounted, Reserved, LiveRoots
<1>10. OwnedLeaseHasWork'
  BY <1>2, <1>4, ReleasedLease DEF OwnedLeaseHasWork
<1>11. PassedHoldsItsClaims'
  <2> SUFFICES ASSUME NEW d \in Concepts, Passed(d)', NEW r \in cand'[d].digest
               PROVE  /\ claims[d][r] = "live"
                      /\ \A b \in Concepts \ {d} :
                           \A q \in LiveRoots(b) : Group[q] # Group[r]
    BY <1>2 DEF PassedHoldsItsClaims, LiveRoots
  <2>1. CASE d # c
    BY <1>4, <2>1 DEF PassedHoldsItsClaims, Passed
  <2>2. CASE d = c
    <3>1. gates(c) /\ r \in cand[c].digest
      BY <1>4, <2>2 DEF FinalizePasses, Passed
    <3>2. r \in ClaimRoots(c) /\ claims[c][r] = "live"
      BY <3>1 DEF gates
    <3>3. r \in LiveRoots(c)
      BY <3>2 DEF ClaimRoots, LiveRoots
    <3> QED
      BY <2>2, <3>2, <3>3 DEF ClaimsExclusive
  <2> QED
    BY <2>1, <2>2
<1> QED
  BY <1>5, <1>6, <1>7, <1>8, <1>9, <1>10, <1>11

-----------------------------------------------------------------------------
(* The results *)

\* Every transaction of a turn, and every step of time, of the graph and of
\* a crash between them, keeps the invariant.
LEMMA StepInv ==
    ASSUME GenesisInv, [Next]_vars
    PROVE  GenesisInv'
<1>1. CASE Turn
  <2>1. CASE BeginTurn \/ RecoveryEnds \/ PrepareEnds \/ TurnIdles
    BY <2>1, DriverStepsInv
  <2>2. CASE Reconcile
    BY <2>2, ReconcileInv
  <2>3. CASE \E c \in Candidates : RecoverCandidate(c) \/ PrepareParks(c)
    BY <2>3, RecoverCandidateInv, PrepareParksInv
  <2>4. CASE \E c \in Candidates : PrepareRefusedBudget(c)
    BY <2>4, DriverStepsInv
  <2>5. CASE \E c \in Candidates :
                PrepareSkips(c) \/ PrepareRefused(c) \/ Prepare(c)
    BY <2>5, PrepareSkipsInv, PrepareRefusedInv, PrepareInv
  <2>6. CASE \E c \in Candidates : FinalizePasses(c) \/ FinalizeRefuses(c)
    BY <2>6, FinalizeInv
  <2> QED
    BY <1>1, <2>1, <2>2, <2>3, <2>4, <2>5, <2>6 DEF Turn
<1>2. CASE Environment
  BY <1>2, DriverStepsInv, LeaseExpiresInv, BackoffElapsesInv, EdgeMovesInv
     DEF Environment
<1>3. CASE UNCHANGED vars
  BY <1>3, DriverStepsInv
<1> QED
  BY <1>1, <1>2, <1>3 DEF Next

\* The invariant holds in every state of every run of the pipeline.
THEOREM GenesisInvariant == Spec => []GenesisInv
  BY InitInv, StepInv, PTL DEF Spec

\* The tables keep their types; in particular a candidate is never charged
\* beyond RETRY_ATTEMPT_LIMIT + 1 (retry_exhausted, parking, re-entry).
THEOREM TypeCorrect == Spec => []TypeOK
<1>1. GenesisInv => TypeOK
  BY DEF GenesisInv
<1> QED
  BY <1>1, GenesisInvariant, PTL

\* A group that an exclusive claim once touched always has a durable reason:
\* the lower half of the pipeline's exactly-one invariant.
THEOREM GroupsAreKept == Spec => []NoGroupLost
<1>1. GenesisInv => NoGroupLost
  BY DEF GenesisInv
<1> QED
  BY <1>1, GenesisInvariant, PTL

\* An owned lease has an owner at work: no finished, staled or parked
\* candidate blocks its space until the lease expires.
THEOREM LeasesHaveWork == Spec => []OwnedLeaseHasWork
<1>1. GenesisInv => OwnedLeaseHasWork
  BY DEF GenesisInv
<1> QED
  BY <1>1, GenesisInvariant, PTL

\* Only the finalization of a candidate makes it pass.
LEMMA PassesByFinalize ==
    ASSUME GenesisInv, [Next]_vars, NEW c \in Candidates, ~Passed(c), Passed(c)'
    PROVE  FinalizePasses(c)
<1> USE GenesisAssumption DEF Passed
<1>0. TypeOK
  BY DEF GenesisInv
<1>1. cand' # cand
  OBVIOUS
<1>2. ASSUME NEW d \in Candidates, NEW delay \in BOOLEAN, mark_stale(d, delay)
      PROVE  FALSE
  BY <1>0, <1>2, StaleCandidate
<1>3. CASE Turn
  <2>1. ~(BeginTurn \/ RecoveryEnds \/ Reconcile \/ PrepareEnds \/ TurnIdles)
    BY <1>1 DEF BeginTurn, RecoveryEnds, Reconcile, PrepareEnds, TurnIdles, tables
  <2>2. PICK d \in Candidates :
           \/ RecoverCandidate(d)
           \/ PrepareRefusedBudget(d) \/ PrepareParks(d) \/ PrepareSkips(d)
           \/ PrepareRefused(d) \/ Prepare(d)
           \/ FinalizePasses(d) \/ FinalizeRefuses(d)
    BY <1>3, <2>1 DEF Turn
  <2>3. ~RecoverCandidate(d) /\ ~PrepareParks(d) /\ ~PrepareRefusedBudget(d)
    <3>1. ASSUME RecoverCandidate(d) PROVE FALSE
      <4>1. mark_stale(d, cand[d].attempt > 0) /\ (cand[d].attempt > 0) \in BOOLEAN
        BY <1>1, <3>1 DEF RecoverCandidate, tables
      <4> QED
        BY <1>2, <4>1
    <3> QED
      BY <1>1, <1>2, <3>1 DEF PrepareParks, PrepareRefusedBudget, tables
  <2>4. ~PrepareSkips(d) /\ ~PrepareRefused(d)
    <3> SUFFICES ASSUME PrepareSkips(d) \/ PrepareRefused(d) PROVE FALSE
      OBVIOUS
    <3>1. cand' = [cand EXCEPT ![d] = observed(d)]
      BY DEF PrepareSkips, PrepareRefused
    <3>2. /\ cand'[d] = observed(d)
          /\ \A b \in Candidates \ {d} : cand'[b] = cand[b]
      BY <1>0, <3>1 DEF TypeOK
    <3> QED
      BY <3>2, ObservedRow
  <2>5. ~Prepare(d)
    BY PreparedRow
  <2>6. CASE FinalizePasses(d) \/ FinalizeRefuses(d)
    <3>1. \A b \in Candidates \ {d} : cand'[b] = cand[b]
      BY <1>0, <2>6 DEF FinalizePasses, FinalizeRefuses, TypeOK
    <3>2. c = d
      BY <3>1
    <3>3. ~FinalizeRefuses(c)
      BY <1>0, RefusedRow
    <3> QED
      BY <2>6, <3>2, <3>3
  <2> QED
    BY <2>2, <2>3, <2>4, <2>5, <2>6
<1>4. CASE Environment
  <2>1. PICK d \in Candidates : BackoffElapses(d)
    BY <1>1, <1>4 DEF Environment, Crash, LeaseExpires, EdgeMoves, tables
  <2> QED
    BY <1>0, <2>1, ElapsedRow
<1>5. CASE UNCHANGED vars
  BY <1>1, <1>5 DEF vars
<1> QED
  BY <1>3, <1>4, <1>5 DEF Next

\* A passed candidate has what it was judged on under live claims that no
\* other candidate shares, for as long as it stays prepared; and it passes
\* only in a turn whose reconciliation found none of those groups, as far as
\* its space has an edge of them, with a second reason.
THEOREM PassedKeepsItsEvidence == Spec => PassedOwnsItsEvidence
<1>1. GenesisInv /\ [Next]_vars => PassedHoldsItsClaims'
  BY StepInv DEF GenesisInv
<1>2. GenesisInv /\ [Next]_vars => PassesOnlyReconciled
  <2> SUFFICES ASSUME GenesisInv, [Next]_vars, NEW c \in Concepts, ~Passed(c),
                      Passed(c)', NEW r \in cand[c].digest,
                      Group[r] \in Eligible(SpaceOf[c])
               PROVE  <<SpaceOf[c], Group[r]>> \notin frontier
    BY DEF PassesOnlyReconciled
  <2>1. c \in Candidates
    BY GenesisAssumption
  <2>2. gates(c) /\ SpaceOf[c] = rotation /\ pc = "finalize"
    BY <2>1, PassesByFinalize DEF FinalizePasses, Due
  <2>3. r \in LiveRoots(c)
    BY <2>2 DEF gates, ClaimRoots, LiveRoots
  <2>4. Reserved(rotation, Group[r])
    BY <2>2, <2>3 DEF Reserved
  <2> QED
    BY <2>2, <2>4 DEF GenesisInv, TurnReconciled, DoubleBooked
<1>3. GenesisInv /\ [Next]_vars => PassedHoldsItsClaims' /\ PassesOnlyReconciled
  BY <1>1, <1>2
<1> QED
  BY <1>3, GenesisInvariant, PTL DEF Spec, PassedOwnsItsEvidence

\* The two unique indexes at work: no two concepts ever hold live claims on
\* roots of one independence group, although refused prepares commit.
THEOREM ClaimsStayExclusive == Spec => []ClaimsExclusive
<1>1. GenesisInv => ClaimsExclusive
  BY DEF GenesisInv
<1> QED
  BY <1>1, GenesisInvariant, PTL
==============================================================================
