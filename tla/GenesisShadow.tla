---------------------------- MODULE GenesisShadow ----------------------------
(***************************************************************************)
(* The M6 genesis pipeline as the daemon runs it: the shadow turn driver   *)
(* (wenlan-core/src/m6/shadow.rs) over its durable tables - leases,        *)
(* candidates, claims on evidence roots and the frontier of unclaimed      *)
(* independence groups - with the startup recovery scan, the dry-run       *)
(* finalization, crashes, lease expiry and a graph that moves between      *)
(* turns.                                                                  *)
(*                                                                         *)
(* A turn holds the connection mutex (db/m6_shadow.rs), so graph writers   *)
(* run only between turns; a crash, and the passing of time, happen        *)
(* between any two of its transactions.  Each action is one transaction.   *)
(*                                                                         *)
(* Abstractions.  A lease row past its expiry is invisible to acquire,     *)
(* owns and the reap, so expiry removes the row.  A token is the candidate *)
(* whose row stores it, or Nobody when no row does.  next_attempt_at is    *)
(* the Boolean "due".  No production code changes a root's status or the   *)
(* coverage epoch, so a digest is the set of its roots and the epoch is    *)
(* left out.  Gates E-4, E-7 and E-8 read state outside the pipeline: a    *)
(* refusal by one of them is a free choice.  Roots are addressed by        *)
(* content, so edges of several spaces may share one; which edges a signal *)
(* looks at is a constant.                                                 *)
(***************************************************************************)
EXTENDS Naturals, FiniteSets

CONSTANTS
    NumSpaces,         \* spaces are 0 .. NumSpaces - 1, in rotation order
    Candidates,        \* candidate ids, naturals in slot order
    Roots,             \* provenance roots, naturals in root_id order
    SpaceOf,           \* the space of a candidate
    Edges,             \* edges of the graph, of every space
    EdgeSpace,         \* the space of an edge
    EdgeRoot,          \* the provenance root of an edge; spaces share roots
    Relations,         \* edges the grouping triggers count; supports are not
    Present,           \* edges grounded when the pipeline first starts
    Group,             \* the independence group of a root
    Scope,             \* the edges a candidate's signal looks at, of any space
    Concepts,          \* candidates whose claims are exclusive ('concept')
    Clusters,          \* candidates whose slot is keyed by their group set
    Floor,             \* independence floor of the other signals
    PendingCap,        \* PENDING_CANDIDATES_PER_SPACE_CAP
    PreparesPerCycle,  \* CANDIDATE_PREPARES_PER_CYCLE_CAP
    AttemptLimit,      \* RETRY_ATTEMPT_LIMIT
    MaxMoves,          \* bound on the graph's moves
    MaxCrashes,        \* bound on process crashes
    Nobody,            \* holder of a lease whose token no candidate stores
    NoLease            \* a space without a lease row

Spaces == 0 .. (NumSpaces - 1)
Groups == {Group[r] : r \in Roots}

ASSUME GenesisAssumption ==
    /\ NumSpaces \in Nat \ {0}
    /\ Candidates \subseteq Nat /\ IsFiniteSet(Candidates)
    /\ Roots \subseteq Nat /\ IsFiniteSet(Roots)
    /\ SpaceOf \in [Candidates -> Spaces]
    /\ EdgeSpace \in [Edges -> Spaces] /\ EdgeRoot \in [Edges -> Roots]
    /\ Relations \subseteq Edges /\ Present \subseteq Edges
    /\ DOMAIN Group = Roots
    /\ Scope \in [Candidates -> SUBSET Edges]
    /\ Concepts \subseteq Candidates /\ Clusters \subseteq Concepts
    /\ \A c \in Clusters :
         Cardinality({Group[EdgeRoot[e]] : e \in Scope[c]}) >= Floor
    /\ Floor \in Nat \ {0} /\ PendingCap \in Nat /\ PreparesPerCycle \in Nat
    /\ AttemptLimit \in Nat /\ MaxMoves \in Nat /\ MaxCrashes \in Nat
    /\ Nobody \notin Candidates
    /\ NoLease \notin [holder : Candidates \cup {Nobody}, gen : 0 .. MaxMoves]

Lease == [holder : Candidates \cup {Nobody}, gen : 0 .. MaxMoves]

VARIABLES
    grounded,    \* edges that are grounded and not retracted
    generation,  \* space_graph_state.grouping_generation of each space
    lease,       \* the genesis lease row of each space
    cand,        \* genesis_candidates, with the envelope's verdict
    claims,      \* genesis_candidate_roots: "none", "live" or "released"
    frontier,    \* genesis_frontier: pairs of a space and a group
    recovered,   \* ShadowState.recovery is set
    rotation,    \* ShadowState.rotation
    pc,          \* the turn's next transaction
    todo,        \* candidates the turn has still to look at
    moves,       \* graph changes so far (bound only)
    crashes      \* crashes so far (bound only)

tables == <<lease, cand, claims, frontier>>
graph  == <<grounded, generation, moves>>
driver == <<recovered, rotation, pc, todo>>
vars   == <<grounded, generation, lease, cand, claims, frontier,
            recovered, rotation, pc, todo, moves, crashes>>

CandidateStates == {"none", "observed", "prepared", "retry_wait", "stale"}
PendingStates   == {"observed", "prepared", "retry_wait"}
\* Mutant: a waiting retry is not recovered.
RecoverablePrepared == {"prepared"}

RecoverableStates == {"prepared", "retry_wait"}
ReentryStates   == {"retry_wait", "stale"}

Candidate ==
    [state : CandidateStates, gen : 0 .. MaxMoves, digest : SUBSET Roots,
     attempt : 0 .. AttemptLimit + 1, due : BOOLEAN,
     verdict : {"none", "unverified", "passed", "refused"}]

Init ==
    /\ grounded = Present
    /\ generation = [s \in Spaces |-> 0]
    /\ lease = [s \in Spaces |-> NoLease]
    /\ cand = [c \in Candidates |->
                 [state |-> "none", gen |-> 0, digest |-> {}, attempt |-> 0,
                  due |-> TRUE, verdict |-> "none"]]
    /\ claims = [c \in Candidates |-> [r \in Roots |-> "none"]]
    /\ frontier = {}
    /\ recovered = FALSE /\ rotation = 0
    /\ pc = "idle" /\ todo = {} /\ moves = 0 /\ crashes = 0

------------------------------------------------------------------------------
(* What the tables say.                                                    *)

\* The groups with a grounded edge in a space: only its own edges count.
Eligible(s) ==
    {Group[EdgeRoot[e]] : e \in {f \in grounded : EdgeSpace[f] = s}}

LiveRoots(c)  == {r \in Roots : claims[c][r] = "live"}
ClaimRoots(c) == {r \in Roots : claims[c][r] # "none"}

\* live_reservations: a live exclusive claim of the space on the group.
Reserved(s, g) ==
    \E c \in Concepts : SpaceOf[c] = s /\ \E r \in LiveRoots(c) : Group[r] = g

\* reason_counts over the two homes the driver writes: the claims and the
\* frontier.  Coverage, cards, suppressions and quarantines stay empty.
DoubleBooked(s, g) == Reserved(s, g) /\ <<s, g>> \in frontier
Accounted(s, g)    == Reserved(s, g) \/ <<s, g>> \in frontier

\* leases::owns - the stored token is the live holder of its generation.
Owns(c) ==
    /\ lease[SpaceOf[c]] # NoLease
    /\ lease[SpaceOf[c]].holder = c
    /\ lease[SpaceOf[c]].gen = cand[c].gen

\* The four signals: the roots a proposal names, and whether it is admitted.
Proposal(c) == {EdgeRoot[e] : e \in Scope[c] \cap grounded}
Admitted(c) ==
    LET groups == {Group[r] : r \in Proposal(c)} IN
      IF c \in Clusters THEN groups = {Group[EdgeRoot[e]] : e \in Scope[c]}
                        ELSE Cardinality(groups) >= Floor

\* The proposals one turn considers: the first of the space in slot order.
Considered(s) ==
    LET all == {c \in Candidates : SpaceOf[c] = s /\ Admitted(c)} IN
      {c \in all : Cardinality({d \in all : d < c}) < PreparesPerCycle}

PendingCount(s) ==
    Cardinality({c \in Candidates :
                   SpaceOf[c] = s /\ cand[c].state \in PendingStates})

\* Mutant: one attempt too many.
exhausted_late(attempt) == attempt > AttemptLimit + 1

retry_exhausted(attempt) == attempt > AttemptLimit

------------------------------------------------------------------------------
(* The writers of the tables.  Each gives the next value of its tables.    *)

\* Mutant: the claims are released and their groups go nowhere.
stale_without_frontier(c, delay) ==
    /\ claims' = [claims EXCEPT ![c] =
         [r \in Roots |-> IF @[r] = "live" THEN "released" ELSE @[r]]]
    /\ cand' = [cand EXCEPT ![c].state = "stale", ![c].due = ~delay]
    /\ UNCHANGED <<frontier, lease>>

\* A3/A7/A14/A15: release the live claims, return their groups to the
\* frontier, drop the token, delay the re-entry.
mark_stale(c, delay) ==
    /\ claims' = [claims EXCEPT ![c] =
         [r \in Roots |-> IF @[r] = "live" THEN "released" ELSE @[r]]]
    /\ frontier' = frontier \cup
         (IF c \in Concepts
            THEN {<<SpaceOf[c], Group[r]>> : r \in LiveRoots(c)} ELSE {})
    /\ cand' = [cand EXCEPT ![c].state = "stale", ![c].due = ~delay]
    /\ lease' = [lease EXCEPT ![SpaceOf[c]] =
         IF @ # NoLease /\ @.holder = c THEN [@ EXCEPT !.holder = Nobody] ELSE @]

\* A1: the row after observe_candidate, new or already present.
observed(c) ==
    IF cand[c].state # "none" THEN cand[c]
      ELSE [cand[c] EXCEPT !.state = "observed",
              !.gen = generation[SpaceOf[c]], !.digest = Proposal(c)]

\* leases::acquire fails only against a row of the same generation: a row of
\* any other generation is reaped first.
lease_held(c) ==
    /\ lease[SpaceOf[c]] # NoLease
    /\ lease[SpaceOf[c]].gen = observed(c).gen

acquire(c, holder) ==
    lease' = [lease EXCEPT ![SpaceOf[c]] =
                [holder |-> holder, gen |-> observed(c).gen]]

\* Mutant: exclusion within a candidate only.
conflicting_own(c) ==
    {r \in Proposal(c) : c \in Concepts /\ \E q \in LiveRoots(c) :
                            q # r /\ Group[q] = Group[r]}

\* The roots whose insert one of the two partial unique indexes rejects, the
\* claims being inserted in root order.
conflicting(c) ==
    {r \in Proposal(c) :
       /\ c \in Concepts
       /\ \/ \E d \in Concepts \ {c} : \E q \in LiveRoots(d) : Group[q] = Group[r]
          \/ \E q \in LiveRoots(c) \cup {p \in Proposal(c) : p < r} :
               q # r /\ Group[q] = Group[r]}

\* The inserts that go through before the first rejected one.
accepted(c) ==
    {r \in Proposal(c) : \A q \in conflicting(c) : r < q}

insert_claims(c, roots) ==
    claims' = [claims EXCEPT ![c] =
                 [r \in Roots |-> IF r \in roots THEN "live" ELSE @[r]]]

------------------------------------------------------------------------------
(* The turn.                                                               *)

\* A turn begins: the recovery scan is owed once per process; it reads the
\* candidates that hold a live claim in a recoverable state.
BeginTurn ==
    /\ pc = "idle"
    /\ pc' = IF recovered THEN "reconcile" ELSE "recover"
    /\ todo' = IF recovered THEN {}
               ELSE {c \in Candidates : /\ LiveRoots(c) # {}
                                        /\ cand[c].state \in RecoverableStates}
    /\ UNCHANGED <<graph, tables, recovered, rotation, crashes>>

\* One candidate of the scan, in a transaction of its own: a candidate whose
\* lease is gone goes stale, with the delay of its attempt's backoff.
RecoverCandidate(c) ==
    /\ pc = "recover" /\ c \in todo
    /\ todo' = todo \ {c}
    /\ IF cand[c].state \in RecoverableStates /\ ~Owns(c)
         THEN mark_stale(c, cand[c].attempt > 0)
         ELSE UNCHANGED tables
    /\ UNCHANGED <<graph, recovered, rotation, pc, crashes>>

RecoveryEnds ==
    /\ pc = "recover" /\ todo = {}
    /\ recovered' = TRUE /\ pc' = "idle"
    /\ UNCHANGED <<graph, tables, rotation, todo, crashes>>

\* Priority 2.  A double-booked group fails the turn before anything is
\* written and before the rotation advances; a group with no reason gets a
\* frontier row, which is the turn's unit of work.
Reconcile ==
    LET s == rotation
        missing == {g \in Eligible(s) : ~Accounted(s, g)}
        refused == \E g \in Eligible(s) : DoubleBooked(s, g)
    IN
    /\ pc = "reconcile"
    /\ frontier' = IF refused THEN frontier
                   ELSE frontier \cup {<<s, g>> : g \in missing}
    /\ pc' = IF refused \/ missing # {} THEN "idle" ELSE "prepare"
    /\ todo' = IF refused \/ missing # {} THEN {} ELSE Considered(s)
    /\ UNCHANGED <<graph, lease, cand, claims, recovered, rotation, crashes>>

\* The proposal the loop is at.
next_proposal(c) ==
    pc = "prepare" /\ c \in todo /\ \A d \in todo : c <= d

\* Priority 3, refused by the pending cap: nothing is written and the turn
\* goes on to finalization.
PrepareRefusedBudget(c) ==
    /\ next_proposal(c)
    /\ cand[c].state = "none" /\ PendingCount(SpaceOf[c]) >= PendingCap
    /\ pc' = "finalize" /\ todo' = {}
    /\ UNCHANGED <<graph, tables, recovered, rotation, crashes>>

\* The cap lets the proposal through, so the candidate has a row.
within_cap(c) ==
    cand[c].state # "none" \/ PendingCount(SpaceOf[c]) < PendingCap

\* A14: the attempts are used up; the candidate is parked.
PrepareParks(c) ==
    /\ next_proposal(c)
    /\ cand[c].state = "retry_wait" /\ retry_exhausted(cand[c].attempt)
    /\ mark_stale(c, TRUE)
    /\ pc' = "idle" /\ todo' = {}
    /\ UNCHANGED <<graph, recovered, rotation, crashes>>

\* The candidate may enter prepared and its backoff has elapsed.
preparable(c) ==
    /\ within_cap(c)
    /\ observed(c).state \in {"observed", "retry_wait", "stale"}
    /\ ~(observed(c).state = "retry_wait" /\ retry_exhausted(observed(c).attempt))
    /\ observed(c).state \in ReentryStates => observed(c).due

\* Nothing to do for this proposal (already prepared, not due, or the lease
\* is held): only the observation, if it was new, is committed.
PrepareSkips(c) ==
    /\ next_proposal(c) /\ within_cap(c)
    /\ ~(cand[c].state = "retry_wait" /\ retry_exhausted(cand[c].attempt))
    /\ preparable(c) => lease_held(c)
    /\ cand' = [cand EXCEPT ![c] = observed(c)]
    /\ todo' = todo \ {c}
    /\ UNCHANGED <<graph, lease, claims, frontier, recovered, rotation, pc, crashes>>

\* B1: an index rejects a claim.  prepare_candidate returns ClaimRefused and
\* the turn commits the transaction: the lease, the claims inserted before
\* the rejected one and the observation stay.
PrepareRefused(c) ==
    /\ next_proposal(c) /\ preparable(c) /\ ~lease_held(c)
    /\ conflicting(c) # {}
    /\ acquire(c, Nobody)
    /\ insert_claims(c, accepted(c))
    /\ cand' = [cand EXCEPT ![c] = observed(c)]
    /\ pc' = "idle" /\ todo' = {}
    /\ UNCHANGED <<graph, frontier, recovered, rotation, crashes>>

\* A2/A13/A19: the lease, every claim, the retired frontier rows, the state
\* and a fresh envelope.
Prepare(c) ==
    /\ next_proposal(c) /\ preparable(c) /\ ~lease_held(c)
    /\ conflicting(c) = {}
    /\ acquire(c, c)
    /\ insert_claims(c, Proposal(c))
    /\ frontier' = frontier \
         (IF c \in Concepts
            THEN {<<SpaceOf[c], Group[r]>> : r \in Proposal(c)} ELSE {})
    /\ cand' = [cand EXCEPT ![c] =
         [observed(c) EXCEPT !.state = "prepared", !.due = TRUE,
            !.attempt = IF observed(c).state = "stale" THEN 0 ELSE @,
            !.verdict = "unverified"]]
    /\ pc' = "idle" /\ todo' = {}
    /\ UNCHANGED <<graph, recovered, rotation, crashes>>

PrepareEnds ==
    /\ pc = "prepare" /\ todo = {}
    /\ pc' = "finalize"
    /\ UNCHANGED <<graph, tables, recovered, rotation, todo, crashes>>

\* due_candidate: prepared, with an envelope that carries no verdict.
Due(s) == {c \in Candidates :
             /\ SpaceOf[c] = s /\ cand[c].state = "prepared"
             /\ cand[c].verdict = "unverified"}

\* The gates over the pipeline's own state: E-1, E-2, E-3, E-5 and E-6.  A
\* grounded edge of any space satisfies E-6.
gates(c) ==
    /\ Owns(c)
    /\ generation[SpaceOf[c]] = cand[c].gen
    /\ ClaimRoots(c) = cand[c].digest
    /\ ClaimRoots(c) # {} /\ \A r \in ClaimRoots(c) : claims[c][r] = "live"
    /\ ClaimRoots(c) \subseteq {EdgeRoot[e] : e \in grounded}

\* Mutant: the lease is left to its expiry.
keep_lease(c) == lease' = lease

\* Token-scoped release of the candidate's own lease.
release(c) ==
    lease' = IF Owns(c) THEN [lease EXCEPT ![SpaceOf[c]] = NoLease] ELSE lease

FinalizePasses(c) ==
    /\ pc = "finalize" /\ c \in Due(rotation) /\ gates(c)
    /\ cand' = [cand EXCEPT ![c].verdict = "passed"]
    /\ release(c)
    /\ pc' = "idle"
    /\ UNCHANGED <<graph, claims, frontier, recovered, rotation, todo, crashes>>

\* A11: any gate may refuse; the attempt is charged and the claims are kept.
FinalizeRefuses(c) ==
    /\ pc = "finalize" /\ c \in Due(rotation)
    /\ cand' = [cand EXCEPT ![c].verdict = "refused", ![c].state = "retry_wait",
                            ![c].attempt = @ + 1, ![c].due = FALSE]
    /\ release(c)
    /\ pc' = "idle"
    /\ UNCHANGED <<graph, claims, frontier, recovered, rotation, todo, crashes>>

\* Nothing to do in this space: only now does the rotation advance.
TurnIdles ==
    /\ pc = "finalize" /\ Due(rotation) = {}
    /\ rotation' = (rotation + 1) % NumSpaces
    /\ pc' = "idle"
    /\ UNCHANGED <<graph, tables, recovered, todo, crashes>>

Turn ==
    \/ BeginTurn \/ RecoveryEnds \/ Reconcile \/ PrepareEnds \/ TurnIdles
    \/ \E c \in Candidates :
         \/ RecoverCandidate(c)
         \/ PrepareRefusedBudget(c) \/ PrepareParks(c) \/ PrepareSkips(c)
         \/ PrepareRefused(c) \/ Prepare(c)
         \/ FinalizePasses(c) \/ FinalizeRefuses(c)

------------------------------------------------------------------------------
(* Time, crashes and the graph.                                            *)

LeaseExpires(s) ==
    /\ lease[s] # NoLease
    /\ lease' = [lease EXCEPT ![s] = NoLease]
    /\ UNCHANGED <<graph, cand, claims, frontier, driver, crashes>>

BackoffElapses(c) ==
    /\ ~cand[c].due
    /\ cand' = [cand EXCEPT ![c].due = TRUE]
    /\ UNCHANGED <<graph, lease, claims, frontier, driver, crashes>>

\* The daemon stops between two transactions and starts again.
Crash ==
    /\ crashes < MaxCrashes
    /\ crashes' = crashes + 1
    /\ recovered' = FALSE /\ rotation' = 0 /\ pc' = "idle" /\ todo' = {}
    /\ UNCHANGED <<graph, tables>>

\* An edge is retracted or grounded.  A relation between entities advances
\* the grouping generation of its space, a support does not.
EdgeMoves(e) ==
    /\ pc = "idle" /\ moves < MaxMoves
    /\ moves' = moves + 1
    /\ grounded' = IF e \in grounded THEN grounded \ {e} ELSE grounded \cup {e}
    /\ generation' = IF e \in Relations
                       THEN [generation EXCEPT ![EdgeSpace[e]] = @ + 1]
                       ELSE generation
    /\ UNCHANGED <<tables, driver, crashes>>

Environment ==
    \/ Crash
    \/ \E s \in Spaces : LeaseExpires(s)
    \/ \E c \in Candidates : BackoffElapses(c)
    \/ \E e \in Edges : EdgeMoves(e)

Next == Turn \/ Environment

\* The loop in main/runtime.rs runs turns for as long as the daemon lives.
Spec == Init /\ [][Next]_vars /\ WF_vars(Turn)

------------------------------------------------------------------------------
(* Properties.                                                             *)

\* The state's types.  The range of attempt says that a candidate is never
\* charged beyond the limit: refusals charge it, the parking of an exhausted
\* candidate and the reset on re-entry stop it.
TypeOK ==
    /\ grounded \subseteq Edges
    /\ generation \in [Spaces -> 0 .. MaxMoves]
    /\ lease \in [Spaces -> Lease \cup {NoLease}]
    /\ cand \in [Candidates -> Candidate]
    /\ claims \in [Candidates -> [Roots -> {"none", "live", "released"}]]
    /\ frontier \subseteq Spaces \X Groups
    /\ recovered \in BOOLEAN /\ rotation \in Spaces
    /\ pc \in {"idle", "recover", "reconcile", "prepare", "finalize"}
    /\ todo \subseteq Candidates /\ moves \in 0 .. MaxMoves
    /\ crashes \in 0 .. MaxCrashes

\* No group is ever lost: a group that an exclusive claim once touched still
\* has a durable reason, a live claim or a frontier row, whatever sequence of
\* refusals, parkings, expiries, crashes and recoveries followed (the lower
\* half of I-1: candidates.rs mark_stale, recovery.rs).
NoGroupLost ==
    \A c \in Concepts : \A r \in ClaimRoots(c) : Accounted(SpaceOf[c], Group[r])

\* A lease with an owner is a lease with work: its owner is prepared, awaits
\* its verdict and was prepared at the lease's generation.  A finished
\* candidate that kept its lease would block its space for fifteen minutes
\* (finalize.rs: the lease is released in both outcomes).
OwnedLeaseHasWork ==
    \A c \in Candidates :
      LET l == lease[SpaceOf[c]] IN
        (l # NoLease /\ l.holder = c) =>
          cand[c].state = "prepared" /\ cand[c].verdict = "unverified"
          /\ l.gen = cand[c].gen

\* The candidate has passed and was not staled since.
Passed(c) == cand[c].state = "prepared" /\ cand[c].verdict = "passed"

\* A standing verdict keeps the claims it was given for, and keeps them alone.
PassedHoldsItsClaims ==
    \A c \in Concepts : Passed(c) =>
      \A r \in cand[c].digest :
        /\ claims[c][r] = "live"
        /\ \A d \in Concepts \ {c} : \A q \in LiveRoots(d) : Group[q] # Group[r]

\* A verdict is given only where the turn's reconciliation found, among the
\* groups that the space itself can see, none of the candidate's free.
PassesOnlyReconciled ==
    \A c \in Concepts : ~Passed(c) /\ Passed(c)' =>
      \A r \in cand[c].digest :
        Group[r] \in Eligible(SpaceOf[c]) => <<SpaceOf[c], Group[r]>> \notin frontier

\* A passed verdict is a licence to publish.  As long as it stands, the
\* candidate has every root it was judged on under a live claim and no other
\* candidate, of any space, holds a claim on one of their groups, although
\* leases expire, refused prepares commit and the evidence moves (D4).  And
\* when it is given, none of those groups that its own space can see is free
\* on the frontier.  No more than that is promised: E-6 accepts an edge of
\* another space, the reconciliation reads only the edges of its own
\* (finalize.rs e6_evidence_liveness, frontier.rs reason_counts).
PassedOwnsItsEvidence ==
    [][PassedHoldsItsClaims' /\ PassesOnlyReconciled]_vars

\* A claim that outlived its worker is given back: a candidate left in flight
\* by a crash, its lease gone before the next process's recovery scan begins,
\* is staled (S0-5), even if that scan is itself interrupted.
OrphansAreRecovered ==
    \A c \in Candidates :
      (/\ pc = "idle" /\ ~recovered /\ LiveRoots(c) # {} /\ ~Owns(c)
       /\ cand[c].state \in {"prepared", "retry_wait"}) ~> (cand[c].state = "stale")

\* I-1, the upper half (frontier.rs: "Exactly `1` is the invariant"): no
\* eligible group has two durable reasons between turns.
NoDoubleBooking ==
    pc = "idle" => \A s \in Spaces : \A g \in Eligible(s) : ~DoubleBooked(s, g)
=============================================================================
