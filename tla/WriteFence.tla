----------------------------- MODULE WriteFence -----------------------------
(***************************************************************************)
(* What the maintenance coordinator promises its users, without saying     *)
(* how: background writers, read-only snapshots and repair attempts share  *)
(* one fence.  A repair attempt runs alone; a repair that is owed          *)
(* verification keeps writers out until an attempt settles it; a chain     *)
(* keeps them out until its next repair starts or its reservation lapses;  *)
(* the sealed fence admits nobody.  MaintenanceCoordinator implements this *)
(* specification; IngestBatcher relies on it.                              *)
(***************************************************************************)
CONSTANTS Writers, Readers, Repairers

VARIABLES
    writing,     \* writers past the fence
    reading,     \* snapshots past the fence
    repairing,   \* repairers with a live attempt
    fence        \* "open", "owed", "chained", "sealed" or "retired"

vars == <<writing, reading, repairing, fence>>

TypeOK ==
    /\ writing \subseteq Writers
    /\ reading \subseteq Readers
    /\ repairing \subseteq Repairers
    /\ fence \in {"open", "owed", "chained", "sealed", "retired"}

Init ==
    /\ writing = {} /\ reading = {} /\ repairing = {}
    /\ fence = "open"

BeginWrite(w) ==
    /\ fence = "open"
    /\ reading = {}
    /\ writing' = writing \cup {w}
    /\ UNCHANGED <<reading, repairing, fence>>

EndWrite(w) ==
    /\ w \in writing
    /\ writing' = writing \ {w}
    /\ UNCHANGED <<reading, repairing, fence>>

\* A snapshot may look at an applied repair nobody is working on.
BeginRead(a) ==
    /\ fence \in {"open", "owed"}
    /\ writing = {} /\ repairing = {}
    /\ reading' = reading \cup {a}
    /\ UNCHANGED <<writing, repairing, fence>>

EndRead(a) ==
    /\ a \in reading
    /\ reading' = reading \ {a}
    /\ UNCHANGED <<writing, repairing, fence>>

BeginRepair(c) ==
    /\ fence \in {"open", "owed", "chained"}
    /\ writing = {} /\ reading = {} /\ repairing = {}
    /\ repairing' = {c}
    /\ fence' = "owed"
    /\ UNCHANGED <<writing, reading>>

\* The attempt ends: released, still owed, or handed to the next repair.
EndRepair(c) ==
    /\ repairing = {c}
    /\ repairing' = {}
    /\ fence' \in {"open", "owed", "chained"}
    /\ UNCHANGED <<writing, reading>>

\* A restarted daemon is armed with the repair it still owes.
Arm ==
    /\ fence = "open"
    /\ writing = {} /\ reading = {}
    /\ fence' = "owed"
    /\ UNCHANGED <<writing, reading, repairing>>

Lapse ==
    /\ fence = "chained"
    /\ fence' = "open"
    /\ UNCHANGED <<writing, reading, repairing>>

Seal ==
    /\ fence = "open"
    /\ writing = {} /\ reading = {} /\ repairing = {}
    /\ fence' = "sealed"
    /\ UNCHANGED <<writing, reading, repairing>>

Unseal ==
    /\ fence = "sealed"
    /\ fence' \in {"open", "retired"}
    /\ UNCHANGED <<writing, reading, repairing>>

Next ==
    \/ \E w \in Writers : BeginWrite(w) \/ EndWrite(w)
    \/ \E a \in Readers : BeginRead(a) \/ EndRead(a)
    \/ \E c \in Repairers : BeginRepair(c) \/ EndRepair(c)
    \/ Arm \/ Lapse \/ Seal \/ Unseal

Spec == Init /\ [][Next]_vars
=============================================================================
