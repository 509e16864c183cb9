--------------------------- MODULE MCIngestBatcher ---------------------------
(* Three stores into one Space, which only the first caller chose. *)
EXTENDS IngestBatcher

CONSTANTS r1, r2, r3, s1

MCSpaceOf == [r \in Requests |-> s1]
=============================================================================
