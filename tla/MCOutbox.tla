------------------------------- MODULE MCOutbox -------------------------------
(* A Brief summary, a Brief item, a capture and a malformed file. *)
EXTENDS Outbox

CONSTANT s1

MCStartOf == [e \in Stores |-> s1]
=============================================================================
