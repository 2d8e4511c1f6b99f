-------------------------- MODULE MCRuntimeAuthority --------------------------
(* The runtime authority on a small instance.  The frame bound leaves room   *)
(* for the retries that the losses can cause.                                *)
EXTENDS RuntimeAuthority, TLC

ASSUME RoomForRetries == MaxTickets >= MaxCalls + MaxLosses * Cardinality(Clients)

\* Clients and request ids are interchangeable.
Symmetry == Permutations(Clients) \cup Permutations(RequestIds)
=============================================================================
