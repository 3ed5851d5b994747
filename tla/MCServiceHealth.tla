--------------------------- MODULE MCServiceHealth ---------------------------
(* Instance of ServiceHealth for TLC. *)
EXTENDS ServiceHealth, TLC

\* The cache may be off: a negative ttl evaluates every request by itself.
OffAndOn == {-1, 1}

\* Callers and flights are interchangeable.
HealthSymmetry == Permutations(Callers) \cup Permutations(Flights)
=============================================================================
