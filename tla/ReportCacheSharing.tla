------------------------- MODULE ReportCacheSharing -------------------------
(***************************************************************************)
(* The report cache implements what ReportSharing promises.                 *)
(* One history variable is added to ReportCache: the evaluations that were *)
(* already retired when a caller's request came.                           *)
(***************************************************************************)
EXTENDS ReportCache

\* A caller that wants nothing is told apart from one that wants a key.
ASSUME SharingAssumption == None \notin Keys

VARIABLE missed

\* A flight's phase, from the code's state: it is over, and still joined by
\* whoever comes, until its leader has removed it from the inflight map.
Phase(f) ==
    CASE flights[f].stage = "unused"  -> "none"
      [] flights[f].stage = "running" -> "running"
      [] OTHER -> IF inflight[flights[f].key] = f THEN "over" ELSE "retired"

Owner(f) == IF \E c \in Callers : Owns(c) /\ on[c] = f
            THEN CHOOSE c \in Callers : Owns(c) /\ on[c] = f ELSE None

RetiredFlights == {f \in Flights : Phase(f) = "retired"}

HInit == Init /\ missed = [c \in Callers |-> {}]

\* missed follows the callers: a request that arrives notes what it has missed.
HNext ==
    /\ Next
    /\ missed' = [c \in Callers |->
                    IF pc[c] = "idle" /\ pc'[c] = "arrived" THEN RetiredFlights ELSE missed[c]]

HSpec == HInit /\ [][HNext]_<<vars, missed>>

Sharing == INSTANCE ReportSharing WITH
    evals <- [f \in Flights |-> [key |-> flights[f].key, phase |-> Phase(f),
                                 owner |-> Owner(f), outcome |-> flights[f].outcome,
                                 publishedAt |-> flights[f].publishedAt]],
    wants <- [c \in Callers |-> IF pc[c] = "idle" THEN None ELSE ask[c]],
    answer <- [c \in Callers |-> [outcome |-> answer[c].outcome, flight |-> answer[c].flight]]

\* Every behaviour of reportCache.do is one that ReportSharing allows: requests
\* share the evaluation that is in progress when they come, or a report younger
\* than ttl, and nothing else (cache.go:50-91).
ImplementsSharing == Sharing!Spec

\* What the refinement needs besides the invariant of the cache: what a request has
\* missed stays retired, and nobody waits for it.
MissedInv ==
    \A c \in Callers :
      /\ missed[c] \subseteq RetiredFlights
      /\ pc[c] = "waiting" => on[c] \notin missed[c]

HInv == IInv /\ missed \in [Callers -> SUBSET Flights] /\ MissedInv
=============================================================================
