---------------------------- MODULE ServiceHealth ----------------------------
(***************************************************************************)
(* The path of one request for a service's report, with what it reads on   *)
(* the way: microserviceMetrics (internal/api/server.go) takes the pods of *)
(* the workload from the collector's snapshot, Query (service.go) asks the *)
(* cache under a key that does not name them, and an evaluation scores the *)
(* pods its leader read against a Prometheus that may be down.             *)
(*                                                                         *)
(* ReportCache is extended by the time an evaluation may take and by what  *)
(* went into it: two clocks meet, that of the collector and that of ttl.   *)
(* The workload is in every snapshot; a request for another ends with 404  *)
(* before it reaches the cache.                                            *)
(***************************************************************************)
EXTENDS ReportCache, Sequences

CONSTANTS
    EvalTime,  \* an evaluation ends within this time: its calls have timeouts
    MaxPolls   \* snapshots of a run (bounds the runs)

ASSUME HealthAssumption == EvalTime \in Nat \ {0} /\ MaxPolls \in Nat

Never == -1

VARIABLES
    polls,    \* when each snapshot was published
    taken,    \* the snapshot each request has read
    down,     \* Prometheus fails its queries
    upSince,  \* the end of its outage
    scored    \* for each flight: its snapshot, when it began, what it met

added == <<polls, taken, down, upSince, scored>>
allVars == <<vars, added>>

Unscored == [snap |-> 0, began |-> 0, exposed |-> FALSE, errored |-> FALSE]

HealthInit ==
    /\ Init
    /\ polls = <<>>
    /\ taken = [c \in Callers |-> 0]
    /\ down = FALSE /\ upSince = Never
    /\ scored = [f \in Flights |-> Unscored]

-----------------------------------------------------------------------------
(* The environment: the collector, Prometheus, the time.                    *)

\* The collector publishes; polls that fail leave the last snapshot on display.
Poll ==
    /\ Len(polls) < MaxPolls
    /\ polls' = Append(polls, now)
    /\ UNCHANGED <<vars, taken, down, upSince, scored>>

\* One outage; it touches every evaluation that is running.
Outage ==
    /\ ~down /\ upSince = Never
    /\ down' = TRUE
    /\ scored' = [f \in Flights |-> [scored[f] EXCEPT !.exposed = @ \/ flights[f].stage = "running"]]
    /\ UNCHANGED <<vars, polls, taken, upSince>>

Recover ==
    /\ down
    /\ down' = FALSE /\ upSince' = now
    /\ UNCHANGED <<vars, polls, taken, scored>>

\* (bug) the query client has no timeout
NoTimeout(c) == TRUE

\* An evaluation may go on for another tick.
InTime(c) == now < scored[on[c]].began + EvalTime

\* Computing takes no time, and neither does waiting for mu.
Computing(c) == pc[c] \in {"arrived", "closing"} \/ (pc[c] = "waiting" /\ FlightDone(on[c]))

TimePasses ==
    /\ Tick
    /\ \A c \in Callers : ~Computing(c) /\ (Owns(c) => InTime(c))
    /\ UNCHANGED added

-----------------------------------------------------------------------------
(* A request.                                                               *)

\* requireData, and the names of the workload's pods.
Request(c, k) ==
    /\ polls # <<>>
    /\ Arrive(c, k)
    /\ taken' = [taken EXCEPT ![c] = Len(polls)]
    /\ UNCHANGED <<polls, down, upSince, scored>>

\* The closure that Query hands to the cache holds the caller's own pods.
BeginEvaluation(c) ==
    /\ Lead(c) \/ Direct(c)
    /\ scored' = [scored EXCEPT ![on'[c]] =
                    [snap |-> taken[c], began |-> now, exposed |-> down, errored |-> FALSE]]
    /\ UNCHANGED <<polls, taken, down, upSince>>

\* Queries that fail make a report of errors, and no error of the evaluation.
EndEvaluation(c) ==
    /\ Evaluate(c)
    /\ \E e \in BOOLEAN :
         /\ e => scored[on[c]].exposed
         /\ scored' = [scored EXCEPT ![on[c]].errored = e]
    /\ UNCHANGED <<polls, taken, down, upSince>>

\* A disconnection is told here only where do looks at the ctx.
Elsewhere(c) ==
    /\ \/ Hit(c) \/ Join(c) \/ Publish(c) \/ WaitDone(c) \/ GiveUp(c)
       \/ pc[c] \in {"waiting", "direct"} /\ Disconnect(c)
    /\ UNCHANGED added

HealthNext ==
    \/ Poll \/ Outage \/ Recover \/ TimePasses
    \/ \E c \in Callers :
         \/ \E k \in Keys : Request(c, k)
         \/ BeginEvaluation(c) \/ EndEvaluation(c) \/ Elsewhere(c)

HealthSpec == HealthInit /\ [][HealthNext]_allVars

-----------------------------------------------------------------------------
(* Properties.                                                              *)

Answered(c) == answer'[c] # answer[c] /\ answer'[c].flight # None

\* d is an age a caller may see: nothing is older than the time one evaluation
\* takes, and what comes from the map stays below that and the ttl.
Tolerable(c, d) == IF answer'[c].how = "hit" THEN d < EvalTime + ttl ELSE d <= EvalTime

ReplacedAt(n) == IF n < Len(polls) THEN polls[n + 1] ELSE now

\* The key of the cache leaves the pods out (service.go:288), and a request gets a
\* report that was scored for the pods another one had read: but never for pods
\* that have been off display for longer than an evaluation and the ttl.
ScoredPodsWereOnDisplay ==
    [][\A c \in Callers : Answered(c) =>
         Tolerable(c, now - ReplacedAt(scored'[answer'[c].flight].snap))]_allVars

\* A report whose queries failed is cached like a good one (cache.go:84): it is
\* shown no longer than an evaluation and the ttl after Prometheus is back.
OutageIsForgotten ==
    [][\A c \in Callers : Answered(c) /\ scored'[answer'[c].flight].errored =>
         down \/ Tolerable(c, now - upSince)]_allVars
=============================================================================
