--------------------------- MODULE EvaluationPool ---------------------------
(***************************************************************************)
(* internal/servicehealth/service.go, evaluate, runRange and runInstant:   *)
(* one evaluation of a workload starts a goroutine per query.  Each runs a *)
(* range call and then an instant call, each of them while it holds a slot *)
(* of the semaphore that all evaluations share, and stores what it got in  *)
(* the results map; wg.Wait lets the evaluation go on when all have.       *)
(*                                                                         *)
(* What Prometheus answers is reduced to what the code tells apart, and    *)
(* module Scoring takes it from there.                                     *)
(***************************************************************************)
EXTENDS Integers, FiniteSets

CONSTANTS
    Evaluations,   \* evaluations that may run at the same time
    Queries,       \* the keys of the queries map
    MaxConcurrent, \* cap(s.sem)
    Queriers,      \* what s.query may be: nil, without a URL, or usable
    Contexts       \* how evaluate may be called: detached (cached) or not

ASSUME PoolAssumption ==
    /\ IsFiniteSet(Evaluations) /\ IsFiniteSet(Queries)
    /\ Queries # {}
    /\ MaxConcurrent \in Nat \ {0}
    /\ Queriers \subseteq {"nil", "unconfigured", "configured"}
    /\ Contexts \subseteq {"detached", "caller's"}

VARIABLES
    querier,   \* s.query
    context,   \* "detached" under the cache, the caller's own with a negative ttl
    sem,       \* len(s.sem)
    ctxDone,   \* the evaluation's ctx has been cancelled
    job,       \* the goroutine of each query: where it is, what its calls gave
    results,   \* the results map: what has been stored so far
    verdict    \* how far each evaluation is and what it returned

vars == <<querier, context, sem, ctxDone, job, results, verdict>>

Failures == {"failed", "cancelled", "not_configured"}
Ranges == {"none", "ok"} \cup Failures
Instants == {"none", "value", "empty"} \cup Failures

Job == [at: {"off", "queued", "calling", "fetched", "stored"}, range: Ranges, instant: Instants]
Idle == [at |-> "off", range |-> "none", instant |-> "none"]
Queued == [Idle EXCEPT !.at = "queued"]

\* queryOutcome: the error that is kept, and whether there is an instant value.
Outcome == [err: {"none"} \cup Failures, valued: BOOLEAN]

Missing == [err |-> "none", valued |-> FALSE]

Jobs == Evaluations \X Queries

Init ==
    /\ querier \in Queriers
    /\ context \in Contexts
    /\ sem = 0
    /\ ctxDone = [e \in Evaluations |-> FALSE]
    /\ job = [j \in Jobs |-> Idle]
    /\ results = [j \in Jobs |-> Missing]
    /\ verdict = [e \in Evaluations |-> "none"]

-----------------------------------------------------------------------------
JobsOf(e) == {e} \X Queries

\* evaluate up to the go statements; a slot of Evaluations is used again when
\* its evaluation has returned.
Begin(e) ==
    /\ verdict[e] # "running"
    /\ ctxDone' = [ctxDone EXCEPT ![e] = FALSE]
    /\ results' = [j \in Jobs |-> IF j \in JobsOf(e) THEN Missing ELSE results[j]]
    /\ IF querier = "nil"
         THEN /\ verdict' = [verdict EXCEPT ![e] = "not_configured"]
              /\ UNCHANGED job
         ELSE /\ verdict' = [verdict EXCEPT ![e] = "running"]
              /\ job' = [j \in Jobs |-> IF j \in JobsOf(e) THEN Queued ELSE job[j]]
    /\ UNCHANGED <<querier, context, sem>>

NoticesDisconnect == context = "caller's"

\* The client disconnects; a detached ctx does not notice.
Cancel(e) ==
    /\ verdict[e] = "running"
    /\ NoticesDisconnect
    /\ ~ctxDone[e]
    /\ ctxDone' = [ctxDone EXCEPT ![e] = TRUE]
    /\ UNCHANGED <<querier, context, sem, job, results, verdict>>

-----------------------------------------------------------------------------
(* A goroutine: runRange, runInstant, and the store.                        *)

\* Its next call, and where the outcome of that call leaves it.
Call(j) == IF job[j].range = "none" THEN "range" ELSE "instant"

Got(j, o) ==
    job' = [job EXCEPT ![j] =
              IF Call(j) = "range" THEN [at |-> "queued", range |-> o, instant |-> @.instant]
                                   ELSE [at |-> "fetched", range |-> @.range, instant |-> o]]

FreeSlot == sem < MaxConcurrent

Acquire(j) ==
    /\ job[j].at = "queued"
    /\ FreeSlot
    /\ sem' = sem + 1
    /\ job' = [job EXCEPT ![j].at = "calling"]
    /\ UNCHANGED <<querier, context, ctxDone, results, verdict>>

\* The other branch of the select: no slot was taken, none is given back.
GiveUp(j) ==
    /\ job[j].at = "queued"
    /\ ctxDone[j[1]]
    /\ Got(j, "cancelled")
    /\ UNCHANGED <<querier, context, sem, ctxDone, results, verdict>>

\* What the calls of the Prometheus client may give.  More than one series is an
\* error of the instant call; a nil client URL is known before anything is sent.
CallOutcomes(j) ==
    IF querier = "unconfigured" THEN {"not_configured"}
    ELSE (IF Call(j) = "range" THEN {"ok"} ELSE {"value", "empty"})
         \cup {"failed"} \cup (IF ctxDone[j[1]] THEN {"cancelled"} ELSE {})

\* (bug) the slot is given back only after a call that worked
ReleasedOnSuccess(o) == IF o \in Failures THEN sem ELSE sem - 1

\* defer func() { <-s.sem }()
Released(o) == sem - 1

CallReturns(j) ==
    /\ job[j].at = "calling"
    /\ \E o \in CallOutcomes(j) :
         /\ Got(j, o)
         /\ sem' = Released(o)
    /\ UNCHANGED <<querier, context, ctxDone, results, verdict>>

\* (bug) the outcome of the instant call replaces that of the range call
LastOutcome(r, i) ==
    [err |-> IF i \in Failures THEN i ELSE "none", valued |-> i = "value"]

\* The range call's error wins; the instant value is kept whatever the range gave.
Merged(r, i) ==
    [err |-> IF r \in Failures THEN r ELSE IF i \in Failures THEN i ELSE "none",
     valued |-> i = "value"]

Store(j) ==
    /\ job[j].at = "fetched"
    /\ results' = [results EXCEPT ![j] = Merged(job[j].range, job[j].instant)]
    /\ job' = [job EXCEPT ![j].at = "stored"]
    /\ UNCHANGED <<querier, context, sem, ctxDone, verdict>>

-----------------------------------------------------------------------------
\* (bug) the evaluation goes on at the first result
FirstResult(e) == \E j \in JobsOf(e) : job[j].at = "stored"

AllStored(e) == \A j \in JobsOf(e) : job[j].at = "stored"

\* (bug) only an evaluation without a single other error is refused
NothingButNotConfigured(e) == \A j \in JobsOf(e) : results[j].err = "not_configured"

SomeNotConfigured(e) == \E j \in JobsOf(e) : results[j].err = "not_configured"

\* wg.Wait, the scan of the results, and the report.
Finish(e) ==
    /\ verdict[e] = "running"
    /\ AllStored(e)
    /\ verdict' = [verdict EXCEPT ![e] = IF SomeNotConfigured(e) THEN "not_configured" ELSE "report"]
    /\ UNCHANGED <<querier, context, sem, ctxDone, job, results>>

-----------------------------------------------------------------------------
Proceed(j) == CallReturns(j) \/ Store(j)

Next ==
    \/ \E e \in Evaluations : Begin(e) \/ Cancel(e) \/ Finish(e)
    \/ \E j \in Jobs : Acquire(j) \/ GiveUp(j) \/ Proceed(j)

Spec == Init /\ [][Next]_vars

\* Calls end by the client's timeout.  A channel serves its blocked senders first
\* in, first out, so a queued goroutine is not passed over for ever: that is
\* strong fairness of Acquire.
Fairness ==
    /\ \A j \in Jobs : SF_vars(Acquire(j)) /\ WF_vars(Proceed(j))
    /\ \A e \in Evaluations : WF_vars(Finish(e))

FairSpec == Spec /\ Fairness

-----------------------------------------------------------------------------
(* Properties.                                                              *)

\* The goroutines that hold a slot.
Calling == {j \in Jobs : job[j].at = "calling"}

\* Type invariant: the service, its goroutines and their results.
TypeOK ==
    /\ querier \in Queriers
    /\ context \in Contexts
    /\ sem \in 0..MaxConcurrent
    /\ ctxDone \in [Evaluations -> BOOLEAN]
    /\ job \in [Jobs -> Job]
    /\ results \in [Jobs -> Outcome]
    /\ verdict \in [Evaluations -> {"none", "running", "report", "not_configured"}]

\* Every slot in use is held by a call in progress, on the error and the
\* cancellation paths too: none leaks and the calls of all the evaluations
\* together never exceed the limit (service.go:361-379).
SlotsAccountedFor == sem = Cardinality(Calling) /\ sem <= MaxConcurrent

\* An evaluation never returns while a goroutine of its own still calls or
\* stores: the results map is complete and no longer written (service.go:303-325).
ReportWaitsForAll ==
    \A e \in Evaluations : verdict[e] \in {"report", "not_configured"} =>
      \/ \A j \in JobsOf(e) : job[j].at \in {"off", "stored"}
      \/ querier = "nil"

\* A query is errored in the report exactly when one of its two calls failed,
\* the range call's error is the one that is kept, and a value is shown exactly
\* when the instant call gave one (service.go:311-323).
ErrorsAreKept ==
    \A e \in Evaluations : verdict[e] = "report" => \A j \in JobsOf(e) :
      LET r == job[j].range
          i == job[j].instant IN
        /\ r # "none" /\ i # "none"
        /\ results[j].err # "none" <=> r \in Failures \/ i \in Failures
        /\ r \in Failures => results[j].err = r
        /\ results[j].valued <=> i = "value"

\* Without a usable Prometheus an evaluation that cannot be cancelled always ends
\* with ErrPrometheusNotConfigured, with one it never does, and no report hides
\* that error among others (service.go:295-297, 327-331).
NotConfiguredIsNeverAReport ==
    \A e \in Evaluations :
      /\ verdict[e] = "not_configured" => querier # "configured"
      /\ verdict[e] = "report" /\ querier # "configured" => ctxDone[e]
      /\ verdict[e] = "report" => \A j \in JobsOf(e) : results[j].err # "not_configured"

\* No evaluation under the cache is ever cut short: its results are Prometheus's
\* own, whoever disconnects (cache.go:76-79, service.go:363-379).
DetachedIsNeverCancelled ==
    \A j \in Jobs : context = "detached" =>
      results[j].err # "cancelled" /\ job[j].range # "cancelled" /\ job[j].instant # "cancelled"

\* Every evaluation returns, however many share the slots (service.go:325, 361-379).
EveryEvaluationReturns ==
    \A e \in Evaluations : verdict[e] = "running" ~> verdict[e] # "running"

-----------------------------------------------------------------------------
(* The inductive invariant behind the safety properties.                    *)

\* How far a goroutine is says which of its calls are over and what is stored.
Progress(j) ==
    /\ job[j].at = "off" => job[j].range = "none"
    /\ job[j].at \in {"off", "queued", "calling"} => job[j].instant = "none"
    /\ job[j].at \in {"fetched", "stored"} => job[j].range # "none" /\ job[j].instant # "none"
    /\ results[j] = IF job[j].at = "stored" THEN Merged(job[j].range, job[j].instant) ELSE Missing

\* A call gives "cancelled" only in a cancelled ctx, and "not_configured" only
\* without a usable client, which gives nothing else.
Origin(j) ==
    \A o \in {job[j].range, job[j].instant} :
      /\ o = "cancelled" => ctxDone[j[1]]
      /\ querier = "configured" => o # "not_configured"
      /\ querier # "configured" => o \in {"none", "cancelled", "not_configured"}

\* How far the goroutines of an evaluation are, from how far the evaluation is.
Stage(e) ==
    /\ ctxDone[e] => context # "detached"
    /\ querier = "nil" => verdict[e] \in {"none", "not_configured"}
    /\ \A j \in JobsOf(e) :
         IF verdict[e] = "none" \/ querier = "nil" THEN job[j].at = "off"
         ELSE IF verdict[e] = "running" THEN job[j].at # "off"
         ELSE job[j].at = "stored"

\* What was returned agrees with what was stored.
Verdict(e) ==
    /\ verdict[e] = "report" => ~SomeNotConfigured(e)
    /\ verdict[e] = "not_configured" => querier # "configured"

JobsInv == \A j \in Jobs : Progress(j) /\ Origin(j)
StagesInv == \A e \in Evaluations : Stage(e)
VerdictsInv == \A e \in Evaluations : Verdict(e)

PoolInv == TypeOK /\ SlotsAccountedFor /\ JobsInv /\ StagesInv /\ VerdictsInv
=============================================================================
