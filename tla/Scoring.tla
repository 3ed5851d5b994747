------------------------------ MODULE Scoring ------------------------------
(***************************************************************************)
(* internal/servicehealth/service.go: how the outcomes of the queries of   *)
(* one evaluation become four signals and one severity.                    *)
(*                                                                         *)
(* Values are integers that stand for the percentages and counts; only     *)
(* their order against the thresholds matters.  The scoring is pure: the   *)
(* state is its input, and a step is the change of one query's outcome     *)
(* between two evaluations of a workload.                                  *)
(*                                                                         *)
(* The thresholds are those that the process accepts from its environment  *)
(* when it starts (internal/config/config.go and validateThresholds).      *)
(***************************************************************************)
EXTENDS Integers

CONSTANTS
    Inputs,      \* Inputs[q]: the outcomes query q may have
    Supplied,    \* thresholds as the environment gives them
    Defaults,    \* DefaultConfig().Thresholds
    Unset,       \* a variable that is unset or blank
    Unparseable, \* one that holds no number
    Replicas,    \* workload.DesiredReplica
    NoValue      \* a nil *float64

Queries == {"errors", "errors_previous", "cpu", "memory", "waiting", "failed_phase"}

\* queryOutcome: the instant value, and the error of either evaluation.
Outcome == [err: BOOLEAN, instant: Int \cup {NoValue}]

Pairs == {"error", "increase", "cpu", "memory", "pods"}

\* A critical threshold above the warning, for the failing pods possibly equal to it.
Validated(t) ==
    /\ \A p \in Pairs : t[p].warning \in Nat \ {0} /\ t[p].critical \in Nat \ {0}
    /\ \A p \in Pairs \ {"pods"} : t[p].warning < t[p].critical
    /\ t["pods"].warning <= t["pods"].critical

Given == Int \cup {Unset, Unparseable}

ASSUME ScoringAssumption ==
    /\ \A q \in Queries : Inputs[q] \subseteq Outcome
    /\ \A s \in Supplied : \A p \in Pairs : s[p].warning \in Given /\ s[p].critical \in Given
    /\ Validated(Defaults)
    /\ Replicas \subseteq Nat
    /\ NoValue \notin Int /\ Unset \notin Int /\ Unparseable \notin Int

VARIABLES
    results,     \* the results map of evaluate
    thresholds,  \* s.cfg.Thresholds
    desired,     \* workload.DesiredReplica
    compared,    \* window.Comparable()
    report       \* Report: the signals and their aggregate

vars == <<results, thresholds, desired, compared, report>>

-----------------------------------------------------------------------------
(* The thresholds.                                                          *)

\* Load records a problem, and Validate stops the process.
Problem(s) == \E p \in Pairs : s[p].warning = Unparseable \/ s[p].critical = Unparseable

\* envFloat: zero is what an unset variable gives, and it means the default.
envFloat(v) == IF v = Unset THEN 0 ELSE v
orDefault(v, fallback) == IF envFloat(v) = 0 THEN fallback ELSE envFloat(v)

Read(s) ==
    [p \in Pairs |-> [warning  |-> orDefault(s[p].warning, Defaults[p].warning),
                      critical |-> orDefault(s[p].critical, Defaults[p].critical)]]

\* (bug) a default is trusted to fit the other half of its pair
InOrderAsSupplied(p, t) ==
    /\ t.warning >= 0 /\ t.critical >= 0
    /\ t.critical = Defaults[p].critical \/ t.warning < t.critical

InOrder(p, t) ==
    /\ t.warning >= 0 /\ t.critical >= 0
    /\ IF p = "pods" THEN t.warning <= t.critical ELSE t.warning < t.critical

validateThresholds(t) == \A p \in Pairs : InOrder(p, t[p])

\* s.cfg.Thresholds, for the environments with which the process starts.
Thresholds == {Read(s) : s \in {x \in Supplied : ~Problem(x) /\ validateThresholds(Read(x))}}

-----------------------------------------------------------------------------
(* Severities.                                                              *)

Severities == {"healthy", "unknown", "warning", "critical"}

Rank(s) == CASE s = "healthy" -> 0 [] s = "unknown" -> 1 [] s = "warning" -> 2 [] s = "critical" -> 3

\* (bug) the first signal that is not healthy decides
firstSeverity(a, b) == IF a = "healthy" THEN b ELSE a

maxSeverity(a, b) == IF Rank(b) > Rank(a) THEN b ELSE a

\* (bug) a value on the critical threshold falls through
thresholdSeverityGap(value, warning, critical) ==
    IF value > critical THEN "critical"
    ELSE IF value >= warning /\ value < critical THEN "warning" ELSE "healthy"

thresholdSeverity(value, warning, critical) ==
    IF value >= critical THEN "critical" ELSE IF value >= warning THEN "warning" ELSE "healthy"

-----------------------------------------------------------------------------
(* Signals.                                                                 *)

Errored == [state |-> "error", severity |-> "unknown"]
NoData  == [state |-> "no_data", severity |-> "unknown"]
Measured(s) == [state |-> "ok", severity |-> s]

simpleSignal(t, got) ==
    IF got.err THEN Errored
    ELSE IF got.instant = NoValue THEN NoData
    ELSE Measured(thresholdSeverity(got.instant, t.warning, t.critical))

\* (bug) the increase replaces the severity of the error rate
errorSignalByIncrease(current, previous, cmp) ==
    IF current.err THEN Errored
    ELSE IF current.instant = NoValue THEN NoData
    ELSE IF cmp /\ ~previous.err /\ previous.instant # NoValue
      THEN Measured(thresholdSeverity(current.instant - previous.instant,
                      thresholds["increase"].warning, thresholds["increase"].critical))
      ELSE Measured(thresholdSeverity(current.instant, thresholds["error"].warning, thresholds["error"].critical))

\* The week before counts only where it is compared and was measured.
errorSignal(current, previous, cmp) ==
    LET t == thresholds["error"]
        i == thresholds["increase"]
        own == thresholdSeverity(current.instant, t.warning, t.critical)
        difference == current.instant - previous.instant
    IN IF current.err THEN Errored
       ELSE IF current.instant = NoValue THEN NoData
       ELSE IF cmp /\ ~previous.err /\ previous.instant # NoValue /\ difference > 0
         THEN Measured(maxSeverity(own, thresholdSeverity(difference, i.warning, i.critical)))
         ELSE Measured(own)

\* math.Ceil(desired * 0.10) and math.Ceil(desired * 0.25)
CeilTenth(n) == (n + 9) \div 10
CeilQuarter(n) == (n + 3) \div 4

Larger(a, b) == IF a >= b THEN a ELSE b

\* (bug) a single replica keeps the configured threshold
podsCriticalConfigured(t, n) == Larger(t.critical, CeilQuarter(n))

podsCritical(t, n) == IF n <= 1 THEN 1 ELSE Larger(t.critical, CeilQuarter(n))

\* A single replica has no warning band: the critical threshold stands in for it.
podsWarning(t, n) == IF n <= 1 THEN podsCritical(t, n) ELSE Larger(t.warning, CeilTenth(n))

valueOrZero(v) == IF v = NoValue THEN 0 ELSE v

failingPodsSignal(n, waiting, failed) ==
    LET t == thresholds["pods"]
    IN IF waiting.err /\ failed.err THEN Errored
       ELSE IF waiting.instant = NoValue /\ failed.instant = NoValue THEN NoData
       ELSE Measured(thresholdSeverity(valueOrZero(waiting.instant) + valueOrZero(failed.instant),
                                       podsWarning(t, n), podsCritical(t, n)))

-----------------------------------------------------------------------------
(* The report.                                                              *)

Signals(r) ==
    [error_rate   |-> errorSignal(r["errors"], r["errors_previous"], compared),
     cpu          |-> simpleSignal(thresholds["cpu"], r["cpu"]),
     memory       |-> simpleSignal(thresholds["memory"], r["memory"]),
     failing_pods |-> failingPodsSignal(desired, r["waiting"], r["failed_phase"])]

SignalKeys == {"error_rate", "cpu", "memory", "failing_pods"}

\* (bug) an errored signal is skipped like one without data
ContributionOfMeasured(signal) == IF signal.state = "ok" THEN signal.severity ELSE "healthy"

\* What one signal adds to the worst so far; one without data adds nothing.
Contribution(signal) ==
    IF signal.state = "ok" THEN signal.severity
    ELSE IF signal.state = "error" THEN "unknown" ELSE "healthy"

aggregate(s) ==
    IF \A k \in SignalKeys : s[k].state = "no_data" THEN "unknown"
    ELSE maxSeverity(maxSeverity(maxSeverity(maxSeverity("healthy",
           Contribution(s.error_rate)), Contribution(s.cpu)),
           Contribution(s.memory)), Contribution(s.failing_pods))

Evaluate(r) == LET s == Signals(r) IN [signals |-> s, severity |-> aggregate(s)]

-----------------------------------------------------------------------------
\* What a query that was not run leaves in the results map.
Zero == [err |-> FALSE, instant |-> NoValue]

Init ==
    /\ results = [q \in Queries |-> Zero]
    /\ thresholds \in Thresholds
    /\ desired \in Replicas
    /\ compared \in BOOLEAN
    /\ report = Evaluate(results)

\* errors_previous is queried only for the windows that are compared.
NextEvaluation(q, o) ==
    /\ q = "errors_previous" => compared
    /\ results' = [results EXCEPT ![q] = o]
    /\ report' = Evaluate(results')
    /\ UNCHANGED <<thresholds, desired, compared>>

Next == \E q \in Queries : \E o \in Inputs[q] : NextEvaluation(q, o)

Spec == Init /\ [][Next]_vars

-----------------------------------------------------------------------------
(* Properties.                                                              *)

\* Type invariant: the outcomes of the queries and the four signals.  No report is
\* scored against thresholds out of order, whatever half of a pair the environment
\* gives (config.go:152-170, service.go:775-803).
TypeOK ==
    /\ results \in [Queries -> Outcome]
    /\ Validated(thresholds)
    /\ desired \in Replicas
    /\ compared \in BOOLEAN
    /\ \A k \in SignalKeys :
         report.signals[k] \in [state: {"ok", "no_data", "error"}, severity: Severities]
    /\ report.severity \in Severities

\* A green service has a measured signal, no errored one, and every measured
\* signal below its thresholds (service.go:634-653).
GreenIsMeasured ==
    report.severity = "healthy" =>
      /\ \E k \in SignalKeys : report.signals[k].state = "ok"
      /\ \A k \in SignalKeys : report.signals[k].state # "error"
      /\ \A k \in SignalKeys : report.signals[k].state = "ok" => report.signals[k].severity = "healthy"

\* An alarm is raised exactly when a measured signal raises it, whatever the
\* other signals lack (service.go:634-653, 816-824).
AlarmIsASignals ==
    \A s \in {"warning", "critical"} :
      report.severity = s <=> /\ \E k \in SignalKeys : report.signals[k] = Measured(s)
                       /\ \A k \in SignalKeys : report.signals[k].state = "ok" =>
                            Rank(report.signals[k].severity) <= Rank(s)

\* Comparing with the week before only ever makes the error signal worse
\* (service.go:531-545).
ComparisonOnlyRaises ==
    LET alone == errorSignal(results["errors"], Zero, FALSE)
    IN /\ report.signals["error_rate"].state = alone.state
       /\ Rank(report.signals["error_rate"].severity) >= Rank(alone.severity)

\* A measured failing pod of a single-replica service is an outage: the whole
\* service is critical (service.go:585-592, 601-615).
SingleReplicaDownIsCritical ==
    /\ desired <= 1
    /\ ~(results["waiting"].err /\ results["failed_phase"].err)
    /\ \E q \in {"waiting", "failed_phase"} : results[q].instant \notin {NoValue, 0}
    /\ \A q \in {"waiting", "failed_phase"} : valueOrZero(results[q].instant) >= 0
    => report.severity = "critical"

\* A service that gets worse never looks better: raising the value of one query
\* (not the week before) never lowers the severity of the report.
WorseNeverLooksBetter ==
    [][\A q \in Queries \ {"errors_previous"} :
         LET old == results[q]
             new == results'[q]
         IN /\ \A p \in Queries \ {q} : results'[p] = results[p]
            /\ new.err = old.err
            /\ old.instant # NoValue /\ new.instant # NoValue
            /\ old.instant <= new.instant
            => Rank(report.severity) <= Rank(report'.severity)]_vars

\* The guide: "a broken query can never make a service look green" (docs/technical-guide.md:165-166,
\* service.go:629-633).
BrokenQueryIsNeverGreen ==
    (\E q \in Queries : results[q].err) => report.severity # "healthy"
=============================================================================
