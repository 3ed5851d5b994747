--------------------------- MODULE ScoringProofs ---------------------------
(* Theorems about Scoring, for all thresholds, replica counts and outcomes. *)
EXTENDS Scoring, TLAPS

USE ScoringAssumption

-----------------------------------------------------------------------------
(* The order of the severities.                                             *)

LEMMA SeverityTypes ==
    /\ \A v, w, c : thresholdSeverity(v, w, c) \in {"healthy", "warning", "critical"}
    /\ \A a, b \in Severities : maxSeverity(a, b) \in {a, b}
    /\ \A a, b \in Severities : Rank(maxSeverity(a, b)) >= Rank(a)
    /\ \A a, b \in Severities : Rank(maxSeverity(a, b)) >= Rank(b)
BY DEF thresholdSeverity, maxSeverity, Rank, Severities

\* Ranks tell severities apart.
LEMMA RankInjective ==
    \A a, b \in Severities : Rank(a) \in Nat /\ (Rank(a) = Rank(b) => a = b)
BY DEF Rank, Severities

\* A larger value is never less severe, for any thresholds in order.
LEMMA ThresholdMonotone ==
    ASSUME NEW v \in Int, NEW u \in Int, v <= u, NEW w \in Int, NEW c \in Int, w <= c
    PROVE  Rank(thresholdSeverity(v, w, c)) <= Rank(thresholdSeverity(u, w, c))
BY DEF thresholdSeverity, Rank

LEMMA MaxMonotone ==
    ASSUME NEW a \in Severities, NEW b \in Severities, NEW x \in Severities, NEW y \in Severities,
           Rank(a) <= Rank(b), Rank(x) <= Rank(y)
    PROVE  Rank(maxSeverity(a, x)) <= Rank(maxSeverity(b, y))
BY DEF maxSeverity, Rank, Severities

-----------------------------------------------------------------------------
(* The thresholds.                                                          *)

\* Zero is replaced by a default that is positive.
LEMMA OrDefaultIsSet ==
    ASSUME NEW v \in Int \cup {Unset}, NEW d \in Nat \ {0}
    PROVE  orDefault(v, d) \in Int \ {0}
BY DEF orDefault, envFloat

\* No process starts with thresholds out of order, whatever its environment says
\* (config.go:68-76, 152-170, service.go:775-803).
THEOREM AcceptedInOrder == \A t \in Thresholds : Validated(t)
<1> SUFFICES ASSUME NEW s \in Supplied, ~Problem(s), validateThresholds(Read(s))
             PROVE  Validated(Read(s))
  BY DEF Thresholds
<1>1. ASSUME NEW p \in Pairs
      PROVE  /\ Read(s)[p].warning \in Nat \ {0} /\ Read(s)[p].critical \in Nat \ {0}
             /\ IF p = "pods" THEN Read(s)[p].warning <= Read(s)[p].critical
                             ELSE Read(s)[p].warning < Read(s)[p].critical
  <2>1. s[p].warning \in Int \cup {Unset} /\ s[p].critical \in Int \cup {Unset}
    BY DEF ScoringAssumption, Given, Problem
  <2>2. Defaults[p].warning \in Nat \ {0} /\ Defaults[p].critical \in Nat \ {0}
    BY DEF ScoringAssumption, Validated
  <2>3. Read(s)[p].warning \in Int \ {0} /\ Read(s)[p].critical \in Int \ {0}
    BY <2>1, <2>2, OrDefaultIsSet DEF Read
  <2>4. InOrder(p, Read(s)[p])
    BY DEF validateThresholds
  <2> QED
    BY <2>3, <2>4 DEF InOrder
<1> QED
  BY <1>1 DEF Validated, Pairs

\* The bands of the failing pods stay in order however large the workload: the
\* warning threshold never lies above the critical one (service.go:583-592).
THEOREM PodBandsOrdered ==
    ASSUME NEW t \in Thresholds, NEW n \in Nat, ScoringAssumption
    PROVE  podsWarning(t["pods"], n) <= podsCritical(t["pods"], n)
<1>1. t["pods"].warning \in Nat /\ t["pods"].critical \in Nat
      /\ t["pods"].warning <= t["pods"].critical
  BY AcceptedInOrder DEF Validated, Pairs
<1>2. CeilTenth(n) <= CeilQuarter(n) /\ CeilTenth(n) \in Int /\ CeilQuarter(n) \in Int
  BY DEF CeilTenth, CeilQuarter
<1> QED
  BY <1>1, <1>2 DEF podsWarning, podsCritical, Larger

-----------------------------------------------------------------------------
(* Signals and their aggregate.                                             *)

Signal == [state: {"ok", "no_data", "error"}, severity: Severities]

\* A signal is errored, without data, or measured; never measured "unknown".
WellFormed(s) ==
    s \in {Errored, NoData} \cup {Measured(x) : x \in {"healthy", "warning", "critical"}}

LEMMA WellFormedSignals ==
    ASSUME NEW s, WellFormed(s)
    PROVE  /\ s \in Signal /\ Contribution(s) \in Severities
           /\ s.state = "ok" => s = Measured(s.severity) /\ Contribution(s) = s.severity
           /\ s.state # "ok" => Contribution(s) \in {"healthy", "unknown"}
           /\ s.state = "error" => Contribution(s) = "unknown"
BY DEF WellFormed, Errored, NoData, Measured, Signal, Contribution, Severities

LEMMA MeasuredThreshold ==
    ASSUME NEW v, NEW w, NEW c
    PROVE  WellFormed(Measured(thresholdSeverity(v, w, c)))
BY SeverityTypes DEF WellFormed

LEMMA SimpleWellFormed ==
    ASSUME NEW t, NEW got
    PROVE  WellFormed(simpleSignal(t, got))
BY MeasuredThreshold DEF simpleSignal, WellFormed

LEMMA ErrorWellFormed ==
    ASSUME NEW current, NEW previous, NEW cmp
    PROVE  WellFormed(errorSignal(current, previous, cmp))
<1>1. \A v, w, c, u, x, d : WellFormed(Measured(maxSeverity(thresholdSeverity(v, w, c), thresholdSeverity(u, x, d))))
  <2>1. \A a, b \in {"healthy", "warning", "critical"} : maxSeverity(a, b) \in {"healthy", "warning", "critical"}
    BY DEF maxSeverity
  <2> QED
    BY <2>1, SeverityTypes DEF WellFormed
<1> QED
  BY <1>1, MeasuredThreshold DEF errorSignal, WellFormed

LEMMA PodsWellFormed ==
    ASSUME NEW n, NEW waiting, NEW failed
    PROVE  WellFormed(failingPodsSignal(n, waiting, failed))
BY MeasuredThreshold DEF failingPodsSignal, WellFormed

\* The aggregate of signals that are not all without data is their worst contribution.
Worst(s) ==
    maxSeverity(maxSeverity(maxSeverity(maxSeverity("healthy",
       Contribution(s.error_rate)), Contribution(s.cpu)),
       Contribution(s.memory)), Contribution(s.failing_pods))

LEMMA WorstIsMax ==
    ASSUME NEW a \in Severities, NEW b \in Severities, NEW c \in Severities, NEW d \in Severities
    PROVE  LET m == maxSeverity(maxSeverity(maxSeverity(maxSeverity("healthy", a), b), c), d)
           IN /\ m \in {"healthy", a, b, c, d}
              /\ Rank(m) >= Rank(a) /\ Rank(m) >= Rank(b) /\ Rank(m) >= Rank(c) /\ Rank(m) >= Rank(d)
<1> DEFINE p == maxSeverity("healthy", a)
           q == maxSeverity(p, b)
           r == maxSeverity(q, c)
           m == maxSeverity(r, d)
<1>0. "healthy" \in Severities
  BY DEF Severities
<1>1. p \in {"healthy", a} /\ p \in Severities /\ Rank(p) >= Rank(a)
  BY <1>0, SeverityTypes
<1> HIDE DEF p
<1>2. q \in {p, b} /\ q \in Severities /\ Rank(q) >= Rank(p) /\ Rank(q) >= Rank(b)
  BY <1>1, SeverityTypes
<1> HIDE DEF q
<1>3. r \in {q, c} /\ r \in Severities /\ Rank(r) >= Rank(q) /\ Rank(r) >= Rank(c)
  BY <1>2, SeverityTypes
<1> HIDE DEF r
<1>4. m \in {r, d} /\ m \in Severities /\ Rank(m) >= Rank(r) /\ Rank(m) >= Rank(d)
  BY <1>3, SeverityTypes
<1> HIDE DEF m
<1>5. \A x \in Severities : Rank(x) \in Int
  BY RankInjective
<1>6. m \in {"healthy", a, b, c, d}
  BY <1>1, <1>2, <1>3, <1>4
<1>7. Rank(m) >= Rank(a) /\ Rank(m) >= Rank(b) /\ Rank(m) >= Rank(c) /\ Rank(m) >= Rank(d)
  <2>1. /\ Rank(p) \in Int /\ Rank(q) \in Int /\ Rank(r) \in Int /\ Rank(m) \in Int
        /\ Rank(a) \in Int /\ Rank(b) \in Int /\ Rank(c) \in Int /\ Rank(d) \in Int
    BY <1>1, <1>2, <1>3, <1>4, <1>5
  <2> QED
    BY <1>1, <1>2, <1>3, <1>4, <2>1
<1> QED
  BY <1>6, <1>7 DEF m, r, q, p

WellFormedAll(s) == \A k \in SignalKeys : WellFormed(s[k])

LEMMA WorstFacts ==
    ASSUME NEW s, WellFormedAll(s)
    PROVE  /\ Worst(s) = "healthy" \/ \E k \in SignalKeys : Worst(s) = Contribution(s[k])
           /\ \A k \in SignalKeys : Rank(Worst(s)) >= Rank(Contribution(s[k]))
           /\ Worst(s) \in Severities
<1>1. \A k \in SignalKeys : Contribution(s[k]) \in Severities
  BY WellFormedSignals DEF WellFormedAll
<1>2. /\ Contribution(s["error_rate"]) \in Severities /\ Contribution(s["cpu"]) \in Severities
      /\ Contribution(s["memory"]) \in Severities /\ Contribution(s["failing_pods"]) \in Severities
  BY <1>1 DEF SignalKeys
<1>3. LET m == Worst(s)
      IN /\ m \in {"healthy", Contribution(s["error_rate"]), Contribution(s["cpu"]),
                   Contribution(s["memory"]), Contribution(s["failing_pods"])}
         /\ Rank(m) >= Rank(Contribution(s["error_rate"])) /\ Rank(m) >= Rank(Contribution(s["cpu"]))
         /\ Rank(m) >= Rank(Contribution(s["memory"])) /\ Rank(m) >= Rank(Contribution(s["failing_pods"]))
  BY <1>2, WorstIsMax DEF Worst
<1> HIDE DEF Worst
<1>4. "healthy" \in Severities
  BY DEF Severities
<1> QED
  BY <1>2, <1>3, <1>4 DEF SignalKeys

AllNoData(s) == \A k \in SignalKeys : s[k].state = "no_data"

LEMMA AggregateIsWorst ==
    ASSUME NEW s
    PROVE  aggregate(s) = IF AllNoData(s) THEN "unknown" ELSE Worst(s)
BY DEF aggregate, AllNoData, Worst

\* A healthy aggregate: something measured, nothing errored, nothing above a threshold.
LEMMA GreenAggregate ==
    ASSUME NEW s, WellFormedAll(s), aggregate(s) = "healthy"
    PROVE  /\ \E k \in SignalKeys : s[k].state = "ok"
           /\ \A k \in SignalKeys : s[k].state # "error"
           /\ \A k \in SignalKeys : s[k].state = "ok" => s[k].severity = "healthy"
<1>1. ~AllNoData(s) /\ Worst(s) = "healthy"
  BY AggregateIsWorst
<1>2. \A k \in SignalKeys : Contribution(s[k]) = "healthy"
  <2> SUFFICES ASSUME NEW k \in SignalKeys PROVE Contribution(s[k]) = "healthy"
    OBVIOUS
  <2>1. Rank("healthy") >= Rank(Contribution(s[k])) /\ Contribution(s[k]) \in Severities
    BY <1>1, WorstFacts, WellFormedSignals DEF WellFormedAll
  <2> QED
    BY <2>1 DEF Rank, Severities
<1>3. \A k \in SignalKeys : s[k].state \in {"ok", "no_data", "error"}
  BY WellFormedSignals DEF WellFormedAll, Signal
<1>4. \A k \in SignalKeys : s[k].state # "error"
  BY <1>2, WellFormedSignals DEF WellFormedAll
<1> QED
  BY <1>1, <1>2, <1>3, <1>4, WellFormedSignals DEF WellFormedAll, AllNoData

\* An aggregate of warning or critical: the worst of what was measured.
LEMMA AlarmAggregate ==
    ASSUME NEW s, WellFormedAll(s), NEW x \in {"warning", "critical"}
    PROVE  aggregate(s) = x <=>
             /\ \E k \in SignalKeys : s[k] = Measured(x)
             /\ \A k \in SignalKeys : s[k].state = "ok" => Rank(s[k].severity) <= Rank(x)
<1> DEFINE m == Worst(s)
<1>w. /\ m = "healthy" \/ \E k \in SignalKeys : m = Contribution(s[k])
      /\ \A k \in SignalKeys : Rank(m) >= Rank(Contribution(s[k]))
      /\ m \in Severities
  BY WorstFacts
<1>s. \A k \in SignalKeys :
        /\ s[k].state = "ok" => s[k] = Measured(s[k].severity) /\ Contribution(s[k]) = s[k].severity
        /\ s[k].state # "ok" => Contribution(s[k]) \in {"healthy", "unknown"}
        /\ Contribution(s[k]) \in Severities
  BY WellFormedSignals DEF WellFormedAll
<1>a. aggregate(s) = IF AllNoData(s) THEN "unknown" ELSE m
  BY AggregateIsWorst
<1>r. /\ \A a \in Severities : Rank(a) \in Int
      /\ \A a, b \in Severities : Rank(a) = Rank(b) => a = b
      /\ Rank("healthy") = 0 /\ Rank("unknown") = 1 /\ Rank(x) > 1 /\ x \in Severities
  <2>1. Rank("healthy") = 0 /\ Rank("unknown") = 1 /\ Rank(x) > 1 /\ x \in Severities
    BY DEF Rank, Severities
  <2> QED
    BY <2>1, RankInjective
<1> HIDE DEF m
<1>1. ASSUME aggregate(s) = x
      PROVE  /\ \E k \in SignalKeys : s[k] = Measured(x)
             /\ \A k \in SignalKeys : s[k].state = "ok" => Rank(s[k].severity) <= Rank(x)
  <2>1. m = x
    BY <1>1, <1>a
  <2>2. PICK k \in SignalKeys : x = Contribution(s[k])
    BY <2>1, <1>w
  <2>3. s[k].state = "ok"
    BY <2>2, <1>s
  <2>4. s[k] = Measured(x)
    BY <2>2, <2>3, <1>s
  <2>5. \A i \in SignalKeys : s[i].state = "ok" => Rank(s[i].severity) <= Rank(x)
    BY <2>1, <1>w, <1>s, <1>r
  <2> QED
    BY <2>4, <2>5
<1>2. ASSUME NEW k \in SignalKeys, s[k] = Measured(x),
             \A i \in SignalKeys : s[i].state = "ok" => Rank(s[i].severity) <= Rank(x)
      PROVE  aggregate(s) = x
  <2>1. s[k].state = "ok" /\ s[k].severity = x
    BY <1>2 DEF Measured
  <2>2. ~AllNoData(s) /\ Rank(m) >= Rank(x)
    BY <2>1, <1>w, <1>s DEF AllNoData
  <2>3. Rank(m) <= Rank(x)
    <3>1. CASE m = "healthy"
      BY <3>1, <1>r
    <3>2. ASSUME NEW i \in SignalKeys, m = Contribution(s[i]) PROVE Rank(m) <= Rank(x)
      <4>1. CASE s[i].state = "ok"
        BY <3>2, <4>1, <1>2, <1>s
      <4>2. CASE s[i].state # "ok"
        BY <3>2, <4>2, <1>r, <1>s
      <4> QED
        BY <4>1, <4>2
    <3> QED
      BY <3>1, <3>2, <1>w
  <2>4. m = x
    BY <2>2, <2>3, <1>w, <1>r
  <2> QED
    BY <2>2, <2>4, <1>a
<1> QED
  BY <1>1, <1>2

-----------------------------------------------------------------------------
(* Every report is the score of its results.                                *)

ScoreInv ==
    /\ results \in [Queries -> Outcome]
    /\ thresholds \in Thresholds
    /\ desired \in Replicas
    /\ compared \in BOOLEAN
    /\ report = Evaluate(results)

LEMMA Scored == Spec => []ScoreInv
<1>1. Init => ScoreInv
  BY DEF Init, ScoreInv, Zero, Outcome
<1>2. ScoreInv /\ [Next]_vars => ScoreInv'
  <2> SUFFICES ASSUME ScoreInv, [Next]_vars PROVE ScoreInv'
    OBVIOUS
  <2>1. ASSUME NEW q \in Queries, NEW o \in Inputs[q], NextEvaluation(q, o) PROVE ScoreInv'
    <3>1. o \in Outcome
      BY DEF ScoringAssumption
    <3>2. results' \in [Queries -> Outcome]
      BY <2>1, <3>1 DEF NextEvaluation, ScoreInv
    <3> QED
      BY <2>1, <3>2 DEF NextEvaluation, ScoreInv, Evaluate, Signals, errorSignal, simpleSignal,
         failingPodsSignal
  <2>2. CASE UNCHANGED vars
    BY <2>2 DEF vars, ScoreInv, Evaluate, Signals, errorSignal, simpleSignal, failingPodsSignal
  <2> QED
    BY <2>1, <2>2 DEF Next
<1> QED
  BY <1>1, <1>2, PTL DEF Spec

LEMMA ReportFacts ==
    ASSUME ScoreInv
    PROVE  /\ WellFormedAll(report.signals)
           /\ report.severity = aggregate(report.signals)
           /\ report.signals = Signals(results)
<1>1. report.signals = Signals(results) /\ report.severity = aggregate(report.signals)
  BY DEF ScoreInv, Evaluate
<1>2. WellFormedAll(Signals(results))
  BY ErrorWellFormed, SimpleWellFormed, PodsWellFormed DEF WellFormedAll, SignalKeys, Signals
<1> QED
  BY <1>1, <1>2

\* A green report has a measured signal, no errored one, and nothing measured
\* above its thresholds, for all thresholds and outcomes (service.go:634-653).
THEOREM GreenNeedsMeasurement == Spec => []GreenIsMeasured
<1>1. ScoreInv => GreenIsMeasured
  BY ReportFacts, GreenAggregate DEF GreenIsMeasured
<1> QED
  BY <1>1, Scored, PTL

\* A report is a warning or critical exactly when its worst measured signal is
\* (service.go:634-653, 816-824).
THEOREM AlarmsAreMeasured == Spec => []AlarmIsASignals
<1>1. ScoreInv => AlarmIsASignals
  BY ReportFacts, AlarmAggregate DEF AlarmIsASignals
<1> QED
  BY <1>1, Scored, PTL

\* Types, and thresholds in order behind every report.
THEOREM TypeCorrect == Spec => []TypeOK
<1>1. ScoreInv => TypeOK
  <2> SUFFICES ASSUME ScoreInv PROVE TypeOK
    OBVIOUS
  <2>1. ASSUME NEW k \in SignalKeys PROVE report.signals[k] \in Signal
    BY ReportFacts, WellFormedSignals DEF WellFormedAll
  <2>2. aggregate(report.signals) \in Severities
    BY ReportFacts, WorstFacts, AggregateIsWorst DEF Severities
  <2> QED
    BY <2>1, <2>2, ReportFacts, AcceptedInOrder DEF TypeOK, ScoreInv, Signal
<1> QED
  BY <1>1, Scored, PTL

\* The comparison with the week before never lowers the error signal
\* (service.go:531-545).
THEOREM ComparisonNeverLowers == Spec => []ComparisonOnlyRaises
<1>1. ScoreInv => ComparisonOnlyRaises
  <2> SUFFICES ASSUME ScoreInv PROVE ComparisonOnlyRaises
    OBVIOUS
  <2> DEFINE cur == results["errors"]
             prev == results["errors_previous"]
             own == thresholdSeverity(cur.instant, thresholds["error"].warning, thresholds["error"].critical)
             inc == thresholdSeverity(cur.instant - prev.instant,
                      thresholds["increase"].warning, thresholds["increase"].critical)
  <2>1. report.signals["error_rate"] = errorSignal(cur, prev, compared)
    BY ReportFacts DEF Signals
  <2>2. own \in Severities /\ inc \in Severities
    BY SeverityTypes DEF Severities
  <2>3. Rank(maxSeverity(own, inc)) >= Rank(own) /\ Rank(own) >= Rank(own)
    BY <2>2, SeverityTypes, RankInjective
  <2>4. errorSignal(cur, Zero, FALSE) = IF cur.err THEN Errored
          ELSE IF cur.instant = NoValue THEN NoData ELSE Measured(own)
    BY DEF errorSignal
  <2>5. errorSignal(cur, prev, compared) \in
          IF cur.err THEN {Errored} ELSE IF cur.instant = NoValue THEN {NoData}
          ELSE {Measured(own), Measured(maxSeverity(own, inc))}
    BY DEF errorSignal
  <2> HIDE DEF own, inc, cur
  <2>6. Rank("unknown") >= Rank("unknown")
    BY DEF Rank
  <2> DEFINE alone == errorSignal(cur, Zero, FALSE)
             shown == report.signals["error_rate"]
  <2>7. shown.state = alone.state /\ Rank(shown.severity) >= Rank(alone.severity)
    <3>1. CASE cur.err
      <4>1. shown = Errored /\ alone = Errored
        BY <2>1, <2>4, <2>5, <3>1
      <4> HIDE DEF shown, alone
      <4> QED
        BY <4>1, <2>6 DEF Errored
    <3>2. CASE ~cur.err /\ cur.instant = NoValue
      <4>1. shown = NoData /\ alone = NoData
        BY <2>1, <2>4, <2>5, <3>2
      <4> HIDE DEF shown, alone
      <4> QED
        BY <4>1, <2>6 DEF NoData
    <3>3. CASE ~cur.err /\ cur.instant # NoValue
      <4>1. shown \in {Measured(own), Measured(maxSeverity(own, inc))} /\ alone = Measured(own)
        BY <2>1, <2>4, <2>5, <3>3
      <4> HIDE DEF shown, alone
      <4> QED
        BY <4>1, <2>3 DEF Measured
    <3> QED
      BY <3>1, <3>2, <3>3
  <2> QED
    BY <2>7 DEF ComparisonOnlyRaises, cur
<1> QED
  BY <1>1, Scored, PTL

\* One failing pod of a service with a single replica makes it critical, whatever
\* the thresholds are (service.go:585-592, 601-617).
THEOREM SingleReplicaOutage == Spec => []SingleReplicaDownIsCritical
<1>1. ScoreInv => SingleReplicaDownIsCritical
  <2> DEFINE w == results["waiting"]
             f == results["failed_phase"]
             sum == valueOrZero(w.instant) + valueOrZero(f.instant)
  <2> SUFFICES ASSUME ScoreInv, desired <= 1, ~(w.err /\ f.err),
                      w.instant \notin {NoValue, 0} \/ f.instant \notin {NoValue, 0},
                      valueOrZero(w.instant) >= 0, valueOrZero(f.instant) >= 0
               PROVE  report.severity = "critical"
    BY DEF SingleReplicaDownIsCritical
  <2>1. w \in Outcome /\ f \in Outcome /\ desired \in Nat
    BY DEF ScoreInv, Queries, ScoringAssumption
  <2>2. sum >= 1 /\ ~(w.instant = NoValue /\ f.instant = NoValue)
    BY <2>1 DEF Outcome, valueOrZero, ScoringAssumption
  <2> HIDE DEF sum
  <2>3. failingPodsSignal(desired, w, f) =
          Measured(thresholdSeverity(sum, podsWarning(thresholds["pods"], desired), 1))
    BY <2>1, <2>2 DEF failingPodsSignal, podsCritical, sum
  <2>4. report.signals["failing_pods"] = Measured("critical")
    BY <2>2, <2>3, ReportFacts DEF Signals, thresholdSeverity
  <2>5. \A k \in SignalKeys : report.signals[k].state = "ok" =>
          Rank(report.signals[k].severity) <= Rank("critical")
    BY ReportFacts, WellFormedSignals DEF WellFormedAll, Signal, Severities, Rank
  <2>6. "failing_pods" \in SignalKeys
    BY DEF SignalKeys
  <2> QED
    BY <2>4, <2>5, <2>6, ReportFacts, AlarmAggregate
<1> QED
  BY <1>1, Scored, PTL

-----------------------------------------------------------------------------
(* A service that gets worse never looks better.                            *)

\* The state of a signal is kept and its contribution does not fall.
NoLower(a, b) == a.state = b.state /\ Rank(Contribution(a)) <= Rank(Contribution(b))

LEMMA NoLowerMeasured ==
    ASSUME NEW a \in Severities, NEW b \in Severities, Rank(a) <= Rank(b)
    PROVE  NoLower(Measured(a), Measured(b))
BY DEF NoLower, Measured, Contribution

LEMMA NoLowerSame ==
    ASSUME NEW a, WellFormed(a)
    PROVE  NoLower(a, a)
BY WellFormedSignals, RankInjective DEF NoLower

LEMMA SimpleMonotone ==
    ASSUME NEW t, t.warning \in Int, t.critical \in Int, t.warning <= t.critical,
           NEW old \in Outcome, NEW new \in Outcome, old.err = new.err,
           old.instant # NoValue, new.instant # NoValue, old.instant <= new.instant
    PROVE  NoLower(simpleSignal(t, old), simpleSignal(t, new))
<1>1. old.instant \in Int /\ new.instant \in Int
  BY DEF Outcome
<1>2. CASE old.err
  BY <1>2, NoLowerSame DEF simpleSignal, WellFormed
<1>3. CASE ~old.err
  <2>1. Rank(thresholdSeverity(old.instant, t.warning, t.critical))
          <= Rank(thresholdSeverity(new.instant, t.warning, t.critical))
    BY <1>1, ThresholdMonotone
  <2>2. \A v : thresholdSeverity(v, t.warning, t.critical) \in Severities
    BY SeverityTypes DEF Severities
  <2> QED
    BY <1>3, <2>1, <2>2, NoLowerMeasured DEF simpleSignal
<1> QED
  BY <1>2, <1>3

LEMMA ErrorMonotone ==
    ASSUME thresholds \in Thresholds, NEW cmp \in BOOLEAN, NEW prev \in Outcome,
           NEW old \in Outcome, NEW new \in Outcome, old.err = new.err,
           old.instant # NoValue, new.instant # NoValue, old.instant <= new.instant
    PROVE  NoLower(errorSignal(old, prev, cmp), errorSignal(new, prev, cmp))
<1> DEFINE t == thresholds["error"]
           i == thresholds["increase"]
           own(got) == thresholdSeverity(got.instant, t.warning, t.critical)
           inc(got) == thresholdSeverity(got.instant - prev.instant, i.warning, i.critical)
           counts(got) == cmp /\ ~prev.err /\ prev.instant # NoValue /\ got.instant - prev.instant > 0
           shown(got) == IF counts(got) THEN maxSeverity(own(got), inc(got)) ELSE own(got)
<1>1. /\ old.instant \in Int /\ new.instant \in Int
      /\ prev.instant # NoValue => prev.instant \in Int
      /\ t.warning \in Int /\ t.critical \in Int /\ t.warning <= t.critical
      /\ i.warning \in Int /\ i.critical \in Int /\ i.warning <= i.critical
  BY AcceptedInOrder DEF Outcome, ScoringAssumption, Validated, Pairs
<1>2. /\ own(old) \in Severities /\ own(new) \in Severities
      /\ inc(old) \in Severities /\ inc(new) \in Severities
  BY SeverityTypes DEF Severities
<1>3. Rank(own(old)) <= Rank(own(new))
  BY <1>1, ThresholdMonotone
<1>4. counts(old) => counts(new) /\ Rank(inc(old)) <= Rank(inc(new))
  <2> SUFFICES ASSUME counts(old) PROVE counts(new) /\ Rank(inc(old)) <= Rank(inc(new))
    OBVIOUS
  <2>1. /\ old.instant - prev.instant \in Int /\ new.instant - prev.instant \in Int
        /\ old.instant - prev.instant <= new.instant - prev.instant
        /\ new.instant - prev.instant > 0
    BY <1>1
  <2>2. Rank(inc(old)) <= Rank(inc(new))
    BY <1>1, <2>1, ThresholdMonotone
  <2> QED
    BY <2>1, <2>2
<1>5. \A got \in {old, new} :
        errorSignal(got, prev, cmp) = IF got.err THEN Errored ELSE Measured(shown(got))
  BY DEF errorSignal
<1> HIDE DEF own, inc, counts
<1>6. shown(old) \in Severities /\ shown(new) \in Severities /\ Rank(shown(old)) <= Rank(shown(new))
  <2>1. \A a, b \in Severities : maxSeverity(a, b) \in Severities
    BY SeverityTypes
  <2>2. CASE counts(old)
    BY <1>2, <1>3, <1>4, <2>1, <2>2, MaxMonotone
  <2>3. CASE ~counts(old) /\ counts(new)
    <3>1. Rank(own(new)) <= Rank(maxSeverity(own(new), inc(new)))
      BY <1>2, SeverityTypes
    <3>2. \A a \in Severities : Rank(a) \in Nat
      BY RankInjective
    <3>3. /\ Rank(own(old)) \in Nat /\ Rank(own(new)) \in Nat
          /\ Rank(maxSeverity(own(new), inc(new))) \in Nat
      BY <1>2, <2>1, <3>2
    <3> QED
      BY <1>2, <1>3, <2>1, <2>3, <3>1, <3>3
  <2>4. CASE ~counts(old) /\ ~counts(new)
    BY <1>2, <1>3, <2>4
  <2> QED
    BY <2>2, <2>3, <2>4
<1> HIDE DEF shown
<1>7. CASE old.err
  BY <1>5, <1>7, NoLowerSame DEF WellFormed
<1>8. CASE ~old.err
  BY <1>5, <1>6, <1>8, NoLowerMeasured
<1> QED
  BY <1>7, <1>8

\* The same outcome, or a larger value with the same error.
Rises(old, new) ==
    /\ old.err = new.err
    /\ \/ old = new
       \/ old.instant # NoValue /\ new.instant # NoValue /\ old.instant <= new.instant

LEMMA PodsMonotone ==
    ASSUME thresholds \in Thresholds, NEW n \in Nat,
           NEW w1 \in Outcome, NEW w2 \in Outcome, Rises(w1, w2),
           NEW f1 \in Outcome, NEW f2 \in Outcome, Rises(f1, f2)
    PROVE  NoLower(failingPodsSignal(n, w1, f1), failingPodsSignal(n, w2, f2))
<1> DEFINE t == thresholds["pods"]
           sum(w, f) == valueOrZero(w.instant) + valueOrZero(f.instant)
           sev(w, f) == thresholdSeverity(sum(w, f), podsWarning(t, n), podsCritical(t, n))
<1>1. /\ w1.err = w2.err /\ f1.err = f2.err
      /\ w1.instant = NoValue <=> w2.instant = NoValue
      /\ f1.instant = NoValue <=> f2.instant = NoValue
  BY DEF Rises
<1>2. sum(w1, f1) \in Int /\ sum(w2, f2) \in Int /\ sum(w1, f1) <= sum(w2, f2)
  <2>1. ASSUME NEW a \in Outcome, NEW b \in Outcome, Rises(a, b)
        PROVE  /\ valueOrZero(a.instant) \in Int /\ valueOrZero(b.instant) \in Int
               /\ valueOrZero(a.instant) <= valueOrZero(b.instant)
    BY <2>1 DEF Rises, Outcome, valueOrZero
  <2> QED
    BY <2>1
<1>3. podsWarning(t, n) <= podsCritical(t, n)
  BY PodBandsOrdered
<1>4. podsWarning(t, n) \in Int /\ podsCritical(t, n) \in Int
  <2>1. t.warning \in Nat /\ t.critical \in Nat
    BY AcceptedInOrder DEF Validated, Pairs
  <2>2. CeilTenth(n) \in Int /\ CeilQuarter(n) \in Int
    BY DEF CeilTenth, CeilQuarter
  <2> QED
    BY <2>1, <2>2 DEF podsWarning, podsCritical, Larger
<1>5. /\ Rank(sev(w1, f1)) <= Rank(sev(w2, f2))
      /\ sev(w1, f1) \in Severities /\ sev(w2, f2) \in Severities
  <2> HIDE DEF sum
  <2>1. \A v \in Int, u \in Int : v <= u =>
          Rank(thresholdSeverity(v, podsWarning(t, n), podsCritical(t, n)))
            <= Rank(thresholdSeverity(u, podsWarning(t, n), podsCritical(t, n)))
    BY <1>3, <1>4, ThresholdMonotone
  <2>2. sev(w1, f1) \in Severities /\ sev(w2, f2) \in Severities
    BY SeverityTypes DEF Severities
  <2> QED
    BY <1>2, <2>1, <2>2
<1>6. /\ failingPodsSignal(n, w1, f1) = IF w1.err /\ f1.err THEN Errored
            ELSE IF w1.instant = NoValue /\ f1.instant = NoValue THEN NoData ELSE Measured(sev(w1, f1))
      /\ failingPodsSignal(n, w2, f2) = IF w2.err /\ f2.err THEN Errored
            ELSE IF w2.instant = NoValue /\ f2.instant = NoValue THEN NoData ELSE Measured(sev(w2, f2))
  BY DEF failingPodsSignal
<1> HIDE DEF sev
<1>7. CASE w1.err /\ f1.err
  BY <1>1, <1>6, <1>7, NoLowerSame DEF WellFormed
<1>8. CASE ~(w1.err /\ f1.err) /\ w1.instant = NoValue /\ f1.instant = NoValue
  BY <1>1, <1>6, <1>8, NoLowerSame DEF WellFormed
<1>9. CASE ~(w1.err /\ f1.err) /\ ~(w1.instant = NoValue /\ f1.instant = NoValue)
  BY <1>1, <1>5, <1>6, <1>9, NoLowerMeasured
<1> QED
  BY <1>7, <1>8, <1>9

LEMMA SignalsMonotone ==
    ASSUME thresholds \in Thresholds, desired \in Replicas, compared \in BOOLEAN,
           NEW r \in [Queries -> Outcome], NEW s \in [Queries -> Outcome],
           \A q \in Queries : Rises(r[q], s[q]),
           r["errors_previous"] = s["errors_previous"]
    PROVE  \A k \in SignalKeys : NoLower(Signals(r)[k], Signals(s)[k])
<1>1. \A q \in Queries : r[q] \in Outcome /\ s[q] \in Outcome
  OBVIOUS
<1>2. ASSUME NEW t, t.warning \in Int, t.critical \in Int, t.warning <= t.critical, NEW q \in Queries
      PROVE  NoLower(simpleSignal(t, r[q]), simpleSignal(t, s[q]))
  <2>1. CASE r[q] = s[q]
    BY <2>1, NoLowerSame, SimpleWellFormed
  <2>2. CASE r[q] # s[q]
    BY <1>1, <1>2, <2>2, SimpleMonotone DEF Rises
  <2> QED
    BY <2>1, <2>2
<1>3. /\ NoLower(simpleSignal(thresholds["cpu"], r["cpu"]), simpleSignal(thresholds["cpu"], s["cpu"]))
      /\ NoLower(simpleSignal(thresholds["memory"], r["memory"]),
                 simpleSignal(thresholds["memory"], s["memory"]))
  <2>1. \A p \in {"cpu", "memory"} :
          LET t == thresholds[p] IN t.warning \in Int /\ t.critical \in Int /\ t.warning <= t.critical
    BY AcceptedInOrder DEF Validated, Pairs
  <2> QED
    BY <1>2, <2>1 DEF Queries
<1>4. NoLower(errorSignal(r["errors"], r["errors_previous"], compared),
              errorSignal(s["errors"], s["errors_previous"], compared))
  <2>1. /\ r["errors"] \in Outcome /\ s["errors"] \in Outcome /\ r["errors_previous"] \in Outcome
        /\ Rises(r["errors"], s["errors"])
    BY <1>1 DEF Queries
  <2>2. CASE r["errors"] = s["errors"]
    BY <2>2, NoLowerSame, ErrorWellFormed
  <2>3. CASE r["errors"] # s["errors"]
    BY <2>1, <2>3, ErrorMonotone DEF Rises
  <2> QED
    BY <2>2, <2>3
<1>5. NoLower(failingPodsSignal(desired, r["waiting"], r["failed_phase"]),
              failingPodsSignal(desired, s["waiting"], s["failed_phase"]))
  BY <1>1, PodsMonotone DEF Queries, ScoringAssumption
<1> QED
  BY <1>3, <1>4, <1>5 DEF SignalKeys, Signals

LEMMA AggregateMonotone ==
    ASSUME NEW a, NEW b, WellFormedAll(a), WellFormedAll(b),
           \A k \in SignalKeys : NoLower(a[k], b[k])
    PROVE  Rank(aggregate(a)) <= Rank(aggregate(b))
<1>1. AllNoData(a) <=> AllNoData(b)
  BY DEF AllNoData, NoLower
<1>2. Rank(Worst(a)) <= Rank(Worst(b))
  <2>1. Worst(a) \in Severities /\ Worst(b) \in Severities
    BY WorstFacts
  <2>2. \A x \in Severities : Rank(x) \in Nat
    BY RankInjective
  <2>3. CASE Worst(a) = "healthy"
    <3>1. Rank("healthy") = 0
      BY DEF Rank
    <3>2. Rank(Worst(a)) \in Nat /\ Rank(Worst(b)) \in Nat
      BY <2>1, <2>2
    <3> QED
      BY <2>3, <3>1, <3>2
  <2>4. ASSUME NEW k \in SignalKeys, Worst(a) = Contribution(a[k])
        PROVE  Rank(Worst(a)) <= Rank(Worst(b))
    <3>1. Rank(Contribution(a[k])) <= Rank(Contribution(b[k]))
      BY DEF NoLower
    <3>2. Rank(Contribution(b[k])) <= Rank(Worst(b))
      BY WorstFacts, WellFormedSignals, <2>1, <2>2 DEF WellFormedAll
    <3>3. Contribution(a[k]) \in Severities /\ Contribution(b[k]) \in Severities
      BY WellFormedSignals DEF WellFormedAll
    <3> QED
      BY <2>1, <2>2, <2>4, <3>1, <3>2, <3>3
  <2> QED
    BY <2>3, <2>4, WorstFacts
<1>3. Rank("unknown") <= Rank("unknown")
  BY DEF Rank
<1> QED
  BY <1>1, <1>2, <1>3, AggregateIsWorst

\* Raising the value of one query, the week before excepted, never lowers the
\* severity of the report (service.go:509-618, 634-653).
THEOREM WorseIsNeverBetter == Spec => WorseNeverLooksBetter
<1> DEFINE Worse == \A q \in Queries \ {"errors_previous"} :
         LET old == results[q]
             new == results'[q]
         IN /\ \A p \in Queries \ {q} : results'[p] = results[p]
            /\ new.err = old.err
            /\ old.instant # NoValue /\ new.instant # NoValue
            /\ old.instant <= new.instant
            => Rank(report.severity) <= Rank(report'.severity)
<1>1. ScoreInv /\ ScoreInv' /\ [Next]_vars => [Worse]_vars
  <2> SUFFICES ASSUME ScoreInv, ScoreInv', Next,
                      NEW q \in Queries \ {"errors_previous"},
                      \A p \in Queries \ {q} : results'[p] = results[p],
                      results'[q].err = results[q].err,
                      results[q].instant # NoValue, results'[q].instant # NoValue,
                      results[q].instant <= results'[q].instant
               PROVE  Rank(report.severity) <= Rank(report'.severity)
    OBVIOUS
  <2>1. UNCHANGED <<thresholds, desired, compared>> /\ report' = Evaluate(results')
    BY DEF Next, NextEvaluation
  <2>2. \A p \in Queries : Rises(results[p], results'[p])
    BY DEF Rises
  <2>3. results["errors_previous"] = results'["errors_previous"]
    BY DEF Queries
  <2>4. /\ results \in [Queries -> Outcome] /\ results' \in [Queries -> Outcome]
        /\ thresholds \in Thresholds /\ desired \in Replicas /\ compared \in BOOLEAN
    BY DEF ScoreInv
  <2>5. \A k \in SignalKeys : NoLower(Signals(results)[k], Signals(results')[k])
    BY <2>2, <2>3, <2>4, SignalsMonotone
  <2>6. /\ WellFormedAll(Signals(results)) /\ WellFormedAll(Signals(results'))
        /\ report.severity = aggregate(Signals(results))
        /\ report'.severity = aggregate(Signals(results'))
    <3>1. WellFormedAll(Signals(results)) /\ report.severity = aggregate(Signals(results))
      BY ReportFacts
    <3>2. report'.severity = aggregate(Signals(results'))
      BY <2>1 DEF Evaluate
    <3>3. WellFormedAll(Signals(results'))
      BY ErrorWellFormed, SimpleWellFormed, PodsWellFormed DEF WellFormedAll, SignalKeys, Signals
    <3> QED
      BY <3>1, <3>2, <3>3
  <2> QED
    BY <2>5, <2>6, AggregateMonotone
<1> QED
  BY <1>1, Scored, PTL DEF Spec, WorseNeverLooksBetter
=============================================================================
