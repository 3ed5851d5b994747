# Beholdr: TLA+ models, model checking and proofs

Beholdr is one Go process that polls a Kubernetes cluster, keeps the last view
of it and a short history in memory, checks the reachability of three
observability systems, and serves both to a web UI. For one microservice at a
time it also evaluates a *health report* from Prometheus. Nothing is persisted:
a restart starts from an empty state, so crash recovery is not a topic here;
concurrency, partial failure, cancellation and staleness are.

The models are translated from the Go sources. Line numbers in comments are
those of the file under `internal/`; `PROJECT.json` maps every definition to
its lines.

## Inventory

| Component | State | Operations | Interacts with | Hard behaviour | Correct when |
|---|---|---|---|---|---|
| Report cache `servicehealth/cache.go` | `entries`, `inflight`, one mutex | `do`, `evictLocked` | called by every metrics request, calls `evaluate` without the lock | single flight, close before delete, cancelled leader or waiter, expiry, eviction at the bound | one evaluation per key, nobody inherits a failure or a cancellation, hits are younger than ttl, bounded map |
| Evaluation `service.go` 287-395 | per evaluation: `results`; shared: `sem` | `evaluate`, `runRange`, `runInstant` | cache above, Prometheus client below | a goroutine per query, a semaphore over all evaluations, cancellation while queued | no slot leaks, no failure is lost, evaluations end |
| Scoring `service.go` 509-653, 775-831 | none (pure) | the signals, `aggregate`, `validateThresholds` | fed by the evaluation | missing data, failed queries, thresholds that depend on the replicas | green only if measured, alarms only from measured signals, worse never looks better |
| Collector `collect/collector.go` | snapshot, last success, last error, one RWMutex | `Run`, `collect`, `Health`, `Snapshot` | the listing client below, the handlers above | one deadline for six calls, half-failed polls, ticks that are dropped, shutdown in a poll | a failed poll leaves no trace, readiness means recent data, polls end |
| History `collect/history.go` | a ring per series, its own RWMutex | `Push`, `Get`, `Prune` | written by the collector, read by handlers | read between two pushes, prune, full ring | bounded, ordered, no ring behind its snapshot |
| Listing client `k8s/client.go` | `MetricsAvailable` | lists, node and pod metrics | called by the collector | fatal, non-fatal and sticky failures | the flag never claims usage that was not measured |
| HTTP API `api/server.go` | none | one handler per resource | collector, history, monitor, cache | reads under two locks | what one reply combines belongs together |
| Workload builders `collector.go` 217-429 | none (pure) | `buildNodes`, `buildPods`, `buildMicroservices`, `buildCluster` | collector | grouping by name | what did not change during a poll is published as it is; no page counts other pods than another |
| Integration monitor `integrations/monitor.go` | one snapshot | `Run`, `Check`, `check`, `Snapshot` | three HTTP systems | concurrent checks, cancellation | shutdown is never shown as an outage |
| Prometheus client `integrations/prometheus.go` | none | range and instant query, error mapping | Prometheus | closed error vocabulary | a failure is never read as data |
| Configuration `config/config.go` | none | `Load`, `Validate` | `main` | silent fallbacks | unusable values are refused |
| Browser polling `web/src/lib/poll.svelte.ts` | data, error, loading; per run of the effect: alive, a timer | `poll` | the API, the page that reads it | overlapping and late fetches, a change of URL | a page shows its selection, and older data replaces newer only when it was slow |
| Request path `server.go` 211-273 | none | `microserviceMetrics` | collector, cache, Prometheus | the pods come from one clock, the report from another | the pods of a report and an outage are forgotten within a bound |
| Process `cmd/beholdr/main.go` | one context | start, shutdown | all of the above | order of the shutdown | the poller stops |
| UI components, embedded assets, packaging | - | rendering, static and declarative files | - | - | not modelled |

Every component is in `PROJECT.json` under `components`, with what hides behind
"partly"; what can go wrong and is hard to test is there under `hazards`, at
its line, with the properties that cover it or the reason why none does yet.

## Modules

| Module | Models | Notes |
|---|---|---|
| `ReportCache` | `cache.go` | one action per critical section of `mu`; properties and inductive invariant at the end |
| `ReportSharing` | what the cache promises | abstract: no map, no lock, no channels, no eviction |
| `ReportCacheSharing` | the refinement | `ReportCache` plus the history variable `missed`, `INSTANCE ReportSharing WITH ...` |
| `EvaluationPool` | `evaluate`, `runRange`, `runInstant` | several evaluations share one semaphore |
| `Scoring` | the signals and the aggregate, and the thresholds of `config.go`, `main.go` and `validateThresholds` | pure operators; a step changes the outcome of one query |
| `Collector` | `collector.go`, `history.go`, the calls of `k8s/client.go`, two-lock handlers of `server.go` | explicit clock |
| `IntegrationMonitor` | `monitor.go`: `Run`, `Check`, `check` | explicit clock; a goroutine per provider |
| `ServiceHealth` | `microserviceMetrics`, `Query`, and what they meet: snapshots, Prometheus | composes `ReportCache` with the collector's snapshots and an outage |
| `Workloads` | the lists of one poll, the builders, the pods of a detail page | the cluster changes between the lists; the snapshot is an operator of them |
| `UiPoll` | `poll.svelte.ts`, the branches of the service-metrics page | explicit clock; a task of the browser is an action |
| `ReportCacheProofs`, `EvaluationPoolProofs`, `ScoringProofs`, `CollectorProofs`, `IntegrationMonitorProofs`, `WorkloadsProofs`, `UiPollProofs` | - | theorems about the module in their name, checked by TLAPS |
| `CacheExtensionProofs` | - | theorems about the two modules that extend `ReportCache`: `ReportCacheSharing` (the refinement) and `ServiceHealth` |
| `MC...` | - | symmetry sets, negative constants and input sets for TLC |

Operators marked `(bug)` are the mutants of `PROJECT.json`: what the next
definition would be with a plausible mistake. No specification uses them.

### State and actions against the code

*ReportCache.* `pc` is where a request is in `do`: `arrived` before the first
`Lock`, `waiting` in the select (63), `leading` in `evaluate` (79), `closing`
between `close(f.done)` and the second `Lock` (80-82), `direct` in the bypass
(51). `Hit`, `Join` and `Lead` are the three exits of the first critical
section, `Publish` is the second, with the eviction and the store it makes;
`Evaluated` is the end of `evaluate` with the close of the channel. `flights`
keeps every flight object with its publication time, which is history. The
evaluation's outcome is what `do` can tell apart: a report, an error, or the
report of an aborted evaluation (only possible when its context is cancelled,
which the leader's detached context never is).

*EvaluationPool.* `job[<<e, q>>]` is the goroutine of query `q` of evaluation
`e`: it queues, calls, queues and calls again, and stores. The branch of the
select that takes a slot is `Acquire`, the other one `GiveUp`; `CallReturns`
gives the slot back in the same step because the deferred receive is the last
thing `runRange` and `runInstant` do. `Finish` is `wg.Wait`, the scan for the
not-configured error, and the report. `Contexts` tells the evaluation under the
cache (detached) from the one with a negative ttl (the caller's).

*Scoring.* The Go names are kept. Percentages and counts are integers; only
their order against the thresholds matters. `NoValue` is a nil `*float64`.
`ceil(10%)` and `ceil(25%)` are integer divisions. `Supplied` is what the
environment gives, `Thresholds` what the process starts with: unparseable values
stop it (`Problem`), unset ones and zeros take the default, each half of a pair
by itself, and the pairs are checked afterwards.

*Collector.* `at` is where the goroutine of `Run` is: `waiting` in the select,
in one of the six calls, `recording` (pushing and pruning), `publishing`, or
`stopped`. A history point is the number of the poll that made it. The builders
are reduced to the nodes and services a poll has seen. `Passive` is when time
may pass: while the loop waits for a tick, or a call for its answer. Handlers
keep what they read under the first lock in `reader`.

*IntegrationMonitor.* `at` is where the goroutine of `Run` is, `check[p]` where
that of provider `p` is. `BeginRound` spawns the goroutines, `StartCheck` is
`check` up to the call, `EndCheck` from its return to the result; `Gather` is
the end of `wg.Wait` with the look at `ctx.Err()`, `Publish` the assignment
under the lock. They are two steps because the program may end in between. A
read of a body that is cut short is not an error, as in the code (`CutShort`).

*ServiceHealth.* The steps of `ReportCache` are taken over whole: `Request` is
`Arrive` with the snapshot the handler reads, `BeginEvaluation` is `Lead` or
`Direct` with the pods of *that* caller, `EndEvaluation` is `Evaluate` with the
choice of a report of errors if Prometheus was down at some moment of it. The
collector and Prometheus are one action per event (`Poll`, `Outage`, `Recover`).
Time passes only while no goroutine is computing.

*Workloads.* `listed` is what the poll holds, `stage` the list it takes next;
every action of `ClusterChanges` may happen between two of them. Names are
sequences of the parts between dashes, so that `rsHash` takes off the last part
or nothing. A pod's template says whose pod it really is (`root`), which the code
cannot know: the properties compare what the builders make of names with it.
`touched` is history: what has changed since the poll began.

*UiPoll.* `effect` is the last run of the `$effect`; only its `alive` can be true,
because Svelte cleans up the run before. `RunEffect` is that cleanup with the new
run, its first `tick` and its `setInterval`; `TimerTick` a later tick; `Answer`
and `Failure` the end of a `tick`, whose two assignments no other task separates.
`dirty` is the time between a navigation and the microtask that runs the effect:
answers that were settled first may come in it, timers may not.

## Runs

| Run | Question | Bounds, and why they are enough |
|---|---|---|
| `ReportCacheSharing` | Do sharing, retirement, cancellation, expiry and eviction hold in every interleaving, and does the cache implement `ReportSharing`? | 2 callers are a leader and a joiner, also on different keys; 3 keys for 2 entries force evictions with and without expired entries; 3 evaluations; ttl 2 or off; the clock runs to 3, past an expiry |
| `ReportCache_liveness` | Is a fresh report ever evaluated again, and does every call return? | 2 keys fit in the map (the claim needs that); ttl 1; evaluations may never end |
| `EvaluationPool` | Slots, lost errors, not-configured, cancellation | 2 evaluations of 2 queries are 4 goroutines for 1 slot; every kind of querier and context |
| `EvaluationPool_liveness` | Does every evaluation return under contention? | as above, evaluations restart for ever |
| `Scoring` | Severity of the report | per query: nothing, 0, below, on and above its thresholds, failed with and without a value; 1, 2 and 11 replicas; thresholds given, half given, unset, zero, negative, crossed and mistyped |
| `Scoring_broken_query` | The guide's sentence on broken queries | violated, see Findings |
| `Collector` | Torn reads, rings, readiness, deadlines, shutdown | one node, one service, one handler; a poll may outlast two ticks; rings of 2 wrap at the third success; the clock allows a success, failures and staleness |
| `IntegrationMonitor` | Is a shutdown shown as an outage, a round published in part, a status frozen by another system that hangs? | 2 providers, each unconfigured, misconfigured, plain or inspected; interval 1 and timeout 2, so that a round may swallow ticks; the clock runs to 6, two rounds that time out and more that do not |
| `ServiceHealth` | For how old a set of pods is a report scored, and for how long is an outage shown that is over? | 2 callers of one service, its ttl 2 or off, an evaluation of up to 2, 2 snapshots, one outage; the clock runs to 5: an evaluation, a ttl and one more unit. With `<` for `<=`, or a bound one unit smaller, both properties fail |
| `Workloads` | What do torn lists and joins by name make of a snapshot? | 2 pods, which may be those of a ReplicaSet, of one whose hash is too short, of a namesake elsewhere, or mirror pods with and without labels; one node, one Deployment and its autoscaler; 2 changes during a poll, as many as two pods or a pod and its Deployment need |
| `UiPoll` | Late, overlapping and failing fetches | 2 windows, interval 2, 3 runs of the effect, so that a page is left or changed twice; the clock runs to 4: a fetch may outlast two timers |
| `Collector_readiness` | The comment on `HealthStatus` | violated, see Findings |

The deadlock check is off only for the cache, whose clients may stop asking and
whose clock and evaluations are bounded, for
`ServiceHealth`, which extends it, for the monitor, whose `Run` returns and whose
clock is bounded, and for `UiPoll`, whose user may leave and whose clock is bounded.

### Fairness

* `ReportCache`: weak fairness of the steps a goroutine can always take
  (`RunnableFairness`); none for the evaluation itself, so that a Prometheus
  which never answers is a behaviour. `EveryCallReturns` assumes that
  evaluations end, and says so in its formula: the Prometheus client has a
  timeout. `CancelledWaiterReturns` does not assume it.
* `EvaluationPool`: weak fairness of a call's return (the same timeout) and of
  the store; strong fairness of `Acquire`, because a Go channel serves blocked
  senders first in, first out, so no goroutine is passed over for ever.
* `Collector`: weak fairness of time, of the loop, and of the *expiry* of a
  call. A call that answers is never assumed: the polls end by their deadline.
* `IntegrationMonitor`: the same; a check is sure to end only once its client's
  timeout has passed or the context is done.
* `UiPoll`: weak fairness of `RunEffect` (Svelte runs an effect that is due) and of
  the end of every fetch, with an answer or a failure. None of the timer: a
  selection is shown by its first fetch. `ServiceHealth` and `Workloads` have no
  liveness properties.

## Findings

Both are disagreements between a text of the repository and the code; each has
a run that TLC ends with a counterexample.

1. `docs/technical-guide.md:166-167`: a failed query "counts as `unknown` in the
   aggregate, so a broken query can never make a service look green".
   `failingPodsSignal` is errored only if *both* of its queries failed
   (`service.go:601`), and a failed `errors_previous` is ignored (531). Run
   `Scoring_broken_query`.
2. `collect/collector.go:71-74`: readiness reflects "whether the *most recent*
   poll succeeded recently". `Health` looks at the last success only (91), so a
   failed latest poll leaves it ready for up to `staleAfter`. Run
   `Collector_readiness`.

Read in the code, not a run of their own: `config.go:20` calls
`BEHOLDR_REQUEST_TIMEOUT` a per-call timeout, and it is the deadline of a whole
poll (`collector.go:124`); `technical-guide.md:200` says that concurrent
requests always share an evaluation, which a negative ttl switches off. A
Deployment whose pods run and are all unready has `readyReplicas` 0, and
`collector.go:346` shows it with as many ready replicas as pods that run. On the
service-metrics page the branch for old data (97) comes before that for errors
(99): if the first fetch for a new window fails, the page says "Loading" until a
later poll succeeds. `BEHOLDR_POLL_INTERVAL=0` makes `NewTicker` panic
(`collector.go:111`). A threshold of `NaN` is parsed and passes all the
comparisons of `validateThresholds`; no value is then ever above it.

## Proofs

TLAPS proves, for every value of the constants:

* **ReportCacheProofs.** `IInv` is inductive: types, who owns a flight
  (`OwnerInv`), what is known of outcomes, waiters, entries and answers
  (`ReportInv`), the bound of the map, and the ages of reports (`AgeInv`). None of
  `OneEvaluationPerKey`, `NoOrphanFlight`, `OnlyOwnCancellation` is inductive
  alone: that a second leader cannot start needs `LeadersHoldTheirKey` (a flight
  in progress is in the map) and `OneOwner`; that retiring a key removes the right
  flight needs both again. From `IInv` follow `SingleFlight`,
  `FlightsAreRetired`, `AnswersCorrect`, `CancellationIsPrivate`, `MapIsBounded`
  and the action properties `HitsFresh` and `OldestAreEvicted`. The latter is
  about the order in which `evictLocked` drops reports: the entry of the key that
  is stored is gone or expired (`LeadersKeyIsNotLive`), so every live report it
  drops is one of `Unexpired`, and the cardinalities tell that these filled the
  map. `FreshReportsAreReused` needs `FreshReportsKept` besides, and the
  assumption that the keys fit in the map, without which an eviction may drop a
  live report.
* **CacheExtensionProofs**, the refinement. `CacheImplementsSharing`: every step of
  `reportCache.do` is a step of `ReportSharing`, or one that it does not see
  (a join, an eviction, a disconnection). A flight's abstract phase is read off
  `inflight`: it is "over", and may still be joined, from the close of its channel
  until its leader has deleted it. The proof has a lemma per action; what they need
  is `HInv`, which adds to `IInv` that what a request has missed stays retired and
  is not what it waits for. `Owner` is a `CHOOSE`, so `OneOwner` is what makes a
  phase change leave the owners of the other flights alone.
* **CacheExtensionProofs**, the request path. The steps of `ServiceHealth` are
  steps of the cache or leave it alone (`HealthStep`), so every theorem about the cache
  holds there too (`RequestsUseTheCache`).
  `RequestInv` adds three facts: the snapshot an evaluation scores was on display
  when it began or later (`DisplayInv`), a flight that somebody runs, or is about to
  be woken by, is not older than `EvalTime` (`DurationInv`), and a spoilt report
  began before the outage was over (`OutageInv`). `PodsWereOnDisplay` and
  `OutagesAreForgotten` then are one argument (`AnswerAges`): how long ago the
  evaluation behind an answer can have begun.
* **EvaluationPoolProofs.** `PoolInv` is inductive: the counting invariant (the
  slots in use are the goroutines that call) by the cardinality of the set
  before and after a step, and for each goroutine and each evaluation how far
  it is (`Progress`, `Origin`, `Stage`, `Verdict`). The five safety properties
  follow.
* **ScoringProofs.** The report is always that of the current outcomes; the
  theorems then are about the operators: the order of the two pod thresholds,
  what the aggregate of four signals is, and the monotonicity of every signal
  in its value. They hold for all integers, thresholds that
  `validateThresholds` accepts and replica counts. `AcceptedInOrder` is what
  "accepts" gives: positive thresholds in order, whatever the environment holds,
  provided the defaults are (`ScoringAssumption`); `TypeCorrect` rests on it.
* **CollectorProofs.** `IInv` is inductive: types, with the bound and the order of
  every ring; how old a poll and its claims are (`PollInv`); that the health was
  published with the snapshot (`HealthInv`); where each ring is while a poll
  records, prunes and publishes (`RingInv`); and that what a handler keeps was
  published (`ReaderInv`). `RingsFollowSnapshot` is not inductive alone: it says
  nothing while a poll records, so the step that publishes needs `RingInv`, which
  splits the series into those that have the new point, those that wait for it
  and those that are to be pruned. `ServedHistoryReachesSnapshot` needs that the
  snapshot a handler holds is never newer than the one on display.
  `ReadyMeansRecentData` needs that a poll is never older than its timeout, which
  the deadline gives through `Passive`. All hold for any nodes, services, handlers,
  ring size, interval, timeout and staleness that `CollectorAssumption` allows.
* **IntegrationMonitorProofs.** `IInv` is inductive: `ClockInv` (the next tick),
  `CancelInv` (a cancelled check is known to be cancelled before the round is
  published) and `RoundInv`, which names the tick `t` at which the round began:
  every goroutine that has started did so at `t`, and `t` was at most an interval
  after the snapshot. With `t` as the witness the three safety properties
  follow, for any number of providers, interval and timeout; the last one,
  `StatusesStayFresh`, by adding the two ages.
* **WorkloadsProofs.** `IInv` says that what a poll has listed and nobody has
  touched since it began is still so, list by list and in the order they are
  taken. A pod is kept if its workload *or* its node is untouched: the first is
  what the entry of the workload needs, the second the count of the node. From it,
  and from what `workloadOf` makes of the names of a template (`TrueName`,
  `FalseName`), follows `Exact`: `UntouchedIsExact` for any pods, templates, names and
  changes. `OnePageEach`: the detail pages split the listed pods, and an entry sums
  the pods of its page (`PagesPartitionPods`). `TotalsAddUp` is the arithmetic on top:
  the sums over the pages, the entries, the phases and the nodes are those of the
  whole list (`TotalsAgree`). `SumFunction` is a fold over a `CHOOSE`n order, so the
  proof does not follow the order: the sum of `f` over a set is the cardinality of
  `Units(f, s)`, `f[x]` units for each `x`, and the cardinality of a disjoint union
  is the sum of those of its parts (`SumIsSize`, `SumOfParts`). What is inductive in it,
  that the equations of the fold have one solution (`SumUnique`), is proved on a
  least counterexample under proper inclusion of finite sets, which the provers
  can follow. It needs that the lists are finite, which `ObjectsInv` says.
* **UiPollProofs.** `IInv` is inductive: the fetches of the last run of the effect
  are for its URL and at least an interval apart (`Spaced`), and only the last run
  may be alive (`RunsCounted`). The property on the selection needs only the second;
  that an older answer replaces a newer one only after an interval needs the
  spacing, also of the answer on display, which has left the network.

Behind each liveness property is a statement about single states, that whoever waits
waits for something that can happen; those are proved, from the same invariants,
in the module of their component:

| Theorem | Says | Behind |
|---|---|---|
| `WaitersHaveLeaders` | a request that waits has an outcome to take, or another request leads the flight it waits for | `EveryCallReturns` |
| `NoCircularWait` | an evaluation is over, one of its goroutines can go on, or it waits for slots that calls in progress hold | `EveryEvaluationReturns` |
| `PollerNeverStuck` | the poller has stopped, lets time pass or has a step to make, also between two rings; no poll outlives its timeout | `PollsEnd`, `ShutdownStops` |
| `MonitorNeverStuck` | the same of a round and its goroutines | `MonitorStops` |
| `PagePollsOn` | a page that is on the screen has an effect to run, or polls what is selected with a timer that is due within the interval | `SelectionIsShown` |

What they leave to TLC is the step from "something can happen" to "it does", which is
fairness. They are in no `.cfg`, so that the runs stay short; TLC finds no violation
of them on the instances of the runs of their components.

The inductive invariants of the cache (`HInv`), the evaluations, the collector, the
monitor and the page are invariants of the runs as well, where they stand for the
type invariants they contain. `RequestInv` of `ServiceHealth`, and `IInv` and
`PagesPartitionPods` of `Workloads`, stand in `CacheExtensionProofs` and
`WorkloadsProofs` and in no `.cfg`, which keeps those two runs short; TLC finds no
violation of them on the same instances.

Assumptions on constants are named in the modules that declare them
(`CacheAssumption`, `SharingAssumption`, `PoolAssumption`, `ScoringAssumption`,
`CollectorAssumption`, `MonitorAssumption`, `HealthAssumption`,
`WorkloadsAssumption`, `TemplatesAssumption`, `RootAssumption`, `UiAssumption`),
and TLC evaluates them for each instance. Those that say more than the type of a
constant: `SharingAssumption`, that the value which stands for "no key" in the
refinement is none; `WorkloadsAssumption`, that no node has the empty name, which is
what an unbound pod has in `spec.nodeName`; and `RootAssumption`, what the "true"
workload of a pod means: its owner, the Deployment whose ReplicaSet owns it and is
named after it with one part more, or, if nobody owns it, its label.

Only model-checked: liveness (`EveryCallReturns`, `CancelledWaiterReturns`,
`EveryEvaluationReturns`, `PollsEnd`, `ShutdownStops`, `MonitorStops`,
`SelectionIsShown`), because fairness speaks of `ENABLED`, which TLAPS does not
reason about here. Every invariant and every action property that a passing run
checks is a theorem.
`ServiceHealth` rests on an assumption of its own: an evaluation, its wait for
slots included, ends within `EvalTime`. Each call has the client's timeout
(`monitor.go:200`), and `EvaluationPool_liveness` shows that waits end, but not how
soon.

## Not modelled

The contents of PromQL, of series and of chart points; the wording of errors;
JSON; routing, CORS and static files; the choice of a kubeconfig; NaN and
infinite thresholds (`ParseFloat` accepts them and `validateThresholds` lets a
NaN through); metric names and PromQL labels of the configuration, and integers
that fall back to a default, which are parameters of the other modules; percentages,
capacities and roles of nodes; the UI components but for what decides which
selection is shown; packaging.

## Plan

1. Done: the models of all the components that keep state, their runs, and the
   proofs of all the invariants and action properties that the runs check; the
   refinement of `ReportSharing` as a theorem; the safety half of the liveness
   properties.
2. `PromQuery`: the mapping of statuses and error types as pure operators.
3. `EvalTime` from below: a bound on the wait for a slot, from the number of
   evaluations that can queue and the client's timeout, which would discharge the
   assumption of `ServiceHealth`.
