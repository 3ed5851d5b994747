----------------------------- MODULE Collector -----------------------------
(***************************************************************************)
(* internal/collect: the poller of the cluster (collector.go, history.go), *)
(* the listing client it calls (internal/k8s/client.go) and the handlers   *)
(* that read it (internal/api/server.go).                                  *)
(*                                                                         *)
(* A poll makes six calls under one deadline, pushes a point to the ring   *)
(* of every series, prunes the rings of what is gone and then publishes a  *)
(* snapshot.  Handlers take the snapshot under one lock and a ring under   *)
(* another, at any moment in between.                                      *)
(*                                                                         *)
(* A point is reduced to the poll that recorded it, an object of the       *)
(* cluster to its name, usage to whether it was measured.                  *)
(***************************************************************************)
EXTENDS Integers, Sequences

CONSTANTS
    Nodes,        \* node names
    Services,     \* microservice keys
    Readers,      \* requests being handled
    HistorySize,  \* History.max
    Interval,     \* c.interval, in ticks
    Timeout,      \* c.timeout: of a whole poll
    StaleAfter,   \* c.staleAfter
    MaxTime       \* the clock stops here (bounds the runs)

Never == -1

Objects == Nodes \cup Services
Series == Objects \cup {"cluster"}

ASSUME CollectorAssumption ==
    /\ Nodes \cap Services = {}
    /\ "cluster" \notin Objects
    /\ HistorySize \in Nat \ {0}
    /\ Interval \in Nat \ {0} /\ Timeout \in Nat \ {0} /\ MaxTime \in Nat
    /\ StaleAfter \in Nat /\ StaleAfter >= 3 * Interval

\* The six calls of a poll.
Calls == {"Nodes", "Pods", "Deployments", "HPAs", "NodeMetrics", "PodMetrics"}
\* (bug) the snapshot is published without its points
AfterUnrecorded == [Nodes |-> "Pods", Pods |-> "Deployments", Deployments |-> "HPAs",
          HPAs |-> "NodeMetrics", NodeMetrics |-> "PodMetrics", PodMetrics |-> "publishing"]

\* The order of collect.
After == [Nodes |-> "Pods", Pods |-> "Deployments", Deployments |-> "HPAs",
          HPAs |-> "NodeMetrics", NodeMetrics |-> "PodMetrics", PodMetrics |-> "recording"]

\* An error of these ends the poll; the others are logged only.
Required == {"Nodes", "Pods", "Deployments"}

VARIABLES
    now,          \* time.Now()
    cancelled,    \* the ctx of Run is done
    nextTick,     \* when the ticker fires next; Never until it is started
    due,          \* a tick is waiting in t.C, or the first poll has not begun
    at,           \* where the goroutine of Run is
    poll,         \* the locals of collect: when it began, what the calls gave
    pending,      \* the series collect has still to push to
    history,      \* History.data: the polls of the points of each series
    metrics,      \* k8s.Client.MetricsAvailable
    snap,         \* c.snap
    lastSuccess,  \* c.lastSuccess
    lastErr,      \* c.lastErr is not nil
    reader        \* what each handler has read so far

vars == <<now, cancelled, nextTick, due, at, poll, pending, history, metrics, snap,
          lastSuccess, lastErr, reader>>

clock == <<now, cancelled, nextTick, due>>
shared == <<history, metrics, snap, lastSuccess, lastErr>>

NoSnapshot == [ready |-> FALSE, updatedAt |-> 0, startedAt |-> Never, objects |-> {},
               measured |-> FALSE, metrics |-> FALSE]

Free == [at |-> "free", series |-> "cluster", updatedAt |-> 0, ready |-> FALSE]

Init ==
    /\ now = 0
    /\ cancelled = FALSE
    /\ nextTick = Never
    /\ due = TRUE
    /\ at = "waiting"
    /\ poll = [id |-> 0, startedAt |-> 0, nodes |-> {}, services |-> {}, measured |-> FALSE]
    /\ pending = {}
    /\ history = [s \in Series |-> <<>>]
    /\ metrics = TRUE
    /\ snap = NoSnapshot
    /\ lastSuccess = Never
    /\ lastErr = FALSE
    /\ reader = [r \in Readers |-> Free]

-----------------------------------------------------------------------------
(* Time.  Waiting takes time, computing does not.                           *)

\* (bug) the calls have no deadline
NoDeadline == cancelled

CtxDone == cancelled \/ now >= poll.startedAt + Timeout

Passive ==
    \/ at = "waiting" /\ ~due /\ ~cancelled
    \/ at \in Calls /\ ~CtxDone

\* The ticker's channel holds one tick: a tick nobody has taken yet swallows the next.
Tick ==
    /\ Passive
    /\ now < MaxTime
    /\ now' = now + 1
    /\ IF now' = nextTick THEN due' = TRUE /\ nextTick' = nextTick + Interval
                          ELSE UNCHANGED <<due, nextTick>>
    /\ UNCHANGED <<cancelled, at, poll, pending, shared, reader>>

\* SIGTERM, or the listener has failed.
Shutdown ==
    /\ ~cancelled
    /\ cancelled' = TRUE
    /\ UNCHANGED <<now, nextTick, due, at, poll, pending, shared, reader>>

-----------------------------------------------------------------------------
(* Run and the calls of collect.                                            *)

\* No poll begins that the clock of a run would not see time out.
BeginPoll ==
    /\ at = "waiting" /\ due
    /\ now + Timeout <= MaxTime
    /\ due' = FALSE
    /\ at' = "Nodes"
    /\ poll' = [id |-> poll.id + 1, startedAt |-> now, nodes |-> {}, services |-> {}, measured |-> TRUE]
    /\ UNCHANGED <<now, cancelled, nextTick, pending, shared, reader>>

\* The first poll is over before the ticker is made.
BackToRun ==
    /\ at' = "waiting"
    /\ nextTick' = IF nextTick = Never THEN now + Interval ELSE nextTick

\* (bug) the loop does not look at ctx
IgnoresShutdown == FALSE /\ UNCHANGED vars

\* The select may take a tick that is waiting before it sees that ctx is done, but
\* the first poll is made in any case.
Stop ==
    /\ at = "waiting" /\ cancelled
    /\ nextTick # Never
    /\ at' = "stopped"
    /\ UNCHANGED <<clock, poll, pending, shared, reader>>

\* What a call that answers adds to the poll: the nodes, the services that have
\* pods, those that have deployments.  Several namespaces are one call here: the
\* first that fails fails them all.
Listed(call) ==
    IF call = "Nodes" THEN \E N \in SUBSET Nodes : poll' = [poll EXCEPT !.nodes = N]
    ELSE IF call \in {"Pods", "Deployments"}
      THEN \E S \in SUBSET Services : poll' = [poll EXCEPT !.services = @ \cup S]
      ELSE UNCHANGED poll

Answered ==
    /\ at \in Calls
    /\ ~CtxDone
    /\ Listed(at)
    /\ at' = After[at]
    /\ pending' = IF at = "PodMetrics" THEN {"cluster"} \cup poll.nodes \cup poll.services ELSE pending
    /\ UNCHANGED <<clock, shared, reader>>

\* recordErr
RecordErr == lastErr' = TRUE /\ UNCHANGED lastSuccess

\* An error, or the deadline, or the end of the program.
Failed ==
    /\ at \in Required
    /\ RecordErr
    /\ BackToRun
    /\ UNCHANGED <<now, cancelled, due, poll, pending, history, metrics, snap, reader>>

\* (bug) NodeMetrics fails without a trace in the client
Forgets(call) == IF call = "PodMetrics" THEN FALSE ELSE metrics

\* A metrics call that fails leaves usage at zero and says so for good.
MetricsAfter(call) == IF call \in {"NodeMetrics", "PodMetrics"} THEN FALSE ELSE metrics

FailedQuietly ==
    /\ at \in Calls \ Required
    /\ metrics' = MetricsAfter(at)
    /\ poll' = [poll EXCEPT !.measured = @ /\ at = "HPAs"]
    /\ at' = After[at]
    /\ pending' = IF at = "PodMetrics" THEN {"cluster"} \cup poll.nodes \cup poll.services ELSE pending
    /\ UNCHANGED <<clock, history, snap, lastSuccess, lastErr, reader>>

-----------------------------------------------------------------------------
(* Recording and publishing.                                                *)

\* (bug) the ring grows by one more
TrimmedLate(b) == IF Len(b) > HistorySize + 1 THEN Tail(b) ELSE b

\* Push keeps the last max points; a ring was never longer than max before.
Trimmed(b) == IF Len(b) > HistorySize THEN Tail(b) ELSE b

\* The cluster's point first, the nodes' before the services'.
MayPush(s) ==
    /\ s \in pending
    /\ s # "cluster" => "cluster" \notin pending
    /\ s \in Services => pending \cap Nodes = {}

Push(s) ==
    /\ at = "recording"
    /\ MayPush(s)
    /\ history' = [history EXCEPT ![s] = Trimmed(Append(@, poll.id))]
    /\ pending' = pending \ {s}
    /\ UNCHANGED <<clock, at, poll, metrics, snap, lastSuccess, lastErr, reader>>

\* (bug) only the series of nodes are pruned
KeptServices == {"cluster"} \cup poll.nodes \cup Services

Kept == {"cluster"} \cup poll.nodes \cup poll.services

Prune ==
    /\ at = "recording" /\ pending = {}
    /\ history' = [s \in Series |-> IF s \in Kept THEN history[s] ELSE <<>>]
    /\ at' = "publishing"
    /\ UNCHANGED <<clock, poll, pending, metrics, snap, lastSuccess, lastErr, reader>>

\* One critical section: the snapshot and the health that goes with it.
Publish ==
    /\ at = "publishing"
    /\ snap' = [ready |-> TRUE, updatedAt |-> poll.id, startedAt |-> poll.startedAt,
                objects |-> poll.nodes \cup poll.services, measured |-> poll.measured, metrics |-> metrics]
    /\ lastSuccess' = now
    /\ lastErr' = FALSE
    /\ BackToRun
    /\ UNCHANGED <<now, cancelled, due, poll, pending, history, metrics, reader>>

-----------------------------------------------------------------------------
(* The handlers.                                                            *)

Ready == lastSuccess # Never /\ now - lastSuccess < StaleAfter

\* requireData, and the lookup of the object: 503 and 404 end the request here.
ReadSnapshot(r, s) ==
    /\ reader[r].at = "free"
    /\ snap.ready
    /\ s \in {"cluster"} \cup snap.objects
    /\ reader' = [reader EXCEPT ![r] = [Free EXCEPT !.at = "history", !.series = s,
                                                    !.updatedAt = snap.updatedAt]]
    /\ UNCHANGED <<clock, at, poll, pending, shared>>

\* cluster, nodeDetail, microserviceDetail: History.Get and the reply.
ReadHistory(r) ==
    /\ reader[r].at = "history"
    /\ reader' = [reader EXCEPT ![r] = Free]
    /\ UNCHANGED <<clock, at, poll, pending, shared>>

\* health: Health and then Snapshot.
ReadHealth(r) ==
    /\ reader[r].at = "free"
    /\ reader' = [reader EXCEPT ![r] = [Free EXCEPT !.at = "health", !.ready = Ready]]
    /\ UNCHANGED <<clock, at, poll, pending, shared>>

ReadAvailability(r) ==
    /\ reader[r].at = "health"
    /\ reader' = [reader EXCEPT ![r] = Free]
    /\ UNCHANGED <<clock, at, poll, pending, shared>>

-----------------------------------------------------------------------------
Expired == CtxDone /\ (Failed \/ FailedQuietly)
Record == Prune \/ Publish \/ \E s \in Series : Push(s)

Next ==
    \/ Tick \/ Shutdown
    \/ BeginPoll \/ Stop
    \/ Answered \/ Failed \/ FailedQuietly
    \/ Record
    \/ \E r \in Readers :
         \/ \E s \in Series : ReadSnapshot(r, s)
         \/ ReadHistory(r) \/ ReadHealth(r) \/ ReadAvailability(r)

Spec == Init /\ [][Next]_vars

\* The API server may never answer: a call is sure to end only by the deadline.
Fairness ==
    WF_vars(Tick) /\ WF_vars(BeginPoll) /\ WF_vars(Stop) /\ WF_vars(Expired) /\ WF_vars(Record)

FairSpec == Spec /\ Fairness

-----------------------------------------------------------------------------
(* Properties.                                                              *)

Newest(s) == history[s][Len(history[s])]

RingsAreOrdered ==
    \A s \in Series :
      /\ Len(history[s]) <= HistorySize
      /\ \A i, j \in 1..Len(history[s]) : i < j => history[s][i] < history[s][j]

\* Type invariant: the collector, its history and its readers.  Every ring is bounded
\* and its points are in the order of the polls, each at most once (history.go:25-34).
TypeOK ==
    /\ now \in Nat
    /\ cancelled \in BOOLEAN /\ due \in BOOLEAN /\ metrics \in BOOLEAN /\ lastErr \in BOOLEAN
    /\ nextTick \in Nat \cup {Never} /\ lastSuccess \in Nat \cup {Never}
    /\ at \in {"waiting", "recording", "publishing", "stopped"} \cup Calls
    /\ poll \in [id: Nat, startedAt: Nat, nodes: SUBSET Nodes, services: SUBSET Services,
                 measured: BOOLEAN]
    /\ pending \subseteq Series /\ (pending # {} => at = "recording")
    /\ history \in [Series -> Seq(Nat)] /\ RingsAreOrdered
    /\ snap \in [ready: BOOLEAN, updatedAt: Nat, startedAt: Nat \cup {Never},
                 objects: SUBSET Objects, measured: BOOLEAN, metrics: BOOLEAN]
    /\ reader \in [Readers -> [at: {"free", "history", "health"}, series: Series,
                               updatedAt: Nat, ready: BOOLEAN]]

Ends(s, id) == history[s] # <<>> /\ Newest(s) = id

\* The ring of a series on display ends with the snapshot's point, no other has one.
FollowsSnapshot(s) ==
    IF s \in snap.objects \/ (s = "cluster" /\ snap.ready)
      THEN Ends(s, snap.updatedAt)
      ELSE history[s] = <<>>

\* Except while a poll records, the rings are those of the snapshot on display:
\* each ends with the snapshot's own point, nothing that is gone has one, and a
\* poll that failed has left no trace (collector.go:127-144, 167-204).
RingsFollowSnapshot ==
    at \notin {"recording", "publishing"} => \A s \in Series : FollowsSnapshot(s)

\* A handler that has taken a snapshot never replies with a history that ends
\* before it: the ring is at least as new, or its object is gone since
\* (collector.go:167-204, server.go:128-138, 155-170).
ServedHistoryReachesSnapshot ==
    \A r \in Readers : reader[r].at = "history" =>
      LET s == reader[r].series
      IN IF history[s] = <<>> THEN s # "cluster" ELSE Newest(s) >= reader[r].updatedAt

\* While the collector is ready, everything on display was read from the cluster
\* within staleAfter and one poll's timeout (collector.go:91, 124, 200-204).
ReadyMeansRecentData ==
    Ready => now - snap.startedAt < StaleAfter + Timeout

\* A snapshot that says metrics are available has measured usage for nodes and
\* pods, not the zeros of a call that failed (client.go:134-160, collector.go:146-148, 194).
MetricsFlagIsHonest == snap.metrics => snap.measured

\* A poll comes to its end even if the API server never answers (collector.go:124).
PollsEnd == at \in Calls ~> at \in {"waiting", "stopped"}

\* Once the program is told to stop, so does the poller, in the middle of a poll
\* too (collector.go:113-120).
ShutdownStops == cancelled ~> at = "stopped"

\* The comment on HealthStatus: readiness "reflects whether the *most recent* poll
\* succeeded recently, not merely whether one has ever succeeded" (collector.go:71-74).
ReadyMeansLastPollSucceeded == Ready => ~lastErr

-----------------------------------------------------------------------------
(* The inductive invariant behind the safety properties.                    *)

InPoll == at \in Calls \cup {"recording", "publishing"}

\* A poll is younger than its timeout and newer than the snapshot; the flag of the
\* client is down if it has not measured usage.
PollInv ==
    /\ snap.updatedAt <= poll.id
    /\ InPoll =>
         /\ poll.startedAt <= now /\ now <= poll.startedAt + Timeout
         /\ snap.updatedAt < poll.id
         /\ metrics => poll.measured

\* The snapshot is as old as the health that was published with it.
HealthInv ==
    /\ IF snap.ready
         THEN lastSuccess # Never /\ snap.startedAt # Never
              /\ lastSuccess <= snap.startedAt + Timeout
         ELSE lastSuccess = Never
    /\ MetricsFlagIsHonest

\* A ring has the point of the poll as soon as it is pushed; what the poll does not
\* keep has the old ones until it is pruned.
RingInv ==
    CASE at = "recording" ->
           /\ pending \subseteq Kept
           /\ \A s \in Series : IF s \in Kept \ pending THEN Ends(s, poll.id) ELSE FollowsSnapshot(s)
      [] at = "publishing" ->
           \A s \in Series : IF s \in Kept THEN Ends(s, poll.id) ELSE history[s] = <<>>
      [] OTHER -> \A s \in Series : FollowsSnapshot(s)

\* What a handler has read of the snapshot was published.
ReaderInv ==
    \A r \in Readers : reader[r].at = "history" =>
      snap.ready /\ reader[r].updatedAt <= snap.updatedAt

IInv == TypeOK /\ PollInv /\ HealthInv /\ RingInv /\ ReaderInv
=============================================================================
