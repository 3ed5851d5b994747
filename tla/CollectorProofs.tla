--------------------------- MODULE CollectorProofs ---------------------------
(* Proofs about Collector: its rings, its snapshots and what handlers read of   *)
(* them, for any cluster, ring size and timing.                                 *)
EXTENDS Collector, TLAPS

\* A bounded ring in the order of the polls.
Ring(h) ==
  /\ h \in Seq(Nat) /\ Len(h) <= HistorySize
  /\ \A i, j \in 1..Len(h) : i < j => h[i] < h[j]

\* Push: a point newer than the last one ends the ring, which stays bounded and
\* in order (history.go:25-34).
LEMMA PushedRing ==
  ASSUME NEW h, Ring(h), NEW x \in Nat, h # <<>> => h[Len(h)] < x
  PROVE  LET r == Trimmed(Append(h, x)) IN Ring(r) /\ r # <<>> /\ r[Len(r)] = x
<1> USE CollectorAssumption
<1> DEFINE b == Append(h, x)
<1>1. h \in Seq(Nat) /\ Len(h) \in Nat
  BY DEF Ring
<1>2. /\ b \in Seq(Nat) /\ Len(b) = Len(h) + 1 /\ b[Len(b)] = x
      /\ \A i \in 1..Len(h) : b[i] = h[i]
  BY <1>1
<1> SUFFICES Ring(Trimmed(b)) /\ Trimmed(b) # <<>> /\ Trimmed(b)[Len(Trimmed(b))] = x
  OBVIOUS
<1> HIDE DEF b
<1>3. \A i \in 1..Len(h) : h[i] <= h[Len(h)] /\ h[i] \in Nat
  BY <1>1 DEF Ring
<1>4. \A i \in 1..Len(h) : h[i] < x
  <2> SUFFICES ASSUME NEW i \in 1..Len(h) PROVE h[i] < x
    OBVIOUS
  <2>1. h # <<>>
    BY <1>1
  <2> QED
    BY <2>1, <1>1, <1>3
<1>5. \A i, j \in 1..Len(b) : i < j => b[i] < b[j]
  <2> SUFFICES ASSUME NEW i \in 1..Len(b), NEW j \in 1..Len(b), i < j PROVE b[i] < b[j]
    OBVIOUS
  <2>1. i \in 1..Len(h) /\ b[i] = h[i]
    BY <1>1, <1>2
  <2>2. CASE j \in 1..Len(h)
    BY <1>2, <2>1, <2>2 DEF Ring
  <2>3. CASE j = Len(b)
    BY <1>2, <1>4, <2>1, <2>3
  <2>4. j \in 1..Len(h) \/ j = Len(b)
    BY <1>1, <1>2
  <2> QED
    BY <2>2, <2>3, <2>4
<1>6. CASE Len(b) <= HistorySize
  <2>1. Trimmed(b) = b
    BY <1>1, <1>2, <1>6 DEF Trimmed
  <2> QED
    BY <1>1, <1>2, <1>5, <1>6, <2>1 DEF Ring
<1>7. CASE Len(b) > HistorySize
  <2> DEFINE r == Tail(b)
  <2>1. Trimmed(b) = r
    BY <1>7 DEF Trimmed
  <2>2. r \in Seq(Nat) /\ Len(r) = Len(h) /\ \A i \in 1..Len(r) : r[i] = b[i + 1]
    <3>1. b # <<>>
      BY <1>1, <1>2
    <3> QED
      BY <1>1, <1>2, <3>1
  <2>3. Len(h) = HistorySize /\ Len(h) > 0
    BY <1>1, <1>2, <1>7 DEF Ring
  <2>4. r # <<>> /\ r[Len(r)] = x
    <3>1. r[Len(r)] = b[Len(h) + 1]
      BY <1>1, <2>2, <2>3
    <3> QED
      BY <1>2, <2>2, <2>3, <3>1
  <2>5. \A i, j \in 1..Len(r) : i < j => r[i] < r[j]
    <3> SUFFICES ASSUME NEW i \in 1..Len(r), NEW j \in 1..Len(r), i < j PROVE r[i] < r[j]
      OBVIOUS
    <3>1. i + 1 \in 1..Len(b) /\ j + 1 \in 1..Len(b) /\ i + 1 < j + 1
      BY <1>1, <1>2, <2>2
    <3> QED
      BY <1>5, <2>2, <3>1
  <2> HIDE DEF r
  <2> QED
    BY <2>1, <2>2, <2>3, <2>4, <2>5 DEF Ring
<1> QED
  BY <1>1, <1>2, <1>6, <1>7

\* The rings of the type invariant.
LEMMA Rings == ASSUME TypeOK PROVE \A s \in Series : Ring(history[s])
  BY DEF TypeOK, RingsAreOrdered, Ring

\* Start: nothing is recorded, nothing is shown, the first poll is due.
LEMMA InitOK == Init => IInv
<1> SUFFICES ASSUME Init PROVE IInv
  OBVIOUS
<1> USE CollectorAssumption DEF Init, Never, NoSnapshot
<1>1. RingsAreOrdered /\ history \in [Series -> Seq(Nat)]
  BY DEF RingsAreOrdered
<1>2. reader \in [Readers -> [at: {"free", "history", "health"}, series: Series,
                              updatedAt: Nat, ready: BOOLEAN]]
  BY DEF Free, Series
<1>3. TypeOK
  BY <1>1, <1>2 DEF TypeOK
<1>4. PollInv /\ HealthInv /\ ReaderInv
  BY DEF PollInv, InPoll, Calls, HealthInv, MetricsFlagIsHonest, ReaderInv, Free
<1>5. RingInv
  BY DEF RingInv, FollowsSnapshot
<1> QED
  BY <1>3, <1>4, <1>5 DEF IInv

\* The call a poll makes next.
LEMMA NextCall == \A call \in Calls : After[call] \in Calls \cup {"recording"}
  BY DEF Calls, After

LEMMA LastCall == \A call \in Calls : After[call] = "recording" <=> call = "PodMetrics"
  BY DEF Calls, After

\* The series a poll records, as it goes on to record.
LEMMA PendingAfter ==
  ASSUME TypeOK, at \in Calls, poll' \in [id: Nat, startedAt: Nat, nodes: SUBSET Nodes,
                                     services: SUBSET Services, measured: BOOLEAN],
         poll'.nodes = poll.nodes \/ at # "PodMetrics", poll'.services = poll.services \/ at # "PodMetrics",
         at' = After[at],
         pending' = IF at = "PodMetrics" THEN {"cluster"} \cup poll.nodes \cup poll.services ELSE pending
  PROVE  /\ at' \in Calls \cup {"recording"}
         /\ pending' \subseteq Series /\ (pending' # {} => at' = "recording")
         /\ at' = "recording" => pending' = Kept'
<1>1. at' \in Calls \cup {"recording"} /\ (at' = "recording" <=> at = "PodMetrics")
  BY NextCall, LastCall
<1>2. at # "recording"
  BY DEF Calls
<1>3. pending = {}
  BY <1>2 DEF TypeOK
<1> QED
  BY <1>1, <1>3 DEF TypeOK, Series, Objects, Kept

\* A call that answers adds to what the poll has seen.
LEMMA ListedType ==
  ASSUME TypeOK, NEW call \in Calls, Listed(call)
  PROVE  /\ poll' \in [id: Nat, startedAt: Nat, nodes: SUBSET Nodes, services: SUBSET Services,
                       measured: BOOLEAN]
         /\ poll'.id = poll.id /\ poll'.startedAt = poll.startedAt /\ poll'.measured = poll.measured
         /\ call = "PodMetrics" => poll' = poll
<1>1. CASE call = "Nodes"
  <2>1. PICK N \in SUBSET Nodes : poll' = [poll EXCEPT !.nodes = N]
    BY <1>1 DEF Listed
  <2> QED
    BY <1>1, <2>1 DEF TypeOK
<1>2. CASE call \in {"Pods", "Deployments"}
  <2>1. PICK S \in SUBSET Services : poll' = [poll EXCEPT !.services = @ \cup S]
    BY <1>2 DEF Listed
  <2> QED
    BY <1>2, <2>1 DEF TypeOK
<1>3. CASE call \notin {"Nodes", "Pods", "Deployments"}
  <2>1. poll' = poll
    BY <1>3 DEF Listed
  <2> QED
    BY <2>1 DEF TypeOK
<1> QED
  BY <1>1, <1>2, <1>3

\* The ring a push makes of the one before.
LEMMA PushedPoint ==
  ASSUME IInv, NEW s \in Series, Push(s)
  PROVE  /\ history' = [history EXCEPT ![s] = Trimmed(Append(history[s], poll.id))]
         /\ Ring(history'[s]) /\ Ends(s, poll.id)'
<1>1. at = "recording" /\ s \in pending /\ poll' = poll
  BY DEF Push, MayPush
<1>2. FollowsSnapshot(s)
  BY <1>1 DEF IInv, RingInv
<1>3. snap.updatedAt < poll.id /\ poll.id \in Nat
  BY <1>1 DEF IInv, PollInv, InPoll, TypeOK
<1>4. history[s] # <<>> => history[s][Len(history[s])] < poll.id
  BY <1>2, <1>3 DEF FollowsSnapshot, Ends, Newest
<1>5. Ring(history[s])
  BY Rings DEF IInv
<1>6. LET r == Trimmed(Append(history[s], poll.id))
      IN Ring(r) /\ r # <<>> /\ r[Len(r)] = poll.id
  BY <1>3, <1>4, <1>5, PushedRing
<1>7. history' = [history EXCEPT ![s] = Trimmed(Append(history[s], poll.id))]
  BY DEF Push
<1>8. history'[s] = Trimmed(Append(history[s], poll.id))
  BY <1>7 DEF IInv, TypeOK
<1> QED
  BY <1>1, <1>6, <1>7, <1>8 DEF Ends, Newest

\* A handler forgets what it has read, or reads what is published.
LEMMA ReaderStep ==
  ASSUME TypeOK, NEW r \in Readers, NEW s \in Series,
         ReadSnapshot(r, s) \/ ReadHistory(r) \/ ReadHealth(r) \/ ReadAvailability(r)
  PROVE  /\ reader' \in [Readers -> [at: {"free", "history", "health"}, series: Series,
                                     updatedAt: Nat, ready: BOOLEAN]]
         /\ \A q \in Readers : reader'[q].at = "history" =>
              \/ reader'[q] = reader[q]
              \/ snap.ready /\ reader'[q].updatedAt = snap.updatedAt
<1> DEFINE Reader == [at: {"free", "history", "health"}, series: Series,
                      updatedAt: Nat, ready: BOOLEAN]
<1>1. Free \in Reader /\ Free.at = "free"
  BY DEF Free, Series
<1>2. CASE ReadSnapshot(r, s)
  <2> DEFINE x == [Free EXCEPT !.at = "history", !.series = s, !.updatedAt = snap.updatedAt]
  <2>1. x \in Reader /\ x.updatedAt = snap.updatedAt
    BY DEF Free, TypeOK
  <2>2. reader' = [reader EXCEPT ![r] = x] /\ snap.ready
    BY <1>2 DEF ReadSnapshot
  <2> HIDE DEF x
  <2> QED
    BY <2>1, <2>2 DEF TypeOK
<1>3. CASE ReadHealth(r)
  <2> DEFINE x == [Free EXCEPT !.at = "health", !.ready = Ready]
  <2>1. x \in Reader /\ x.at = "health"
    BY DEF Free, Series, Ready
  <2>2. reader' = [reader EXCEPT ![r] = x]
    BY <1>3 DEF ReadHealth
  <2> HIDE DEF x
  <2> QED
    BY <2>1, <2>2 DEF TypeOK
<1>4. CASE ReadHistory(r) \/ ReadAvailability(r)
  <2>1. reader' = [reader EXCEPT ![r] = Free]
    BY <1>4 DEF ReadHistory, ReadAvailability
  <2> QED
    BY <1>1, <2>1 DEF TypeOK
<1> QED
  BY <1>2, <1>3, <1>4

\* Every step of the poller and of the handlers keeps the types and the rings.
LEMMA TypePreserved == IInv /\ [Next]_vars => TypeOK'
<1> SUFFICES ASSUME IInv, [Next]_vars PROVE TypeOK'
  OBVIOUS
<1>t. TypeOK
  BY DEF IInv
<1> USE CollectorAssumption DEF Never
<1>1. CASE Tick
  <2>1. now' \in Nat /\ nextTick' \in Nat \cup {Never}
    BY <1>t, <1>1 DEF Tick, TypeOK
  <2>2. due' \in BOOLEAN
    BY <1>t, <1>1, Zenon DEF Tick, TypeOK
  <2> QED
    BY <1>t, <1>1, <2>1, <2>2 DEF Tick, shared, TypeOK, RingsAreOrdered
<1>2. CASE Shutdown
  BY <1>t, <1>2 DEF Shutdown, shared, TypeOK, RingsAreOrdered
<1>3. CASE BeginPoll
  <2>1. at' \in Calls /\ pending = {}
    BY <1>t, <1>3 DEF BeginPoll, TypeOK, Calls
  <2>2. poll' \in [id: Nat, startedAt: Nat, nodes: SUBSET Nodes, services: SUBSET Services,
                   measured: BOOLEAN]
    BY <1>t, <1>3 DEF BeginPoll, TypeOK
  <2> QED
    BY <1>t, <1>3, <2>1, <2>2 DEF BeginPoll, shared, TypeOK, RingsAreOrdered
<1>4. CASE Stop
  BY <1>t, <1>4 DEF Stop, clock, shared, TypeOK, RingsAreOrdered
<1>5. CASE Answered
  <2>1. at \in Calls /\ Listed(at)
    BY <1>5 DEF Answered
  <2>2. at' \in Calls \cup {"recording"} /\ pending' \subseteq Series /\ (pending' # {} => at' = "recording")
    BY <1>t, <1>5, <2>1, ListedType, PendingAfter DEF Answered
  <2> QED
    BY <1>t, <1>5, <2>1, <2>2, ListedType DEF Answered, clock, shared, TypeOK, RingsAreOrdered
<1>6. CASE Failed
  <2>1. nextTick' \in Nat \cup {Never} /\ at' = "waiting" /\ pending = {}
    BY <1>t, <1>6 DEF Failed, BackToRun, TypeOK, Required
  <2> QED
    BY <1>t, <1>6, <2>1 DEF Failed, RecordErr, TypeOK, RingsAreOrdered
<1>7. CASE FailedQuietly
  <2>1. at \in Calls
    BY <1>7 DEF FailedQuietly
  <2>2. /\ poll' \in [id: Nat, startedAt: Nat, nodes: SUBSET Nodes, services: SUBSET Services,
                      measured: BOOLEAN]
        /\ poll'.nodes = poll.nodes /\ poll'.services = poll.services
    BY <1>t, <1>7 DEF FailedQuietly, TypeOK
  <2>3. metrics' \in BOOLEAN
    BY <1>t, <1>7 DEF FailedQuietly, MetricsAfter, TypeOK
  <2>4. at' \in Calls \cup {"recording"} /\ pending' \subseteq Series /\ (pending' # {} => at' = "recording")
    BY <1>t, <1>7, <2>1, <2>2, PendingAfter DEF FailedQuietly
  <2> QED
    BY <1>t, <1>7, <2>2, <2>3, <2>4 DEF FailedQuietly, clock, TypeOK, RingsAreOrdered
<1>8. ASSUME NEW s \in Series, Push(s) PROVE TypeOK'
  <2>1. /\ history' = [history EXCEPT ![s] = Trimmed(Append(history[s], poll.id))]
        /\ Ring(history'[s])
    BY <1>8, PushedPoint
  <2>2. \A q \in Series : Ring(history'[q])
    BY <1>t, <2>1, Rings DEF TypeOK
  <2>3. history' \in [Series -> Seq(Nat)] /\ RingsAreOrdered'
    BY <1>t, <2>1, <2>2 DEF TypeOK, Ring, RingsAreOrdered
  <2> QED
    BY <1>t, <1>8, <2>3 DEF Push, clock, TypeOK
<1>9. CASE Prune
  <2>1. \A q \in Series : history'[q] = history[q] \/ history'[q] = <<>>
    BY <1>9 DEF Prune
  <2>2. history' \in [Series -> Seq(Nat)] /\ RingsAreOrdered'
    BY <1>t, <1>9, <2>1 DEF Prune, TypeOK, RingsAreOrdered
  <2> QED
    BY <1>t, <1>9, <2>2 DEF Prune, clock, TypeOK
<1>10. CASE Publish
  <2>1. nextTick' \in Nat \cup {Never} /\ at' = "waiting" /\ pending = {}
    BY <1>t, <1>10 DEF Publish, BackToRun, TypeOK
  <2>2. snap' \in [ready: BOOLEAN, updatedAt: Nat, startedAt: Nat \cup {Never},
                   objects: SUBSET Objects, measured: BOOLEAN, metrics: BOOLEAN]
    BY <1>t, <1>10 DEF Publish, TypeOK, Objects
  <2> QED
    BY <1>t, <1>10, <2>1, <2>2 DEF Publish, TypeOK, RingsAreOrdered
<1>11. ASSUME NEW r \in Readers, NEW s \in Series,
              ReadSnapshot(r, s) \/ ReadHistory(r) \/ ReadHealth(r) \/ ReadAvailability(r)
       PROVE TypeOK'
  <2>1. reader' \in [Readers -> [at: {"free", "history", "health"}, series: Series,
                                 updatedAt: Nat, ready: BOOLEAN]]
    BY <1>t, <1>11, ReaderStep
  <2>2. UNCHANGED <<clock, at, poll, pending, shared>>
    BY <1>11 DEF ReadSnapshot, ReadHistory, ReadHealth, ReadAvailability
  <2> QED
    BY <1>t, <2>1, <2>2 DEF clock, shared, TypeOK, RingsAreOrdered
<1>12. CASE UNCHANGED vars
  BY <1>t, <1>12 DEF vars, TypeOK, RingsAreOrdered
<1> QED
  BY <1>1, <1>2, <1>3, <1>4, <1>5, <1>6, <1>7, <1>8, <1>9, <1>10, <1>11, <1>12 DEF Next, Record, Series

\* What the poll, the snapshot and the health say of each other: only a poll that
\* begins or ends changes it.
LEMMA PollPreserved == IInv /\ [Next]_vars => PollInv'
<1> SUFFICES ASSUME IInv, [Next]_vars PROVE PollInv'
  OBVIOUS
<1>t. TypeOK /\ PollInv
  BY DEF IInv
<1> USE CollectorAssumption DEF PollInv, InPoll
<1>1. CASE Tick
  <2>1. at \in Calls => now < poll.startedAt + Timeout
    BY <1>t, <1>1 DEF Tick, Passive, CtxDone, TypeOK, Calls
  <2>2. at \notin {"recording", "publishing"}
    BY <1>1 DEF Tick, Passive, Calls
  <2> QED
    BY <1>t, <1>1, <2>1, <2>2 DEF Tick, shared, TypeOK
<1>2. CASE Shutdown
  BY <1>t, <1>2 DEF Shutdown, shared
<1>3. CASE BeginPoll
  BY <1>t, <1>3 DEF BeginPoll, shared, TypeOK
<1>4. CASE Stop
  BY <1>t, <1>4 DEF Stop, clock, shared, Calls
<1>5. CASE Answered
  <2>1. at \in Calls /\ Listed(at)
    BY <1>5 DEF Answered
  <2> QED
    BY <1>t, <1>5, <2>1, ListedType DEF Answered, clock, shared
<1>6. CASE Failed
  BY <1>t, <1>6 DEF Failed, BackToRun, Calls
<1>7. CASE FailedQuietly
  <2>1. /\ poll'.id = poll.id /\ poll'.startedAt = poll.startedAt
        /\ metrics' => metrics /\ poll'.measured = poll.measured
    <3>1. metrics' => metrics /\ at = "HPAs"
      BY <1>7 DEF FailedQuietly, MetricsAfter, Calls, Required
    <3>2. poll' = [poll EXCEPT !.measured = @ /\ at = "HPAs"]
      BY <1>7 DEF FailedQuietly
    <3> QED
      BY <1>t, <3>1, <3>2 DEF TypeOK
  <2>2. at \in Calls /\ now' = now /\ snap' = snap
    BY <1>7 DEF FailedQuietly, clock
  <2> QED
    BY <1>t, <2>1, <2>2
<1>8. ASSUME NEW s \in Series, Push(s) PROVE PollInv'
  BY <1>t, <1>8 DEF Push, clock
<1>9. CASE Prune
  BY <1>t, <1>9 DEF Prune, clock
<1>10. CASE Publish
  BY <1>t, <1>10 DEF Publish, BackToRun, Calls, TypeOK
<1>11. ASSUME NEW r \in Readers, NEW s \in Series,
              ReadSnapshot(r, s) \/ ReadHistory(r) \/ ReadHealth(r) \/ ReadAvailability(r)
       PROVE PollInv'
  BY <1>t, <1>11 DEF ReadSnapshot, ReadHistory, ReadHealth, ReadAvailability, clock, shared
<1>12. CASE UNCHANGED vars
  BY <1>t, <1>12 DEF vars
<1> QED
  BY <1>1, <1>2, <1>3, <1>4, <1>5, <1>6, <1>7, <1>8, <1>9, <1>10, <1>11, <1>12 DEF Next, Record, Series

\* The snapshot and the health are written together, by the end of a poll.
LEMMA HealthPreserved == IInv /\ [Next]_vars => HealthInv'
<1> SUFFICES ASSUME IInv, [Next]_vars PROVE HealthInv'
  OBVIOUS
<1> USE CollectorAssumption DEF HealthInv, MetricsFlagIsHonest
<1>1. CASE Publish
  <2>1. /\ poll.startedAt <= now /\ now <= poll.startedAt + Timeout
        /\ metrics => poll.measured
    BY <1>1 DEF Publish, IInv, PollInv, InPoll
  <2>2. poll.startedAt \in Nat /\ now \in Nat
    BY DEF IInv, TypeOK
  <2> QED
    BY <1>1, <2>1, <2>2 DEF Publish, Never
<1>2. CASE ~Publish
  <2>1. UNCHANGED <<snap, lastSuccess>>
    BY <1>2 DEF Next, Record, Tick, Shutdown, BeginPoll, Stop, Answered, Failed, RecordErr,
                FailedQuietly, Push, Prune, ReadSnapshot, ReadHistory, ReadHealth,
                ReadAvailability, shared, vars
  <2> QED
    BY <2>1 DEF IInv
<1> QED
  BY <1>1, <1>2

\* What a handler has read stays published: snapshots are only replaced by newer ones.
LEMMA ReaderPreserved == IInv /\ [Next]_vars => ReaderInv'
<1> SUFFICES ASSUME IInv, [Next]_vars PROVE ReaderInv'
  OBVIOUS
<1>t. TypeOK /\ ReaderInv
  BY DEF IInv
<1>1. CASE Publish
  <2>1. snap.updatedAt < poll.id /\ snap'.updatedAt = poll.id /\ snap'.ready /\ reader' = reader
    BY <1>1 DEF Publish, IInv, PollInv, InPoll
  <2> QED
    BY <1>t, <2>1 DEF ReaderInv, TypeOK
<1>2. ASSUME NEW r \in Readers, NEW s \in Series,
             ReadSnapshot(r, s) \/ ReadHistory(r) \/ ReadHealth(r) \/ ReadAvailability(r)
      PROVE ReaderInv'
  <2>1. snap' = snap
    BY <1>2 DEF ReadSnapshot, ReadHistory, ReadHealth, ReadAvailability, shared
  <2>2. \A q \in Readers : reader'[q].at = "history" =>
          \/ reader'[q] = reader[q]
          \/ snap.ready /\ reader'[q].updatedAt = snap.updatedAt
    BY <1>t, <1>2, ReaderStep
  <2> QED
    BY <1>t, <2>1, <2>2 DEF ReaderInv, TypeOK
<1>3. CASE UNCHANGED <<snap, reader>>
  BY <1>t, <1>3 DEF ReaderInv
<1> QED
  BY <1>1, <1>2, <1>3 DEF Next, Record, Tick, Shutdown, BeginPoll, Stop, Answered, Failed,
     FailedQuietly, Push, Prune, shared, vars, Series

\* Rings and snapshot, when a step changes neither.
LEMMA FollowsFrame ==
  ASSUME UNCHANGED <<history, snap>>
  PROVE  /\ \A s : FollowsSnapshot(s)' <=> FollowsSnapshot(s)
         /\ \A s, id : Ends(s, id)' <=> Ends(s, id)
  BY DEF FollowsSnapshot, Ends, Newest

\* Outside of a recording, a step that stays outside leaves the rings alone.
LEMMA RingFrame ==
  ASSUME RingInv, UNCHANGED <<history, snap>>,
         at \notin {"recording", "publishing"}, at' \notin {"recording", "publishing"}
  PROVE  RingInv'
  BY FollowsFrame DEF RingInv

\* From the last call to the recording: everything is still to be pushed.
LEMMA RingStart ==
  ASSUME RingInv, UNCHANGED <<history, snap>>,
         at \in Calls, at' \in Calls \cup {"recording"},
         at' = "recording" => pending' = Kept'
  PROVE  RingInv'
<1>1. \A s \in Series : FollowsSnapshot(s)
  BY DEF RingInv, Calls
<1>2. \A s \in Series : FollowsSnapshot(s)'
  BY <1>1, FollowsFrame
<1> QED
  BY <1>2 DEF RingInv, Calls

\* Pushes and the pruning take the rings, one by one, from the snapshot to the poll.
LEMMA RingPreserved == IInv /\ [Next]_vars => RingInv'
<1> SUFFICES ASSUME IInv, [Next]_vars PROVE RingInv'
  OBVIOUS
<1>t. TypeOK /\ RingInv /\ TypeOK'
  BY TypePreserved DEF IInv
<1>1. CASE Tick
  <2>1. at \notin {"recording", "publishing"} /\ at' = at /\ UNCHANGED <<history, snap>>
    BY <1>1 DEF Tick, Passive, Calls, shared
  <2> QED
    BY <1>t, <2>1, RingFrame
<1>2. CASE UNCHANGED <<at, poll, pending, history, snap>>
  BY <1>t, <1>2, FollowsFrame DEF RingInv, Kept
<1>3. CASE BeginPoll
  BY <1>t, <1>3, RingFrame DEF BeginPoll, shared
<1>4. CASE Stop
  BY <1>t, <1>4, RingFrame DEF Stop, shared
<1>5. CASE Answered
  <2>1. at \in Calls /\ Listed(at)
    BY <1>5 DEF Answered
  <2>2. at' \in Calls \cup {"recording"} /\ (at' = "recording" => pending' = Kept')
    BY <1>t, <1>5, <2>1, ListedType, PendingAfter DEF Answered
  <2> QED
    BY <1>t, <1>5, <2>1, <2>2, RingStart DEF Answered, shared
<1>6. CASE Failed
  BY <1>t, <1>6, RingFrame DEF Failed, BackToRun, Required
<1>7. CASE FailedQuietly
  <2>1. at \in Calls
    BY <1>7 DEF FailedQuietly
  <2>2. poll'.nodes = poll.nodes /\ poll'.services = poll.services
    BY <1>t, <1>7 DEF FailedQuietly, TypeOK
  <2>3. at' \in Calls \cup {"recording"} /\ (at' = "recording" => pending' = Kept')
    BY <1>t, <1>7, <2>1, <2>2, PendingAfter DEF FailedQuietly, TypeOK
  <2> QED
    BY <1>t, <1>7, <2>1, <2>3, RingStart DEF FailedQuietly
<1>8. ASSUME NEW s \in Series, Push(s) PROVE RingInv'
  <2>1. at = "recording" /\ at' = at /\ s \in pending /\ pending' = pending \ {s}
        /\ UNCHANGED <<poll, snap>>
    BY <1>8 DEF Push, MayPush
  <2>2. history' = [history EXCEPT ![s] = Trimmed(Append(history[s], poll.id))]
        /\ Ends(s, poll.id)'
    BY <1>8, PushedPoint
  <2>3. pending \subseteq Kept /\ Kept' = Kept
    BY <1>t, <2>1 DEF RingInv, Kept
  <2>4. ASSUME NEW q \in Series
        PROVE IF q \in Kept' \ pending' THEN Ends(q, poll.id)' ELSE FollowsSnapshot(q)'
    <3>1. CASE q = s
      BY <2>1, <2>2, <2>3, <3>1
    <3>2. CASE q # s
      <4>1. history'[q] = history[q]
        BY <1>t, <2>2, <3>2 DEF TypeOK
      <4>2. IF q \in Kept \ pending THEN Ends(q, poll.id) ELSE FollowsSnapshot(q)
        BY <1>t, <2>1 DEF RingInv
      <4>3. (Ends(q, poll.id)' <=> Ends(q, poll.id)) /\ (FollowsSnapshot(q)' <=> FollowsSnapshot(q))
        BY <2>1, <4>1 DEF Ends, FollowsSnapshot, Newest
      <4>4. q \in Kept' \ pending' <=> q \in Kept \ pending
        BY <2>1, <2>3, <3>2
      <4> QED
        BY <4>2, <4>3, <4>4
    <3> QED
      BY <3>1, <3>2
  <2> QED
    BY <2>1, <2>3, <2>4 DEF RingInv
<1>9. CASE Prune
  <2>1. at = "recording" /\ pending = {} /\ at' = "publishing" /\ UNCHANGED <<poll, snap>>
        /\ history' = [q \in Series |-> IF q \in Kept THEN history[q] ELSE <<>>]
    BY <1>9 DEF Prune
  <2>2. \A q \in Series : q \in Kept => Ends(q, poll.id)
    BY <1>t, <2>1 DEF RingInv
  <2>3. \A q \in Series : IF q \in Kept' THEN Ends(q, poll.id)' ELSE history'[q] = <<>>
    BY <2>1, <2>2 DEF Ends, Newest, Kept
  <2> QED
    BY <2>1, <2>3 DEF RingInv
<1>10. CASE Publish
  <2>1. /\ at = "publishing" /\ at' = "waiting" /\ UNCHANGED <<poll, history>>
        /\ snap'.ready /\ snap'.updatedAt = poll.id /\ snap'.objects = poll.nodes \cup poll.services
    BY <1>10 DEF Publish, BackToRun
  <2>2. \A q \in Series : IF q \in Kept THEN Ends(q, poll.id) ELSE history[q] = <<>>
    BY <1>t, <2>1 DEF RingInv
  <2>3. \A q \in Series : FollowsSnapshot(q)'
    BY <2>1, <2>2 DEF FollowsSnapshot, Ends, Newest, Kept
  <2> QED
    BY <2>1, <2>3 DEF RingInv
<1> QED
  BY <1>1, <1>2, <1>3, <1>4, <1>5, <1>6, <1>7, <1>8, <1>9, <1>10
  DEF Next, Record, Shutdown, ReadSnapshot, ReadHistory, ReadHealth, ReadAvailability, shared, vars

\* Types, rings, snapshot, health and what handlers have read are inductive together.
THEOREM CollectorInvariant == Spec => []IInv
<1>1. IInv /\ [Next]_vars => IInv'
  BY TypePreserved, PollPreserved, HealthPreserved, RingPreserved, ReaderPreserved DEF IInv
<1> QED
  BY <1>1, InitOK, PTL DEF Spec

\* Every ring is bounded and in the order of the polls, whatever fails (history.go:25-34).
THEOREM TypeCorrect == Spec => []TypeOK
<1>1. IInv => TypeOK
  BY DEF IInv
<1> QED
  BY <1>1, CollectorInvariant, PTL

\* Except while a poll records, each ring ends with the point of the snapshot on
\* display, and nothing that is gone has one (collector.go:127-144, 167-204).
THEOREM RingsFollow == Spec => []RingsFollowSnapshot
<1>1. IInv => RingsFollowSnapshot
  BY DEF IInv, RingInv, RingsFollowSnapshot
<1> QED
  BY <1>1, CollectorInvariant, PTL

\* The history a handler replies with reaches its snapshot, or its object is gone
\* since; the cluster's is never gone (collector.go:167-204, server.go:128-138).
THEOREM HistoryReachesSnapshot == Spec => []ServedHistoryReachesSnapshot
<1>1. IInv => ServedHistoryReachesSnapshot
  <2> SUFFICES ASSUME IInv, NEW r \in Readers, reader[r].at = "history"
               PROVE  IF history[reader[r].series] = <<>> THEN reader[r].series # "cluster"
                      ELSE Newest(reader[r].series) >= reader[r].updatedAt
    BY DEF ServedHistoryReachesSnapshot
  <2> DEFINE s == reader[r].series
  <2>1. s \in Series /\ reader[r].updatedAt \in Nat /\ snap.updatedAt \in Nat /\ poll.id \in Nat
    BY DEF IInv, TypeOK
  <2>2. snap.ready /\ reader[r].updatedAt <= snap.updatedAt /\ snap.updatedAt <= poll.id
    BY DEF IInv, ReaderInv, PollInv
  <2>3. \/ FollowsSnapshot(s) \/ Ends(s, poll.id)
        \/ history[s] = <<>> /\ s \notin Kept
    BY <2>1 DEF IInv, RingInv
  <2> HIDE DEF s
  <2>4. IF history[s] = <<>> THEN s # "cluster" ELSE Newest(s) >= reader[r].updatedAt
    BY <2>1, <2>2, <2>3 DEF FollowsSnapshot, Ends, Kept
  <2> QED
    BY <2>4 DEF s
<1> QED
  BY <1>1, CollectorInvariant, PTL

\* A ready collector shows what was read within staleAfter and one poll's timeout
\* (collector.go:91, 124, 200-204).
THEOREM ReadyIsRecent == Spec => []ReadyMeansRecentData
<1>1. IInv => ReadyMeansRecentData
  <2> SUFFICES ASSUME IInv, Ready PROVE now - snap.startedAt < StaleAfter + Timeout
    BY DEF ReadyMeansRecentData
  <2>1. snap.ready /\ lastSuccess <= snap.startedAt + Timeout /\ snap.startedAt # Never
    BY DEF IInv, HealthInv, Ready
  <2>2. lastSuccess \in Nat /\ now - lastSuccess < StaleAfter /\ snap.startedAt \in Nat /\ now \in Nat
    BY <2>1 DEF Ready, IInv, TypeOK, Never
  <2> QED
    BY <2>1, <2>2, CollectorAssumption
<1> QED
  BY <1>1, CollectorInvariant, PTL

\* Usage that is said to be available was measured (client.go:134-160, collector.go:146-148).
THEOREM HonestMetrics == Spec => []MetricsFlagIsHonest
<1>1. IInv => MetricsFlagIsHonest
  BY DEF IInv, HealthInv
<1> QED
  BY <1>1, CollectorInvariant, PTL

\* Behind PollsEnd and ShutdownStops: until it has stopped, the poller lets time pass or has
\* a step to make, and a poll is never older than its timeout.  Each disjunct is the
\* guard of an action, but for the end of the clock (collector.go:106-124, 167-204).
PollerGoesOn ==
    /\ InPoll => now <= poll.startedAt + Timeout
    /\ \/ at = "stopped"
       \/ Passive
       \/ at = "waiting" /\ (due \/ (cancelled /\ nextTick # Never))
       \/ at \in Calls /\ CtxDone
       \/ at = "recording" /\ (pending = {} \/ \E s \in Series : MayPush(s))
       \/ at = "publishing"

\* The ticker is made when the first poll is over.
TickerMade == at = "waiting" /\ nextTick = Never => due

\* The poller is never stuck, not between two rings either, whatever fails, hangs or is
\* cancelled, for any number of nodes and services.
THEOREM PollerNeverStuck == Spec => []PollerGoesOn
<1>1. Init => TickerMade
  BY DEF Init, TickerMade
<1>2. IInv /\ TickerMade /\ [Next]_vars => TickerMade'
  <2> SUFFICES ASSUME IInv, TickerMade, [Next]_vars PROVE TickerMade'
    OBVIOUS
  <2> USE CollectorAssumption DEF TickerMade, Never
  <2>1. now \in Nat /\ Interval \in Nat \ {0}
    BY DEF IInv, TypeOK
  <2>2. CASE Tick
    BY <2>1, <2>2 DEF Tick
  <2>3. CASE Shutdown \/ BeginPoll \/ Stop
    BY <2>3 DEF Shutdown, BeginPoll, Stop, clock
  <2>4. CASE Failed \/ Publish
    BY <2>1, <2>4 DEF Failed, Publish, BackToRun
  <2>5. CASE Answered \/ FailedQuietly \/ Prune \/ \E s \in Series : Push(s)
    BY <2>5 DEF Answered, FailedQuietly, Prune, Push, clock, After, Calls
  <2>6. ASSUME NEW r \in Readers,
               \/ \E s \in Series : ReadSnapshot(r, s)
               \/ ReadHistory(r) \/ ReadHealth(r) \/ ReadAvailability(r)
        PROVE  TickerMade'
    BY <2>6 DEF ReadSnapshot, ReadHistory, ReadHealth, ReadAvailability, clock
  <2>7. CASE UNCHANGED vars
    BY <2>7 DEF vars
  <2> QED
    BY <2>2, <2>3, <2>4, <2>5, <2>6, <2>7 DEF Next, Record
<1>3. IInv /\ TickerMade => PollerGoesOn
  <2> SUFFICES ASSUME IInv, TickerMade PROVE PollerGoesOn
    OBVIOUS
  <2>1. InPoll => now <= poll.startedAt + Timeout
    BY DEF IInv, PollInv
  <2>2. at = "recording" => pending = {} \/ \E s \in Series : MayPush(s)
    <3>1. pending \subseteq Series
      BY DEF IInv, TypeOK
    <3>2. CASE "cluster" \in pending
      BY <3>1, <3>2, CollectorAssumption DEF MayPush, Series, Objects
    <3>3. CASE "cluster" \notin pending /\ pending \cap Nodes # {}
      <4>1. PICK s \in pending \cap Nodes : TRUE
        BY <3>3
      <4> QED
        BY <3>1, <3>3, <4>1, CollectorAssumption DEF MayPush, Objects
    <3>4. CASE "cluster" \notin pending /\ pending \cap Nodes = {}
      BY <3>1, <3>4 DEF MayPush
    <3> QED
      BY <3>2, <3>3, <3>4
  <2>3. at = "waiting" => Passive \/ due \/ (cancelled /\ nextTick # Never)
    <3>1. CASE ~due /\ ~cancelled
      BY <3>1 DEF Passive
    <3>2. CASE ~due /\ cancelled
      BY <3>2 DEF TickerMade
    <3> QED
      BY <3>1, <3>2
  <2>4. at \in Calls => Passive \/ CtxDone
    BY DEF Passive
  <2>5. at \in {"waiting", "recording", "publishing", "stopped"} \cup Calls
    BY DEF IInv, TypeOK
  <2> QED
    BY <2>1, <2>2, <2>3, <2>4, <2>5 DEF PollerGoesOn
<1> QED
  BY <1>1, <1>2, <1>3, CollectorInvariant, PTL DEF Spec
==============================================================================
