---------------------------- MODULE ReportCache ----------------------------
(***************************************************************************)
(* internal/servicehealth/cache.go: the cache of service-health reports.   *)
(*                                                                         *)
(* Every request for a report runs reportCache.do on one goroutine.  A     *)
(* request finds a live entry, or waits on the flight (the evaluation in   *)
(* progress) of its key, or registers a flight of its own, evaluates       *)
(* without holding the lock, closes the flight's done channel and then     *)
(* takes the lock again to retire the flight and to store the report.      *)
(*                                                                         *)
(* A critical section of mu is one action.  The evaluation is opaque here  *)
(* (module EvaluationPool opens it): it ends with one of the outcomes that *)
(* the code tells apart.                                                   *)
(***************************************************************************)
EXTENDS Integers, FiniteSets

CONSTANTS
    Callers,     \* goroutines that run do, one call at a time
    Keys,        \* "namespace/name@window"
    Flights,     \* evaluations a behaviour may start (bounds the runs)
    None,        \* no flight
    TTLs,        \* the values of c.ttl, in ticks; a negative one switches the cache off
    MaxEntries,  \* c.maxEntries
    MaxTime      \* the clock stops here (bounds the runs)

ASSUME CacheAssumption ==
    /\ IsFiniteSet(Keys)
    /\ None \notin Flights
    /\ TTLs \subseteq Int
    /\ MaxEntries \in Nat \ {0}
    /\ MaxTime \in Nat

VARIABLES
    ttl,       \* c.ttl, set once by newReportCache
    now,       \* time.Now()
    entries,   \* c.entries: a partial function from Keys
    inflight,  \* c.inflight: the flight of each key, or None
    flights,   \* every flight object, with the history of its publication
    pc,        \* where each caller is in do
    ask,       \* the key of its call
    on,        \* the flight it leads or waits on
    gone,      \* its ctx has been cancelled
    answer     \* what its last call returned

vars == <<ttl, now, entries, inflight, flights, pc, ask, on, gone, answer>>

(***************************************************************************)
(* "report" is a nil error: the report is complete, or some of its signals *)
(* carry an error of their own, which do cannot see.  "aborted" is also a  *)
(* nil error: evaluate turns a cancelled ctx into errored signals.         *)
(* "error" is ErrPrometheusNotConfigured, "cancelled" the ctx.Err() of a   *)
(* caller that stopped waiting.                                            *)
(***************************************************************************)
Outcomes == {"report", "aborted", "error"}
NilError(o) == o # "error"

Flight == [key: Keys, stage: {"unused", "running", "done"},
           outcome: Outcomes \cup {"none"}, publishedAt: Nat \cup {-1}]

Answer == [how: {"none", "hit", "joined", "led", "direct", "gave up"},
           outcome: Outcomes \cup {"none", "cancelled"},
           flight: Flights \cup {None}]

NoAnswer == [how |-> "none", outcome |-> "none", flight |-> None]

Init ==
    /\ ttl \in TTLs
    /\ now = 0
    /\ entries = [k \in {} |-> None]
    /\ inflight = [k \in Keys |-> None]
    /\ \E k \in Keys :
         flights = [f \in Flights |-> [key |-> k, stage |-> "unused",
                                       outcome |-> "none", publishedAt |-> -1]]
    /\ pc = [c \in Callers |-> "idle"]
    /\ \E k \in Keys : ask = [c \in Callers |-> k]
    /\ on = [c \in Callers |-> None]
    /\ gone = [c \in Callers |-> FALSE]
    /\ answer = [c \in Callers |-> NoAnswer]

Unused == {f \in Flights : flights[f].stage = "unused"}

-----------------------------------------------------------------------------
(* The environment: requests arrive, clients disconnect, time passes.       *)

\* A request for the report of k.  Flights bounds the evaluations of a run:
\* a request arrives only while there is a flight left for it to lead.
Arrive(c, k) ==
    /\ pc[c] = "idle"
    /\ Cardinality({d \in Callers : pc[d] = "arrived"}) < Cardinality(Unused)
    /\ pc' = [pc EXCEPT ![c] = "arrived"]
    /\ ask' = [ask EXCEPT ![c] = k]
    /\ gone' = [gone EXCEPT ![c] = FALSE]
    /\ answer' = [answer EXCEPT ![c] = NoAnswer]
    /\ UNCHANGED <<ttl, now, entries, inflight, flights, on>>

Disconnect(c) ==
    /\ pc[c] # "idle"
    /\ ~gone[c]
    /\ gone' = [gone EXCEPT ![c] = TRUE]
    /\ UNCHANGED <<ttl, now, entries, inflight, flights, pc, ask, on, answer>>

Tick ==
    /\ now < MaxTime
    /\ now' = now + 1
    /\ UNCHANGED <<ttl, entries, inflight, flights, pc, ask, on, gone, answer>>

-----------------------------------------------------------------------------
(* The first critical section: hit, join or lead.                           *)

Return(c, how, outcome, f) ==
    /\ pc' = [pc EXCEPT ![c] = "idle"]
    /\ on' = [on EXCEPT ![c] = None]
    /\ answer' = [answer EXCEPT ![c] = [how |-> how, outcome |-> outcome, flight |-> f]]

\* (bugs) the expiry is not looked at; a report is refreshed a tick too early
LiveForEver(k) == k \in DOMAIN entries
LiveButForTheLastTick(k) == k \in DOMAIN entries /\ now + 1 < entries[k].expires

\* time.Now().Before(entry.expires)
Live(k) == k \in DOMAIN entries /\ now < entries[k].expires

\* ttl < 0 bypasses the cache.
Cached == ttl >= 0

Hit(c) ==
    /\ pc[c] = "arrived" /\ Cached
    /\ Live(ask[c])
    /\ LET f == entries[ask[c]].report IN Return(c, "hit", flights[f].outcome, f)
    /\ UNCHANGED <<ttl, now, entries, inflight, flights, ask, gone>>

\* (bug) the inflight map is not consulted
NeverJoinable(k) == FALSE

\* An existing flight is joined whatever its progress, done included.
Joinable(k) == inflight[k] # None

Join(c) ==
    /\ pc[c] = "arrived" /\ Cached
    /\ ~Live(ask[c])
    /\ Joinable(ask[c])
    /\ pc' = [pc EXCEPT ![c] = "waiting"]
    /\ on' = [on EXCEPT ![c] = inflight[ask[c]]]
    /\ UNCHANGED <<ttl, now, entries, inflight, flights, ask, gone, answer>>

Start(c, f) ==
    /\ flights' = [flights EXCEPT ![f].key = ask[c], ![f].stage = "running"]
    /\ on' = [on EXCEPT ![c] = f]

Lead(c) ==
    /\ pc[c] = "arrived" /\ Cached
    /\ ~Live(ask[c])
    /\ ~Joinable(ask[c])
    /\ \E f \in Unused :
         /\ Start(c, f)
         /\ inflight' = [inflight EXCEPT ![ask[c]] = f]
    /\ pc' = [pc EXCEPT ![c] = "leading"]
    /\ UNCHANGED <<ttl, now, entries, ask, gone, answer>>

\* A negative ttl: evaluate in the caller's own ctx, shared with nobody.
Direct(c) ==
    /\ pc[c] = "arrived" /\ ~Cached
    /\ \E f \in Unused : Start(c, f)
    /\ pc' = [pc EXCEPT ![c] = "direct"]
    /\ UNCHANGED <<ttl, now, entries, inflight, ask, gone, answer>>

-----------------------------------------------------------------------------
(* The evaluation and the second critical section.                          *)

\* (bug) the flight inherits its leader's ctx
LeaderCtxDone(c) == gone[c]

\* context.WithoutCancel: the ctx of a flight is never done.
FlightCtxDone(c) == FALSE

EvaluateOutcomes(ctxDone) ==
    {"report", "error"} \cup (IF ctxDone THEN {"aborted"} ELSE {})

\* (bug) an evaluation that failed does not close the done channel
FinishOnSuccess(f, o) ==
    flights' = [flights EXCEPT ![f].stage = IF NilError(o) THEN "done" ELSE @, ![f].outcome = o]

Finish(f, o) == flights' = [flights EXCEPT ![f].stage = "done", ![f].outcome = o]

\* f.report, f.err are set and close(f.done) wakes the waiters.
Evaluated(c) ==
    /\ pc[c] = "leading"
    /\ \E o \in EvaluateOutcomes(FlightCtxDone(c)) : Finish(on[c], o)
    /\ pc' = [pc EXCEPT ![c] = "closing"]
    /\ UNCHANGED <<ttl, now, entries, inflight, ask, on, gone, answer>>

DirectEvaluated(c) ==
    /\ pc[c] = "direct"
    /\ \E o \in EvaluateOutcomes(gone[c]) :
         Finish(on[c], o) /\ Return(c, "direct", o, on[c])
    /\ UNCHANGED <<ttl, now, entries, inflight, ask, gone>>

\* evictLocked: the keys that may be left.  Go's map order breaks the ties
\* between equal expiries, so there may be several such sets.
Unexpired == {k \in DOMAIN entries : ~(now > entries[k].expires)}

\* (bug) the youngest report is dropped first
SurvivorsOldest ==
    IF Cardinality(DOMAIN entries) < MaxEntries THEN {DOMAIN entries}
    ELSE {K \in SUBSET DOMAIN entries :
            /\ Cardinality(K) = MaxEntries - 1
            /\ \A k \in K, d \in DOMAIN entries \ K : entries[k].expires <= entries[d].expires}

Survivors ==
    IF Cardinality(DOMAIN entries) < MaxEntries THEN {DOMAIN entries}
    ELSE IF Cardinality(Unexpired) < MaxEntries THEN {Unexpired}
    ELSE {K \in SUBSET Unexpired :
            /\ Cardinality(K) = MaxEntries - 1
            /\ \A k \in K, d \in Unexpired \ K : entries[d].expires <= entries[k].expires}

\* (bug) the expiry is counted from a clock that is a tick ahead
StoreTooLong(k, f) ==
    \E K \in Survivors :
      entries' = [x \in K \cup {k} |->
                    IF x = k THEN [report |-> f, expires |-> now + ttl + 1] ELSE entries[x]]

Store(k, f) ==
    \E K \in Survivors :
      entries' = [x \in K \cup {k} |->
                    IF x = k THEN [report |-> f, expires |-> now + ttl] ELSE entries[x]]

\* (bug) a flight that failed is left in the inflight map
RetireOnSuccess(c) ==
    inflight' = IF NilError(flights[on[c]].outcome) THEN [inflight EXCEPT ![ask[c]] = None] ELSE inflight

Retire(c) == inflight' = [inflight EXCEPT ![ask[c]] = None]

Publish(c) ==
    /\ pc[c] = "closing"
    /\ LET f == on[c]
           o == flights[f].outcome IN
         /\ Retire(c)
         /\ IF NilError(o)
              THEN /\ Store(ask[c], f)
                   /\ flights' = [flights EXCEPT ![f].publishedAt = now]
              ELSE UNCHANGED <<entries, flights>>
         /\ Return(c, "led", o, f)
    /\ UNCHANGED <<ttl, now, ask, gone>>

-----------------------------------------------------------------------------
(* A waiter: select on the flight's done channel and on its own ctx.        *)

\* (bug) a waiter does not wait
NotWaitedFor(f) == TRUE

FlightDone(f) == flights[f].stage = "done"

WaitDone(c) ==
    /\ pc[c] = "waiting"
    /\ FlightDone(on[c])
    /\ Return(c, "joined", flights[on[c]].outcome, on[c])
    /\ UNCHANGED <<ttl, now, entries, inflight, flights, ask, gone>>

\* (bug) a waiter ignores its own ctx
NoGiveUp(c) == FALSE /\ UNCHANGED vars

GiveUp(c) ==
    /\ pc[c] = "waiting"
    /\ gone[c]
    /\ Return(c, "gave up", "cancelled", None)
    /\ UNCHANGED <<ttl, now, entries, inflight, flights, ask, gone>>

-----------------------------------------------------------------------------
Lookup(c) == Hit(c) \/ Join(c) \/ Lead(c) \/ Direct(c)
Evaluate(c) == Evaluated(c) \/ DirectEvaluated(c)
Proceed(c) == Lookup(c) \/ Publish(c) \/ WaitDone(c) \/ GiveUp(c)

Next ==
    \/ \E c \in Callers :
         \/ \E k \in Keys : Arrive(c, k)
         \/ Disconnect(c)
         \/ Proceed(c)
         \/ Evaluate(c)
    \/ Tick

Spec == Init /\ [][Next]_vars

\* The Go scheduler runs every goroutine that can run.
RunnableFairness == \A c \in Callers : WF_vars(Proceed(c))

\* Every Prometheus call carries the client's own timeout, so an evaluation ends.
EvaluationFairness == \A c \in Callers : WF_vars(Evaluate(c))

\* Prometheus may keep an evaluation waiting for ever: no fairness for Evaluate.
StalledSpec == Spec /\ RunnableFairness

-----------------------------------------------------------------------------
(* Properties.                                                              *)

\* Type invariant: the state of cache.go's structures and of its callers.
TypeOK ==
    /\ ttl \in TTLs
    /\ now \in Nat
    /\ DOMAIN entries \subseteq Keys
    /\ \A k \in DOMAIN entries : entries[k] \in [report: Flights, expires: Int]
    /\ inflight \in [Keys -> Flights \cup {None}]
    /\ flights \in [Flights -> Flight]
    /\ pc \in [Callers -> {"idle", "arrived", "waiting", "leading", "closing", "direct"}]
    /\ ask \in [Callers -> Keys]
    /\ on \in [Callers -> Flights \cup {None}]
    /\ \A c \in Callers : on[c] = None <=> pc[c] \in {"idle", "arrived"}
    /\ gone \in [Callers -> BOOLEAN]
    /\ answer \in [Callers -> Answer]

\* With the cache on, two evaluations of one key never run at the same time
\* (cache.go:56-74, 79-83), although the lock is free while they run.
OneEvaluationPerKey ==
    Cached => \A f, g \in Flights :
      /\ flights[f].stage = "running"
      /\ flights[g].stage = "running"
      /\ flights[f].key = flights[g].key
      => f = g

\* A flight stays in the inflight map only while its leader is still on its
\* way to remove it (cache.go:80-83): no key is left with a flight that nobody
\* will retire, so no failure is replayed to the requests that come later.
NoOrphanFlight ==
    \A k \in Keys : inflight[k] # None =>
      \E c \in Callers :
        on[c] = inflight[k] /\ ask[c] = k /\ pc[c] \in {"leading", "closing"}

\* What do returns, other than a caller's own ctx.Err(), is the finished
\* outcome of an evaluation of the key that was asked; an entry never serves an
\* error (cache.go:56-66, 84-90).
AnswersAreFinishedEvaluations ==
    \A c \in Callers : answer[c].flight # None =>
      LET f == flights[answer[c].flight] IN
        /\ f.stage = "done"
        /\ f.key = ask[c]
        /\ f.outcome = answer[c].outcome
        /\ answer[c].how = "hit" => NilError(f.outcome) /\ f.publishedAt >= 0

\* A client that disconnects spoils nobody else's answer (cache.go:66-69,
\* 76-79): a caller sees a cancellation only if its own ctx was cancelled.
OnlyOwnCancellation ==
    \A c \in Callers : answer[c].outcome \in {"cancelled", "aborted"} => gone[c]

\* The map never holds more than maxEntries reports (cache.go:97-120).
Bounded == Cardinality(DOMAIN entries) <= MaxEntries

\* A report is handed out from the map only within ttl of its publication
\* (cache.go:56, 86).
HitsAreFresh ==
    [][\A c \in Callers :
         answer'[c] # answer[c] /\ answer'[c].how = "hit"
           => now < flights[answer'[c].flight].publishedAt + ttl]_vars

\* evictLocked drops a report that is still live only when the live reports
\* alone fill the map, and then never one that outlives a report it keeps
\* (cache.go:97-120).
EvictsOldestAndOnlyWhenFull ==
    [][\A k \in DOMAIN entries \ DOMAIN entries' : now < entries[k].expires =>
         /\ Cardinality(DOMAIN entries') = MaxEntries
         /\ \A x \in DOMAIN entries' \cap DOMAIN entries :
              entries'[x] = entries[x] => entries[k].expires <= entries[x].expires]_vars

\* The purpose of the cache: as long as the keys fit in the map, a key whose
\* report was published less than ttl ago is not evaluated again (cache.go:56-73,
\* 82-88).
NoEarlyReevaluation ==
    [][\A f, g \in Flights :
         /\ flights[f].stage = "unused" /\ flights'[f].stage = "running"
         /\ flights[g].publishedAt >= 0
         /\ flights[g].key = flights'[f].key
         => now >= flights[g].publishedAt + ttl]_vars

\* If evaluations end then every call returns, whoever disconnects meanwhile
\* (cache.go:61-90).
EveryCallReturns ==
    EvaluationFairness => \A c \in Callers : pc[c] # "idle" ~> pc[c] = "idle"

\* A waiter that gave up returns even if Prometheus never answers (cache.go:66-69).
CancelledWaiterReturns ==
    \A c \in Callers : pc[c] = "waiting" /\ gone[c] ~> pc[c] = "idle"

-----------------------------------------------------------------------------
(* The inductive invariant behind the safety properties.                    *)

Leads(c) == pc[c] \in {"leading", "closing"}
Owns(c) == Leads(c) \/ pc[c] = "direct"

\* Flights are joined and led only with the cache on, run directly only with it off.
ModeInv ==
    \A c \in Callers :
      /\ pc[c] \in {"waiting", "leading", "closing"} => Cached
      /\ pc[c] = "direct" => ~Cached

\* A flight and its owner agree on the key and on the progress.
OwnersKnowTheirFlight ==
    \A c \in Callers : Owns(c) =>
      /\ flights[on[c]].key = ask[c]
      /\ flights[on[c]].stage = IF pc[c] = "closing" THEN "done" ELSE "running"

LeadersHoldTheirKey == \A c \in Callers : Leads(c) => inflight[ask[c]] = on[c]

OneOwner == \A c, d \in Callers : Owns(c) /\ Owns(d) /\ on[c] = on[d] => c = d

RunningIsOwned ==
    \A f \in Flights : flights[f].stage = "running" => \E c \in Callers : Owns(c) /\ on[c] = f

OwnerInv ==
    ModeInv /\ OwnersKnowTheirFlight /\ LeadersHoldTheirKey /\ OneOwner /\ RunningIsOwned /\ NoOrphanFlight

\* A flight has an outcome once it is done; with the cache on, never "aborted".
OutcomesKnown ==
    \A f \in Flights :
      IF flights[f].stage = "done"
        THEN flights[f].outcome \in Outcomes /\ (flights[f].outcome = "aborted" => ~Cached)
        ELSE flights[f].outcome = "none" /\ flights[f].publishedAt = -1

WaitersWantTheirFlight ==
    \A c \in Callers : pc[c] = "waiting" =>
      flights[on[c]].key = ask[c] /\ flights[on[c]].stage # "unused"

\* An entry holds a published report of its key, for ttl after its publication.
EntriesPublished ==
    \A k \in DOMAIN entries :
      LET f == flights[entries[k].report] IN
        /\ Cached
        /\ f.key = k /\ f.stage = "done" /\ NilError(f.outcome)
        /\ f.publishedAt >= 0 /\ entries[k].expires = f.publishedAt + ttl

ReportInv ==
    OutcomesKnown /\ WaitersWantTheirFlight /\ EntriesPublished
      /\ AnswersAreFinishedEvaluations /\ OnlyOwnCancellation

\* A key that is being evaluated has no live entry, and no report is from the future:
\* so what is published never displaces a younger report.
LeadersKeyIsNotLive == \A c \in Callers : Leads(c) => ~Live(ask[c])
PublishedInThePast == \A f \in Flights : flights[f].publishedAt <= now

AgeInv == LeadersKeyIsNotLive /\ PublishedInThePast

IInv == TypeOK /\ OwnerInv /\ ReportInv /\ Bounded /\ AgeInv

\* Behind NoEarlyReevaluation, for keys that fit in the map: a report younger than
\* ttl has an entry at least as young.
FreshReportsKept ==
    \A g \in Flights :
      flights[g].publishedAt >= 0 /\ now < flights[g].publishedAt + ttl =>
        /\ flights[g].key \in DOMAIN entries
        /\ entries[flights[g].key].expires >= flights[g].publishedAt + ttl
=============================================================================
