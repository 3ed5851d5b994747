------------------------- MODULE IntegrationMonitor -------------------------
(***************************************************************************)
(* internal/integrations/monitor.go: the round of connectivity checks.     *)
(*                                                                         *)
(* Run starts a round at once and then at every tick.  A round checks each *)
(* provider in a goroutine of its own, under the timeout of the provider's *)
(* client, waits for all of them and publishes one snapshot, unless the    *)
(* program is ending.                                                      *)
(*                                                                         *)
(* A provider's answer is reduced to what the status tells apart.          *)
(***************************************************************************)
EXTENDS Integers

CONSTANTS
    Providers,  \* the checked systems
    Interval,   \* m.interval, in ticks
    Timeout,    \* of each provider's client
    MaxTime     \* the clock stops here (bounds the runs)

ASSUME MonitorAssumption ==
    Interval \in Nat \ {0} /\ Timeout \in Nat \ {0} /\ MaxTime \in Nat

Never == -1

\* "broken": a bad trust store or endpoint, found before anything is sent.
\* "inspected": the body of the answer says whether the system is unhealthy.
Kinds == {"unconfigured", "broken", "plain", "inspected"}

Errors == {"none", "failed", "timed out", "cancelled"}

Status == [configured: BOOLEAN, reachable: BOOLEAN, degraded: BOOLEAN,
           checkedAt: Nat \cup {Never}, error: Errors]

VARIABLES
    kind,       \* how each provider is configured
    now,        \* time.Now()
    cancelled,  \* the ctx of Run is done
    nextTick,   \* when the ticker fires next; Never until it is started
    due,        \* a tick is waiting in ticker.C, or the first round has not begun
    at,         \* where the goroutine of Run is
    check,      \* where the goroutine of each provider is
    statuses,   \* the results of the round
    snap        \* m.snap

vars == <<kind, now, cancelled, nextTick, due, at, check, statuses, snap>>
clock == <<now, cancelled, nextTick, due>>

Unchecked(p) == [configured |-> kind[p] # "unconfigured", reachable |-> FALSE,
                 degraded |-> FALSE, checkedAt |-> Never, error |-> "none"]

Init ==
    /\ kind \in [Providers -> Kinds]
    /\ now = 0
    /\ cancelled = FALSE
    /\ nextTick = Never
    /\ due = TRUE
    /\ at = "waiting"
    /\ check = [p \in Providers |-> "off"]
    /\ statuses = [p \in Providers |-> Unchecked(p)]
    /\ snap = [updatedAt |-> Never, providers |-> [p \in Providers |-> Unchecked(p)]]

-----------------------------------------------------------------------------
(* Time, and the end of the program.                                        *)

\* (bug) the client has no timeout
NoTimeout(p) == FALSE

TimedOut(p) == now >= statuses[p].checkedAt + Timeout

\* (bug) the request carries neither ctx nor timeout
Uninterrupted(p) == FALSE

\* The call returns, whether the provider answers or not.
Interrupted(p) == cancelled \/ TimedOut(p)

\* Waiting takes time, computing does not.
Passive ==
    \/ at = "waiting" /\ ~due /\ ~cancelled
    \/ /\ at = "checking"
       /\ \A p \in Providers : check[p] # "spawned"
       /\ \E p \in Providers : check[p] = "calling"
       /\ \A p \in Providers : check[p] = "calling" => ~Interrupted(p)

\* A tick nobody has taken yet swallows the next.
Tick ==
    /\ Passive
    /\ now < MaxTime
    /\ now' = now + 1
    /\ IF now' = nextTick THEN due' = TRUE /\ nextTick' = nextTick + Interval
                          ELSE UNCHANGED <<due, nextTick>>
    /\ UNCHANGED <<kind, cancelled, at, check, statuses, snap>>

Shutdown ==
    /\ ~cancelled
    /\ cancelled' = TRUE
    /\ UNCHANGED <<kind, now, nextTick, due, at, check, statuses, snap>>

-----------------------------------------------------------------------------
(* A round.                                                                 *)

\* The clock of a run sees every round time out.
BeginRound ==
    /\ at = "waiting" /\ due
    /\ now + Timeout <= MaxTime
    /\ due' = FALSE
    /\ at' = "checking"
    /\ check' = [p \in Providers |-> "spawned"]
    /\ statuses' = [p \in Providers |-> Unchecked(p)]
    /\ UNCHANGED <<kind, now, cancelled, nextTick, snap>>

\* (bug) an error does not end the check
FailedButReached(s, e) == [s EXCEPT !.error = e, !.reachable = TRUE]

Failed(s, e) == [s EXCEPT !.error = e]
Reached(s, unhealthy) == [s EXCEPT !.reachable = TRUE, !.degraded = unhealthy]

StartCheck(p) ==
    /\ at = "checking" /\ check[p] = "spawned"
    /\ LET started == [statuses[p] EXCEPT !.checkedAt = now]
       IN CASE kind[p] = "unconfigured" ->
                 check' = [check EXCEPT ![p] = "done"] /\ UNCHANGED statuses
            [] kind[p] = "broken" ->
                 /\ check' = [check EXCEPT ![p] = "done"]
                 /\ statuses' = [statuses EXCEPT ![p] = Failed(started, "failed")]
            [] OTHER ->
                 /\ check' = [check EXCEPT ![p] = "calling"]
                 /\ statuses' = [statuses EXCEPT ![p] = started]
    /\ UNCHANGED <<kind, clock, at, snap>>

\* An answer in time; a healthy, an unhealthy or an unintelligible body.
Answers(p) ==
    {Reached(statuses[p], FALSE), Failed(statuses[p], "failed")}
      \cup (IF kind[p] = "inspected" THEN {Reached(statuses[p], TRUE)} ELSE {})

\* Cut short before the answer, or while the body of a good or bad one is read:
\* that error is dropped.
CutShort(p, why) ==
    {Failed(statuses[p], why), Failed(statuses[p], "failed"), Reached(statuses[p], FALSE)}

Outcomes(p) ==
    (IF TimedOut(p) THEN CutShort(p, "timed out") ELSE Answers(p))
      \cup (IF cancelled THEN CutShort(p, "cancelled") ELSE {})

EndCheck(p) ==
    /\ check[p] = "calling"
    /\ \E s \in Outcomes(p) : statuses' = [statuses EXCEPT ![p] = s]
    /\ check' = [check EXCEPT ![p] = "done"]
    /\ UNCHANGED <<kind, clock, at, snap>>

\* (bug) the round goes on at the first result
FirstDone == \E p \in Providers : check[p] = "done"

AllDone == \A p \in Providers : check[p] = "done"

\* The first round is over before the ticker is made.
BackToRun ==
    /\ at' = "waiting"
    /\ nextTick' = IF nextTick = Never THEN now + Interval ELSE nextTick

\* (bug) the round does not look at ctx again
NoMatter == FALSE

\* ctx.Err() after wg.Wait
RoundCancelled == cancelled

Gather ==
    /\ at = "checking" /\ AllDone
    /\ IF RoundCancelled THEN BackToRun ELSE at' = "publishing" /\ UNCHANGED nextTick
    /\ UNCHANGED <<kind, now, cancelled, due, check, statuses, snap>>

Publish ==
    /\ at = "publishing"
    /\ snap' = [updatedAt |-> now, providers |-> statuses]
    /\ BackToRun
    /\ UNCHANGED <<kind, now, cancelled, due, check, statuses>>

\* The select may take a waiting tick before it sees that ctx is done.
Stop ==
    /\ at = "waiting" /\ cancelled
    /\ nextTick # Never
    /\ at' = "stopped"
    /\ UNCHANGED <<kind, clock, check, statuses, snap>>

-----------------------------------------------------------------------------
Next ==
    \/ Tick \/ Shutdown
    \/ BeginRound \/ Gather \/ Publish \/ Stop
    \/ \E p \in Providers : StartCheck(p) \/ EndCheck(p)

Spec == Init /\ [][Next]_vars

\* A provider may never answer: a check is sure to end only when it is interrupted.
Fairness ==
    /\ WF_vars(Tick) /\ WF_vars(BeginRound) /\ WF_vars(Gather \/ Publish) /\ WF_vars(Stop)
    /\ \A p \in Providers : WF_vars(StartCheck(p)) /\ WF_vars(Interrupted(p) /\ EndCheck(p))

FairSpec == Spec /\ Fairness

-----------------------------------------------------------------------------
(* Properties.                                                              *)

\* A status has no error of a system it reached.
Coherent(p, s) ==
    /\ s.configured <=> kind[p] # "unconfigured"
    /\ s.reachable => s.configured /\ s.error = "none"
    /\ s.degraded => s.reachable

\* Type invariant.
TypeOK ==
    /\ kind \in [Providers -> Kinds]
    /\ now \in Nat /\ nextTick \in Nat \cup {Never}
    /\ cancelled \in BOOLEAN /\ due \in BOOLEAN
    /\ at \in {"waiting", "checking", "publishing", "stopped"}
    /\ check \in [Providers -> {"off", "spawned", "calling", "done"}]
    /\ statuses \in [Providers -> Status]
    /\ snap \in [updatedAt: Nat \cup {Never}, providers: [Providers -> Status]]
    /\ \A p \in Providers : Coherent(p, statuses[p]) /\ Coherent(p, snap.providers[p])

\* The end of the program is never shown as an outage: no published status is that
\* of a check cut short by the shutdown (monitor.go:300-305).
ShutdownIsNoOutage ==
    \A p \in Providers : snap.providers[p].error # "cancelled"

\* What a round that began at t has found of p: a system that is checked has a verdict.
Verdict(p, s, t) ==
    IF kind[p] = "unconfigured" THEN s = Unchecked(p)
    ELSE s.checkedAt = t /\ (s.reachable \/ s.error # "none")

\* A snapshot is the work of one whole round: each configured provider has a
\* verdict in it, no two verdicts come from different rounds (the goroutines of a
\* round start within one tick), and none is older than one timeout when it is
\* published (monitor.go:288-311).
SnapshotIsOneRound ==
    snap.updatedAt # Never => \E t \in (snap.updatedAt - Timeout)..snap.updatedAt :
      \A p \in Providers : Verdict(p, snap.providers[p], t)

\* A provider that hangs does not freeze the status of the others for longer than
\* its timeout: the snapshot is never older than an interval and a timeout, as
\* long as the program runs (monitor.go:271-311).
StatusesStayFresh ==
    ~cancelled /\ snap.updatedAt # Never => now - snap.updatedAt <= Interval + Timeout

\* Once the program is told to stop, so does the monitor, whatever the providers
\* do (monitor.go:276-283, 337, 355).
MonitorStops == cancelled ~> at = "stopped"

-----------------------------------------------------------------------------
(* The inductive invariant behind the safety properties.                    *)

\* The ticker is made after the first round, and its next tick is at most an
\* interval away.
ClockInv ==
    /\ IF nextTick = Never
         THEN snap.updatedAt = Never /\ at # "stopped" /\ (at = "waiting" => due)
         ELSE now < nextTick /\ nextTick <= now + Interval
    /\ at = "stopped" => cancelled
    /\ snap.updatedAt <= now

\* Only a check that saw the end of the program says "cancelled", and none of a
\* round that is published.
CancelInv ==
    \A p \in Providers :
      /\ statuses[p].error = "cancelled" => cancelled /\ at # "publishing"
      /\ snap.providers[p].error # "cancelled"

\* The goroutines of a round that began at t; no time passes before all have started.
RoundOf(t) ==
    /\ now <= t + Timeout
    /\ \A p \in Providers :
         /\ check[p] = "spawned" => t = now /\ statuses[p] = Unchecked(p)
         /\ check[p] = "calling" =>
              /\ kind[p] \in {"plain", "inspected"}
              /\ statuses[p] = [Unchecked(p) EXCEPT !.checkedAt = t]
         /\ check[p] = "done" => Verdict(p, statuses[p], t)

\* Waiting for a tick, or in a round that began within an interval of the snapshot.
DueInTime(t) == ~cancelled /\ snap.updatedAt # Never => t <= snap.updatedAt + Interval

RoundInv ==
    CASE at = "checking" ->
           /\ \A p \in Providers : check[p] # "off"
           /\ \E t \in 0..now : RoundOf(t) /\ DueInTime(t)
      [] at = "publishing" -> AllDone /\ \E t \in 0..now : RoundOf(t) /\ DueInTime(t)
      [] OTHER ->
           /\ \A p \in Providers : check[p] \in {"off", "done"}
           /\ DueInTime(IF due THEN now ELSE nextTick)

IInv == TypeOK /\ ClockInv /\ CancelInv /\ RoundInv /\ SnapshotIsOneRound
=============================================================================
