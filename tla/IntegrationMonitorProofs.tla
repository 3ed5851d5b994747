----------------------- MODULE IntegrationMonitorProofs -----------------------
(* Proofs about IntegrationMonitor: what a published snapshot says, for any      *)
(* providers, interval and timeout.                                              *)
EXTENDS IntegrationMonitor, TLAPS

\* A goroutine of a round that has not been heard of yet.
LEMMA UncheckedType == ASSUME TypeOK, NEW p \in Providers PROVE Unchecked(p) \in Status
  BY DEF TypeOK, Unchecked, Status, Errors

\* Monitor construction: nothing is checked, the first round is due.
LEMMA InitOK == Init => IInv
<1> SUFFICES ASSUME Init PROVE IInv
  OBVIOUS
<1> USE MonitorAssumption DEF Init, Never
<1>1. TypeOK
  <2>1. \A p \in Providers : Unchecked(p) \in Status
    BY DEF Unchecked, Status, Errors
  <2>2. \A p \in Providers : statuses[p] = Unchecked(p) /\ snap.providers[p] = Unchecked(p)
    OBVIOUS
  <2>3. \A p \in Providers : Coherent(p, Unchecked(p))
    BY DEF Unchecked, Coherent
  <2>4. statuses \in [Providers -> Status]
        /\ snap \in [updatedAt: Nat \cup {Never}, providers: [Providers -> Status]]
    BY <2>1
  <2> QED
    BY <2>2, <2>3, <2>4 DEF TypeOK
<1>2. ClockInv /\ CancelInv /\ SnapshotIsOneRound
  BY DEF ClockInv, CancelInv, SnapshotIsOneRound, Unchecked
<1>3. RoundInv
  BY DEF RoundInv, DueInTime
<1> QED
  BY <1>1, <1>2, <1>3 DEF IInv

\* A status a check may end with: of the same system, reached or with an error.
LEMMA OutcomeIsVerdict ==
  ASSUME TypeOK, NEW p \in Providers, kind[p] \in {"plain", "inspected"},
         ~statuses[p].reachable, statuses[p].error = "none", NEW s \in Outcomes(p)
  PROVE  /\ s \in Status /\ s.configured
         /\ s.checkedAt = statuses[p].checkedAt
         /\ s.reachable \/ s.error # "none"
         /\ s.reachable => s.error = "none"
         /\ s.degraded => s.reachable
         /\ s.error = "cancelled" => cancelled
<1> DEFINE Good(r) == /\ r \in Status /\ r.configured
                      /\ r.checkedAt = statuses[p].checkedAt
                      /\ r.reachable => r.error = "none"
                      /\ r.degraded => r.reachable
<1>1. statuses[p] \in Status /\ statuses[p].configured /\ ~statuses[p].degraded
  BY DEF TypeOK, Coherent
<1>r. ASSUME NEW b \in BOOLEAN
      PROVE /\ Good(Reached(statuses[p], b)) /\ Reached(statuses[p], b).reachable
            /\ Reached(statuses[p], b).error = "none"
  BY <1>1 DEF Reached, Status
<1>f. ASSUME NEW e \in {"failed", "timed out", "cancelled"}
      PROVE Good(Failed(statuses[p], e)) /\ Failed(statuses[p], e).error = e
  BY <1>1 DEF Failed, Status, Errors
<1>c. ASSUME NEW why \in {"timed out", "cancelled"}, s \in CutShort(p, why)
      PROVE /\ Good(s) /\ (s.reachable \/ s.error # "none")
            /\ s.error = "cancelled" => why = "cancelled"
  BY <1>c, <1>r, <1>f DEF CutShort
<1>a. ASSUME s \in Answers(p)
      PROVE Good(s) /\ (s.reachable \/ s.error # "none") /\ s.error # "cancelled"
  <2>1. s \in {Reached(statuses[p], FALSE), Failed(statuses[p], "failed"),
               Reached(statuses[p], TRUE)}
    BY <1>a DEF Answers
  <2> QED
    BY <2>1, <1>r, <1>f
<1>2. \/ s \in Answers(p) \/ s \in CutShort(p, "timed out")
      \/ cancelled /\ s \in CutShort(p, "cancelled")
  BY DEF Outcomes
<1> QED
  BY <1>2, <1>a, <1>c

\* The types and the statuses, when a step changes no status and publishes nothing.
LEMMA TypeFrame ==
  ASSUME TypeOK, UNCHANGED <<kind, statuses, snap>>,
         now' \in Nat, nextTick' \in Nat \cup {Never}, cancelled' \in BOOLEAN, due' \in BOOLEAN,
         at' \in {"waiting", "checking", "publishing", "stopped"},
         check' \in [Providers -> {"off", "spawned", "calling", "done"}]
  PROVE  TypeOK'
  BY DEF TypeOK, Coherent

\* The types and the statuses, when one goroutine writes its own status.
LEMMA OneStatus ==
  ASSUME TypeOK, NEW p \in Providers, NEW s \in Status, Coherent(p, s),
         statuses' = [statuses EXCEPT ![p] = s],
         \E c \in {"calling", "done"} : check' = [check EXCEPT ![p] = c],
         UNCHANGED <<kind, now, cancelled, nextTick, due, at, snap>>
  PROVE  TypeOK'
<1>1. statuses' \in [Providers -> Status]
      /\ check' \in [Providers -> {"off", "spawned", "calling", "done"}]
  BY DEF TypeOK
<1>2. \A q \in Providers : Coherent(q, statuses[q])'
  BY DEF TypeOK, Coherent
<1>3. \A q \in Providers : Coherent(q, snap.providers[q])'
  BY DEF TypeOK, Coherent
<1> QED
  BY <1>1, <1>2, <1>3 DEF TypeOK

\* What the start of a check makes of its provider: s.
Starts(p, s) ==
  /\ Coherent(p, s)
  /\ statuses' = [statuses EXCEPT ![p] = s]
  /\ \/ /\ kind[p] \in {"plain", "inspected"}
        /\ check' = [check EXCEPT ![p] = "calling"]
        /\ s = [Unchecked(p) EXCEPT !.checkedAt = now]
     \/ check' = [check EXCEPT ![p] = "done"] /\ Verdict(p, s, now)
  /\ s.error # "cancelled"

LEMMA CheckStarts ==
  ASSUME IInv, NEW p \in Providers, StartCheck(p)
  PROVE  \E s \in Status : Starts(p, s)
<1>1. at = "checking" /\ check[p] = "spawned"
  BY DEF StartCheck
<1>2. statuses[p] = Unchecked(p)
  BY <1>1 DEF IInv, RoundInv, RoundOf
<1>3. TypeOK /\ Unchecked(p) \in Status
  BY UncheckedType DEF IInv
<1> DEFINE started == [Unchecked(p) EXCEPT !.checkedAt = now]
<1>4. started \in Status /\ started.checkedAt = now /\ started.error = "none"
      /\ started.configured = Unchecked(p).configured /\ ~started.reachable /\ ~started.degraded
  BY <1>3 DEF TypeOK, Status, Unchecked
<1>5. Failed(started, "failed") \in Status /\ Failed(started, "failed").error = "failed"
      /\ Failed(started, "failed").checkedAt = now /\ Coherent(p, Failed(started, "failed"))
  BY <1>3, <1>4 DEF Failed, Status, Errors, Coherent, Unchecked
<1>6. Coherent(p, started) /\ Coherent(p, Unchecked(p)) /\ Unchecked(p).error = "none"
  BY <1>4 DEF Coherent, Unchecked
<1>7. CASE kind[p] = "unconfigured"
  <2>1. check' = [check EXCEPT ![p] = "done"] /\ statuses' = statuses
    BY <1>7 DEF StartCheck
  <2>2. statuses' = [statuses EXCEPT ![p] = Unchecked(p)]
    BY <1>2, <1>3, <2>1 DEF TypeOK
  <2> QED
    BY <1>3, <1>6, <1>7, <2>1, <2>2 DEF Starts, Verdict
<1>8. CASE kind[p] = "broken"
  <2>1. check' = [check EXCEPT ![p] = "done"]
        /\ statuses' = [statuses EXCEPT ![p] = Failed(started, "failed")]
    BY <1>2, <1>8 DEF StartCheck
  <2> QED
    BY <1>5, <1>8, <2>1 DEF Starts, Verdict
<1>9. CASE kind[p] \in {"plain", "inspected"}
  <2>1. check' = [check EXCEPT ![p] = "calling"] /\ statuses' = [statuses EXCEPT ![p] = started]
    BY <1>2, <1>9 DEF StartCheck
  <2> QED
    BY <1>4, <1>6, <1>9, <2>1 DEF Starts
<1> QED
  BY <1>3, <1>7, <1>8, <1>9 DEF TypeOK, Kinds

\* What the end of a check makes of its provider: s, the verdict of the round.
Ends(p, s) ==
  /\ Coherent(p, s)
  /\ statuses' = [statuses EXCEPT ![p] = s]
  /\ check' = [check EXCEPT ![p] = "done"]
  /\ \A t \in 0..now : RoundOf(t) => Verdict(p, s, t)
  /\ s.error = "cancelled" => cancelled

LEMMA CheckEnds ==
  ASSUME IInv, NEW p \in Providers, EndCheck(p)
  PROVE  at = "checking" /\ \E s \in Status : Ends(p, s)
<1>1. check[p] = "calling"
  BY DEF EndCheck
<1>2. at = "checking"
  BY <1>1 DEF IInv, RoundInv, TypeOK, AllDone
<1>3. PICK t \in 0..now : RoundOf(t)
  BY <1>2 DEF IInv, RoundInv
<1>4. kind[p] \in {"plain", "inspected"} /\ statuses[p] = [Unchecked(p) EXCEPT !.checkedAt = t]
  BY <1>1, <1>3 DEF RoundOf
<1>5. ~statuses[p].reachable /\ statuses[p].error = "none" /\ statuses[p].checkedAt = t
  BY <1>4 DEF Unchecked
<1>6. PICK s \in Outcomes(p) : statuses' = [statuses EXCEPT ![p] = s]
  BY DEF EndCheck
<1>7. /\ s \in Status /\ s.configured
      /\ s.checkedAt = statuses[p].checkedAt
      /\ s.reachable \/ s.error # "none"
      /\ s.reachable => s.error = "none"
      /\ s.degraded => s.reachable
      /\ s.error = "cancelled" => cancelled
  BY <1>4, <1>5, OutcomeIsVerdict DEF IInv
<1>8. \A u \in 0..now : RoundOf(u) => Verdict(p, s, u)
  <2> SUFFICES ASSUME NEW u \in 0..now, RoundOf(u) PROVE Verdict(p, s, u)
    OBVIOUS
  <2>1. statuses[p] = [Unchecked(p) EXCEPT !.checkedAt = u]
    BY <1>1 DEF RoundOf
  <2>2. statuses[p].checkedAt = u
    BY <2>1 DEF Unchecked
  <2> QED
    BY <1>4, <1>7, <2>2 DEF Verdict
<1>9. Coherent(p, s)
  BY <1>4, <1>7 DEF Coherent
<1> QED
  BY <1>2, <1>6, <1>7, <1>8, <1>9 DEF Ends, EndCheck

\* Every step of the monitor keeps the types.
LEMMA TypePreserved == IInv /\ [Next]_vars => TypeOK'
<1> SUFFICES ASSUME IInv, [Next]_vars PROVE TypeOK'
  OBVIOUS
<1>t. TypeOK
  BY DEF IInv
<1> USE MonitorAssumption DEF Never
<1>1. CASE Tick
  <2>1. now' \in Nat /\ nextTick' \in Nat \cup {Never}
    BY <1>t, <1>1 DEF Tick, TypeOK
  <2>2. due' \in BOOLEAN
    BY <1>t, <1>1, Zenon DEF Tick, TypeOK
  <2> QED
    BY <1>t, <1>1, <2>1, <2>2, TypeFrame DEF Tick, TypeOK
<1>2. CASE Shutdown
  BY <1>t, <1>2, TypeFrame DEF Shutdown, TypeOK
<1>3. CASE BeginRound
  <2>1. \A p \in Providers : Coherent(p, Unchecked(p))'
    BY <1>3 DEF BeginRound, Unchecked, Coherent
  <2>2. statuses' \in [Providers -> Status]
    BY <1>t, <1>3, UncheckedType DEF BeginRound
  <2>3. \A p \in Providers : Coherent(p, statuses[p])'
    BY <1>3 DEF BeginRound, Unchecked, Coherent
  <2>4. \A p \in Providers : Coherent(p, snap.providers[p])'
    BY <1>t, <1>3 DEF BeginRound, Coherent, TypeOK
  <2> QED
    BY <1>t, <1>3, <2>2, <2>3, <2>4 DEF BeginRound, TypeOK
<1>4. CASE Gather
  <2>1. nextTick' \in Nat \cup {Never} /\ at' \in {"waiting", "publishing"}
    BY <1>t, <1>4 DEF Gather, BackToRun, TypeOK
  <2> QED
    BY <1>t, <1>4, <2>1, TypeFrame DEF Gather, TypeOK
<1>5. CASE Publish
  <2>1. snap' \in [updatedAt: Nat \cup {Never}, providers: [Providers -> Status]]
    BY <1>t, <1>5 DEF Publish, TypeOK
  <2>2. nextTick' \in Nat \cup {Never} /\ at' = "waiting"
    BY <1>t, <1>5 DEF Publish, BackToRun, TypeOK
  <2>3. snap'.providers = statuses /\ statuses' = statuses /\ kind' = kind
    BY <1>5 DEF Publish
  <2>4. \A p \in Providers : Coherent(p, statuses[p])' /\ Coherent(p, snap.providers[p])'
    BY <1>t, <2>3 DEF TypeOK, Coherent
  <2> QED
    BY <1>t, <1>5, <2>1, <2>2, <2>4 DEF Publish, TypeOK
<1>6. CASE Stop
  BY <1>t, <1>6, TypeFrame DEF Stop, clock, TypeOK
<1>7. ASSUME NEW p \in Providers, StartCheck(p) PROVE TypeOK'
  <2>1. PICK s \in Status : Starts(p, s)
    BY <1>7, CheckStarts
  <2> QED
    BY <1>t, <1>7, <2>1, OneStatus DEF StartCheck, clock, Starts
<1>8. ASSUME NEW p \in Providers, EndCheck(p) PROVE TypeOK'
  <2>1. PICK s \in Status : Ends(p, s)
    BY <1>8, CheckEnds
  <2> QED
    BY <1>t, <1>8, <2>1, OneStatus DEF EndCheck, clock, Ends
<1>9. CASE UNCHANGED vars
  BY <1>t, <1>9, TypeFrame DEF vars, TypeOK
<1> QED
  BY <1>1, <1>2, <1>3, <1>4, <1>5, <1>6, <1>7, <1>8, <1>9 DEF Next

\* The ticker stays ahead of the clock, by an interval at most.
LEMMA ClockPreserved == IInv /\ [Next]_vars => ClockInv'
<1> SUFFICES ASSUME IInv, [Next]_vars PROVE ClockInv'
  OBVIOUS
<1> USE MonitorAssumption DEF IInv, TypeOK, ClockInv, Never
<1>1. CASE Tick
  <2>1. nextTick = Never => at = "checking" /\ nextTick' = Never
    BY <1>1 DEF Tick, Passive
  <2>2. UNCHANGED <<at, snap, cancelled>> /\ now' = now + 1
    BY <1>1 DEF Tick
  <2>3. CASE nextTick = Never
    BY <2>1, <2>2, <2>3
  <2>4. CASE nextTick # Never
    BY <1>1, <2>2, <2>4 DEF Tick
  <2> QED
    BY <2>3, <2>4
<1>2. CASE Shutdown
  BY <1>2 DEF Shutdown
<1>3. CASE BeginRound
  BY <1>3 DEF BeginRound
<1>4. CASE Gather
  BY <1>4 DEF Gather, BackToRun
<1>5. CASE Publish
  BY <1>5 DEF Publish, BackToRun
<1>6. CASE Stop
  BY <1>6 DEF Stop, clock
<1>7. ASSUME NEW p \in Providers, StartCheck(p) PROVE ClockInv'
  BY <1>7 DEF StartCheck, clock
<1>8. ASSUME NEW p \in Providers, EndCheck(p) PROVE ClockInv'
  BY <1>8 DEF EndCheck, clock
<1>9. CASE UNCHANGED vars
  BY <1>9 DEF vars
<1> QED
  BY <1>1, <1>2, <1>3, <1>4, <1>5, <1>6, <1>7, <1>8, <1>9 DEF Next

\* A round that has seen the end of the program is not published.
LEMMA CancelPreserved == IInv /\ [Next]_vars => CancelInv'
<1> SUFFICES ASSUME IInv, [Next]_vars PROVE CancelInv'
  OBVIOUS
<1> USE DEF CancelInv
<1>i. TypeOK /\ CancelInv
  BY DEF IInv
<1>1. CASE Tick
  BY <1>i, <1>1 DEF Tick
<1>2. CASE Shutdown
  BY <1>i, <1>2 DEF Shutdown
<1>3. CASE BeginRound
  BY <1>i, <1>3 DEF BeginRound, Unchecked
<1>4. CASE Gather
  BY <1>i, <1>4 DEF Gather, BackToRun, RoundCancelled
<1>5. CASE Publish
  <2>1. snap'.providers = statuses /\ UNCHANGED <<statuses, cancelled>>
    BY <1>5 DEF Publish
  <2>2. at = "publishing" /\ at' = "waiting"
    BY <1>5 DEF Publish, BackToRun
  <2> QED
    BY <1>i, <2>1, <2>2
<1>6. CASE Stop
  BY <1>i, <1>6 DEF Stop, clock
<1>7. ASSUME NEW p \in Providers, StartCheck(p) PROVE CancelInv'
  <2>1. PICK s \in Status : Starts(p, s)
    BY <1>7, CheckStarts
  <2> QED
    BY <1>i, <1>7, <2>1 DEF StartCheck, clock, Starts, TypeOK
<1>8. ASSUME NEW p \in Providers, EndCheck(p) PROVE CancelInv'
  <2>1. at = "checking"
    BY <1>8, CheckEnds
  <2>2. PICK s \in Status : Ends(p, s)
    BY <1>8, CheckEnds
  <2> QED
    BY <1>i, <1>8, <2>1, <2>2 DEF EndCheck, clock, Ends, TypeOK
<1>9. CASE UNCHANGED vars
  BY <1>i, <1>9 DEF vars
<1> QED
  BY <1>1, <1>2, <1>3, <1>4, <1>5, <1>6, <1>7, <1>8, <1>9 DEF Next

\* A snapshot is one round: it is published when all its checks are done.
LEMMA SnapshotPreserved == IInv /\ [Next]_vars => SnapshotIsOneRound'
<1> SUFFICES ASSUME IInv, [Next]_vars PROVE SnapshotIsOneRound'
  OBVIOUS
<1>1. CASE Publish
  <2>1. PICK t \in 0..now : RoundOf(t)
    BY <1>1 DEF IInv, RoundInv, Publish
  <2>2. snap'.updatedAt = now /\ snap'.providers = statuses /\ kind' = kind
    BY <1>1 DEF Publish
  <2>3. \A p \in Providers : Verdict(p, statuses[p], t)
    BY <1>1, <2>1 DEF IInv, RoundInv, Publish, AllDone, RoundOf
  <2>4. t \in (now - Timeout)..now
    BY <2>1, MonitorAssumption DEF RoundOf, IInv, TypeOK
  <2> QED
    BY <2>2, <2>3, <2>4 DEF SnapshotIsOneRound, Verdict, Unchecked
<1>2. CASE ~Publish
  <2>1. UNCHANGED <<kind, snap>>
    BY <1>2 DEF Next, Tick, Shutdown, BeginRound, Gather, Stop, StartCheck, EndCheck, vars
  <2> QED
    BY <2>1 DEF IInv, SnapshotIsOneRound, Verdict, Unchecked
<1> QED
  BY <1>1, <1>2

\* A round goes on when the clock stays within it and no goroutine moves.
LEMMA RoundFrame ==
  ASSUME NEW t \in Nat, RoundOf(t), now' <= t + Timeout,
         UNCHANGED <<kind, check, statuses>>,
         now' = now \/ \A p \in Providers : check[p] # "spawned"
  PROVE  RoundOf(t)'
  BY DEF RoundOf, Verdict, Unchecked

\* A round goes on when one goroutine moves.
LEMMA RoundOneCheck ==
  ASSUME TypeOK, NEW t \in Nat, RoundOf(t), NEW p \in Providers, NEW s,
         UNCHANGED <<kind, now>>,
         statuses' = [statuses EXCEPT ![p] = s],
         \/ /\ check' = [check EXCEPT ![p] = "calling"]
            /\ kind[p] \in {"plain", "inspected"}
            /\ s = [Unchecked(p) EXCEPT !.checkedAt = t]
         \/ check' = [check EXCEPT ![p] = "done"] /\ Verdict(p, s, t)
  PROVE  RoundOf(t)'
<1>1. ASSUME NEW q \in Providers, q # p
      PROVE check'[q] = check[q] /\ statuses'[q] = statuses[q]
  BY <1>1 DEF TypeOK
<1>2. statuses'[p] = s /\ check'[p] \in {"calling", "done"}
  BY DEF TypeOK
<1>3. check'[p] = "calling" => kind[p] \in {"plain", "inspected"}
                               /\ s = [Unchecked(p) EXCEPT !.checkedAt = t]
  BY DEF TypeOK
<1>4. check'[p] = "done" => Verdict(p, s, t)
  BY DEF TypeOK
<1>5. \A q \in Providers : Unchecked(q)' = Unchecked(q)
  BY DEF Unchecked
<1> DEFINE Fits(q) ==
      /\ check[q] = "spawned" => t = now /\ statuses[q] = Unchecked(q)
      /\ check[q] = "calling" =>
           /\ kind[q] \in {"plain", "inspected"}
           /\ statuses[q] = [Unchecked(q) EXCEPT !.checkedAt = t]
      /\ check[q] = "done" => Verdict(q, statuses[q], t)
<1>6. ASSUME NEW q \in Providers PROVE Fits(q)'
  <2>1. CASE q = p
    <3>1. Verdict(p, statuses[p], t)' <=> Verdict(p, s, t)
      BY <1>2 DEF Verdict, Unchecked
    <3> QED
      BY <1>2, <1>3, <1>4, <1>5, <2>1, <3>1
  <2>2. CASE q # p
    <3>1. Fits(q)
      BY DEF RoundOf
    <3>2. check'[q] = check[q] /\ statuses'[q] = statuses[q]
      BY <1>1, <2>2
    <3>3. Unchecked(q)' = Unchecked(q)
      BY <1>5
    <3>4. Verdict(q, statuses[q], t)' <=> Verdict(q, statuses[q], t)
      BY <3>2 DEF Verdict, Unchecked
    <3> QED
      BY <3>1, <3>2, <3>3, <3>4
  <2> QED
    BY <2>1, <2>2
<1> QED
  BY <1>6 DEF RoundOf

\* Every step keeps the round within its timeout, and the next one within its interval.
LEMMA RoundPreserved == IInv /\ [Next]_vars => RoundInv'
<1> SUFFICES ASSUME IInv, [Next]_vars PROVE RoundInv'
  OBVIOUS
<1>t. TypeOK /\ ClockInv /\ RoundInv /\ TypeOK'
  BY TypePreserved DEF IInv
<1> USE MonitorAssumption DEF Never
<1>1. CASE Tick
  <2>1. CASE at = "waiting"
    <3>1. ~due /\ ~cancelled /\ at' = at /\ now' = now + 1 /\ check' = check /\ snap' = snap
          /\ cancelled' = cancelled
      BY <1>1, <2>1 DEF Tick, Passive
    <3>2. nextTick # Never /\ now < nextTick
      BY <1>t, <2>1, <3>1 DEF ClockInv
    <3>3. \A p \in Providers : check[p] \in {"off", "done"}
      BY <1>t, <2>1 DEF RoundInv
    <3>4. DueInTime(nextTick)
      BY <1>t, <2>1, <3>1 DEF RoundInv
    <3>5. DueInTime(IF due THEN now ELSE nextTick)'
      <4>1. CASE now + 1 = nextTick
        <5>1. due' = TRUE
          BY <1>1, <3>1, <4>1 DEF Tick
        <5> QED
          BY <3>1, <3>4, <4>1, <5>1 DEF DueInTime
      <4>2. CASE now + 1 # nextTick
        <5>1. due' = due /\ nextTick' = nextTick
          BY <1>1, <3>1, <4>2 DEF Tick
        <5> QED
          BY <3>1, <3>4, <5>1 DEF DueInTime
      <4> QED
        BY <4>1, <4>2
    <3> QED
      BY <2>1, <3>1, <3>3, <3>5 DEF RoundInv
  <2>2. CASE at = "checking"
    <3>1. PICK t \in 0..now : RoundOf(t) /\ DueInTime(t)
      BY <1>t, <2>2 DEF RoundInv
    <3>2. PICK p \in Providers : check[p] = "calling" /\ ~Interrupted(p)
      BY <1>1, <2>2 DEF Tick, Passive
    <3>3. statuses[p].checkedAt = t
      BY <3>1, <3>2 DEF RoundOf, Unchecked
    <3>4. now + 1 <= t + Timeout
      BY <1>t, <3>2, <3>3 DEF Interrupted, TimedOut, TypeOK
    <3>5. \A q \in Providers : check[q] # "spawned"
      BY <1>1, <2>2 DEF Tick, Passive
    <3>6. now' = now + 1 /\ UNCHANGED <<kind, at, check, statuses, snap, cancelled>>
      BY <1>1 DEF Tick
    <3>7. RoundOf(t)' /\ DueInTime(t)'
      BY <3>1, <3>4, <3>5, <3>6, RoundFrame DEF DueInTime
    <3> QED
      BY <1>t, <2>2, <3>6, <3>7 DEF RoundInv, TypeOK
  <2> QED
    BY <1>1, <2>1, <2>2 DEF Tick, Passive
<1>2. CASE Shutdown
  <2>1. cancelled' /\ UNCHANGED <<kind, now, nextTick, due, at, check, statuses, snap>>
    BY <1>2 DEF Shutdown
  <2>2. \A t : RoundOf(t) => RoundOf(t)'
    BY <2>1 DEF RoundOf, Verdict, Unchecked
  <2>3. \A t : DueInTime(t)'
    BY <2>1 DEF DueInTime
  <2> QED
    BY <1>t, <2>1, <2>2, <2>3 DEF RoundInv, AllDone, DueInTime
<1>3. CASE BeginRound
  <2>1. DueInTime(now)
    BY <1>t, <1>3 DEF BeginRound, RoundInv
  <2>2. at' = "checking" /\ UNCHANGED <<kind, now, cancelled, snap>>
    BY <1>3 DEF BeginRound
  <2>3. \A p \in Providers : check'[p] = "spawned" /\ statuses'[p] = Unchecked(p)'
    BY <1>3 DEF BeginRound, Unchecked
  <2>4. RoundOf(now)'
    BY <1>t, <2>2, <2>3 DEF RoundOf, TypeOK, Unchecked
  <2>5. DueInTime(now)'
    BY <2>1, <2>2 DEF DueInTime
  <2> QED
    BY <1>t, <2>2, <2>3, <2>4, <2>5 DEF RoundInv, TypeOK
<1>4. CASE Gather
  <2>1. AllDone /\ at = "checking" /\ UNCHANGED <<kind, now, cancelled, due, check, statuses, snap>>
    BY <1>4 DEF Gather
  <2>2. PICK t \in 0..now : RoundOf(t) /\ DueInTime(t)
    BY <1>t, <2>1 DEF RoundInv
  <2>3. CASE cancelled
    <3>1. at' = "waiting"
      BY <1>4, <2>3 DEF Gather, RoundCancelled, BackToRun
    <3> QED
      BY <2>1, <2>3, <3>1 DEF RoundInv, DueInTime, AllDone
  <2>4. CASE ~cancelled
    <3>1. at' = "publishing"
      BY <1>4, <2>4 DEF Gather, RoundCancelled
    <3>2. RoundOf(t)' /\ DueInTime(t)' /\ AllDone'
      BY <2>1, <2>2 DEF RoundOf, DueInTime, AllDone, Verdict, Unchecked
    <3> QED
      BY <2>1, <3>1, <3>2 DEF RoundInv
  <2> QED
    BY <2>3, <2>4
<1>5. CASE Publish
  <2>1. AllDone /\ at' = "waiting" /\ check' = check /\ now' = now /\ snap'.updatedAt = now
    BY <1>t, <1>5 DEF Publish, BackToRun, RoundInv
  <2>2. nextTick' <= now + Interval
    BY <1>t, <1>5 DEF Publish, BackToRun, ClockInv, TypeOK
  <2> QED
    BY <1>t, <2>1, <2>2 DEF RoundInv, DueInTime, AllDone, TypeOK
<1>6. CASE Stop
  <2>1. at = "waiting" /\ at' = "stopped" /\ cancelled /\ cancelled' = cancelled /\ check' = check
    BY <1>6 DEF Stop, clock
  <2> QED
    BY <1>t, <2>1 DEF RoundInv, DueInTime
<1>7. ASSUME NEW p \in Providers, StartCheck(p) PROVE RoundInv'
  <2>1. PICK s \in Status : Starts(p, s)
    BY <1>7, CheckStarts
  <2>2. at = "checking" /\ check[p] = "spawned" /\ UNCHANGED <<kind, now, cancelled, at, snap>>
    BY <1>7 DEF StartCheck, clock
  <2>3. PICK t \in 0..now : RoundOf(t) /\ DueInTime(t)
    BY <1>t, <2>2 DEF RoundInv
  <2>4. t = now
    BY <2>2, <2>3 DEF RoundOf
  <2>5. RoundOf(t)'
    <3>1. \/ /\ check' = [check EXCEPT ![p] = "calling"]
             /\ kind[p] \in {"plain", "inspected"}
             /\ s = [Unchecked(p) EXCEPT !.checkedAt = t]
          \/ check' = [check EXCEPT ![p] = "done"] /\ Verdict(p, s, t)
      BY <2>1, <2>4 DEF Starts
    <3>2. statuses' = [statuses EXCEPT ![p] = s]
      BY <2>1 DEF Starts
    <3>3. t \in Nat /\ RoundOf(t)
      BY <2>3
    <3> QED
      BY <1>t, <2>2, <3>1, <3>2, <3>3, RoundOneCheck
  <2>6. \A q \in Providers : check'[q] # "off"
    BY <1>t, <2>1, <2>2 DEF Starts, RoundInv, TypeOK
  <2> QED
    BY <2>2, <2>3, <2>5, <2>6 DEF RoundInv, DueInTime
<1>8. ASSUME NEW p \in Providers, EndCheck(p) PROVE RoundInv'
  <2>1. PICK s \in Status : Ends(p, s)
    BY <1>8, CheckEnds
  <2>2. at = "checking" /\ UNCHANGED <<kind, now, cancelled, at, snap>>
    BY <1>8, CheckEnds DEF EndCheck, clock
  <2>3. PICK t \in 0..now : RoundOf(t) /\ DueInTime(t)
    BY <1>t, <2>2 DEF RoundInv
  <2>5. RoundOf(t)'
    <3>1. check' = [check EXCEPT ![p] = "done"] /\ Verdict(p, s, t)
      BY <2>1, <2>3 DEF Ends
    <3>2. statuses' = [statuses EXCEPT ![p] = s]
      BY <2>1 DEF Ends
    <3>3. t \in Nat /\ RoundOf(t)
      BY <2>3
    <3> QED
      BY <1>t, <2>2, <3>1, <3>2, <3>3, RoundOneCheck
  <2>6. \A q \in Providers : check'[q] # "off"
    BY <1>t, <2>1, <2>2 DEF Ends, RoundInv, TypeOK
  <2> QED
    BY <2>2, <2>3, <2>5, <2>6 DEF RoundInv, DueInTime
<1>9. CASE UNCHANGED vars
  BY <1>t, <1>9 DEF vars, RoundInv, RoundOf, DueInTime, AllDone, Verdict, Unchecked
<1> QED
  BY <1>1, <1>2, <1>3, <1>4, <1>5, <1>6, <1>7, <1>8, <1>9 DEF Next

\* Types, clock, round and snapshot together are inductive (monitor.go:271-311).
THEOREM MonitorInvariant == Spec => []IInv
<1>1. IInv /\ [Next]_vars => IInv'
  BY TypePreserved, ClockPreserved, CancelPreserved, RoundPreserved, SnapshotPreserved DEF IInv
<1> QED
  BY <1>1, InitOK, PTL DEF Spec

\* No published status is that of a check cut short by the end of the program
\* (monitor.go:300-305).
THEOREM NoFalseOutage == Spec => []ShutdownIsNoOutage
<1>1. IInv => ShutdownIsNoOutage
  BY DEF IInv, CancelInv, ShutdownIsNoOutage
<1> QED
  BY <1>1, MonitorInvariant, PTL

\* A snapshot has the verdict of every configured provider, all of one round
\* (monitor.go:288-311).
THEOREM WholeRounds == Spec => []SnapshotIsOneRound
<1>1. IInv => SnapshotIsOneRound
  BY DEF IInv
<1> QED
  BY <1>1, MonitorInvariant, PTL

\* While the program runs, a snapshot is never older than an interval and a timeout,
\* whatever the providers do (monitor.go:271-311).
THEOREM FreshStatuses == Spec => []StatusesStayFresh
<1>1. IInv => StatusesStayFresh
  <2> SUFFICES ASSUME IInv, ~cancelled, snap.updatedAt # Never
               PROVE  now - snap.updatedAt <= Interval + Timeout
    BY DEF StatusesStayFresh
  <2> USE MonitorAssumption DEF IInv, TypeOK, Never
  <2>1. CASE at \in {"checking", "publishing"}
    <3>1. PICK t \in 0..now : RoundOf(t) /\ DueInTime(t)
      BY <2>1 DEF RoundInv
    <3> QED
      BY <3>1 DEF RoundOf, DueInTime
  <2>2. CASE at = "waiting"
    <3>1. DueInTime(IF due THEN now ELSE nextTick)
      BY <2>2 DEF RoundInv
    <3>2. nextTick # Never => now < nextTick
      BY DEF ClockInv
    <3>3. nextTick # Never
      BY DEF ClockInv
    <3> QED
      BY <3>1, <3>2, <3>3 DEF DueInTime
  <2> QED
    BY <2>1, <2>2 DEF ClockInv
<1> QED
  BY <1>1, MonitorInvariant, PTL

\* Behind MonitorStops: until it has stopped, the monitor lets time pass or has a step to
\* make, and no call is older than its timeout.  Each disjunct is the guard of an
\* action, but for the end of the clock (monitor.go:271-311, 337-355).
MonitorGoesOn ==
    /\ \A p \in Providers : at = "checking" /\ check[p] = "calling" =>
         now <= statuses[p].checkedAt + Timeout
    /\ \/ at = "stopped"
       \/ Passive
       \/ at = "waiting" /\ (due \/ (cancelled /\ nextTick # Never))
       \/ at = "checking" /\ AllDone
       \/ at = "checking" /\ \E p \in Providers :
            check[p] = "spawned" \/ (check[p] = "calling" /\ Interrupted(p))
       \/ at = "publishing"

\* A round never waits for a goroutine that has nothing left to do, for any number of
\* providers, however they are configured and whenever the program ends.
THEOREM MonitorNeverStuck == Spec => []MonitorGoesOn
<1>1. IInv => MonitorGoesOn
  <2> SUFFICES ASSUME IInv PROVE MonitorGoesOn
    OBVIOUS
  <2>1. ASSUME NEW p \in Providers, at = "checking", check[p] = "calling"
        PROVE  now <= statuses[p].checkedAt + Timeout
    <3>1. PICK t \in 0..now : RoundOf(t)
      BY <2>1 DEF IInv, RoundInv
    <3>2. statuses[p].checkedAt = t
      BY <2>1, <3>1 DEF RoundOf, Unchecked
    <3> QED
      BY <3>1, <3>2 DEF RoundOf
  <2>2. at = "waiting" => Passive \/ due \/ (cancelled /\ nextTick # Never)
    <3>1. CASE ~due /\ ~cancelled
      BY <3>1 DEF Passive
    <3>2. CASE ~due /\ cancelled
      BY <3>2 DEF IInv, ClockInv
    <3> QED
      BY <3>1, <3>2
  <2>3. CASE at = "checking"
    <3>1. \A p \in Providers : check[p] \in {"spawned", "calling", "done"}
      BY <2>3 DEF IInv, RoundInv, TypeOK
    <3> QED
      BY <2>1, <2>3, <3>1 DEF MonitorGoesOn, AllDone, Passive
  <2>4. at \in {"waiting", "checking", "publishing", "stopped"}
    BY DEF IInv, TypeOK
  <2> QED
    BY <2>1, <2>2, <2>3, <2>4 DEF MonitorGoesOn
<1> QED
  BY <1>1, MonitorInvariant, PTL
===============================================================================
