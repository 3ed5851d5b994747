------------------------ MODULE CacheExtensionProofs ------------------------
(* Theorems about the modules that extend ReportCache: ReportCacheSharing and *)
(* ServiceHealth, for any callers, keys, times to live and sizes of the map.   *)
EXTENDS ReportCacheSharing, ServiceHealth, ReportCacheProofs

\* The parts of an evaluation as ReportSharing sees it.
Record(k, p, w, o, t) == [key |-> k, phase |-> p, owner |-> w, outcome |-> o, publishedAt |-> t]

Eval(f) == Record(flights[f].key, Phase(f), Owner(f), flights[f].outcome, flights[f].publishedAt)

-----------------------------------------------------------------------------
(* Phases and owners, from one state to the next.                            *)

\* A flight has one owner at most: it is the one the mapping names.
LEMMA OwnerIs ==
    ASSUME OneOwner, NEW c \in Callers, NEW f, Owns(c), on[c] = f
    PROVE  Owner(f) = c
BY DEF OneOwner, Owner

LEMMA OwnerIsNext ==
    ASSUME OneOwner', NEW c \in Callers, NEW f, Owns(c)', on'[c] = f
    PROVE  Owner(f)' = c
BY DEF OneOwner, Owner

LEMMA NoOwner ==
    ASSUME NEW f, \A c \in Callers : ~(Owns(c) /\ on[c] = f)
    PROVE  Owner(f) = None
BY DEF Owner

LEMMA NoOwnerNext ==
    ASSUME NEW f, \A c \in Callers : ~(Owns(c)' /\ on'[c] = f)
    PROVE  Owner(f)' = None
BY DEF Owner

LEMMA SameOwner ==
    ASSUME OneOwner, OneOwner', NEW f,
           \A c \in Callers : (Owns(c)' /\ on'[c] = f) <=> (Owns(c) /\ on[c] = f)
    PROVE  Owner(f)' = Owner(f)
<1>1. CASE \E c \in Callers : Owns(c) /\ on[c] = f
  BY <1>1, OwnerIs, OwnerIsNext
<1>2. CASE \A c \in Callers : ~(Owns(c) /\ on[c] = f)
  BY <1>2, NoOwner, NoOwnerNext
<1> QED
  BY <1>1, <1>2

\* The steps of the cache that neither start, end nor retire a flight, and change
\* no owner, are not seen by the evaluations.
LEMMA SameEvals ==
    ASSUME OneOwner, OneOwner', UNCHANGED <<flights, inflight>>,
           \A c \in Callers : (Owns(c)' <=> Owns(c)) /\ (Owns(c) => on'[c] = on[c])
    PROVE  \A f \in Flights : Eval(f)' = Eval(f) /\ Phase(f)' = Phase(f)
<1>1. \A f \in Flights : Owner(f)' = Owner(f)
  BY SameOwner
<1>2. \A f \in Flights : Phase(f)' = Phase(f)
  BY DEF Phase
<1> QED
  BY <1>1, <1>2 DEF Eval

\* The code's invariants, for the phases: a flight that is over is in the map, and
\* one that runs is in the map if the cache is on.
LEMMA CurrentIsInflight ==
    ASSUME IInv, Cached, NEW f \in Flights, Phase(f) \in {"running", "over"}
    PROVE  inflight[flights[f].key] = f
<1>1. CASE Phase(f) = "over"
  BY <1>1 DEF Phase
<1>2. CASE Phase(f) = "running"
  <2>1. flights[f].stage = "running"
    BY <1>2 DEF Phase
  <2>2. PICK c \in Callers : Owns(c) /\ on[c] = f
    BY <2>1 DEF IInv, OwnerInv, RunningIsOwned
  <2>3. Leads(c) /\ flights[f].key = ask[c]
    BY <2>2 DEF Owns, IInv, OwnerInv, ModeInv, OwnersKnowTheirFlight
  <2> QED
    BY <2>2, <2>3 DEF IInv, OwnerInv, LeadersHoldTheirKey
<1> QED
  BY <1>1, <1>2

LEMMA NothingInflight ==
    ASSUME IInv, ~Cached, NEW k \in Keys PROVE inflight[k] = None
BY DEF IInv, OwnerInv, NoOrphanFlight, ModeInv

LEMMA PhaseType ==
    ASSUME IInv, NEW f \in Flights
    PROVE  /\ flights[f] \in Flight
           /\ Phase(f) = "none" <=> flights[f].stage = "unused"
           /\ Phase(f) = "running" <=> flights[f].stage = "running"
           /\ Phase(f) \in {"over", "retired"} <=> flights[f].stage = "done"
BY DEF IInv, TypeOK, Flight, Phase

-----------------------------------------------------------------------------
(* The state of ReportSharing, and how the steps of the cache change it.      *)

Evals == [f \in Flights |-> Eval(f)]
Wants == [c \in Callers |-> IF pc[c] = "idle" THEN None ELSE ask[c]]
Answers == [c \in Callers |-> [outcome |-> answer[c].outcome, flight |-> answer[c].flight]]

\* A call that returns: its caller wants nothing more and has the answer.
LEMMA Returned ==
    ASSUME TypeOK, NEW c \in Callers, NEW how, NEW o, NEW f, Return(c, how, o, f), ask' = ask
    PROVE  /\ Wants' = [Wants EXCEPT ![c] = None]
           /\ Answers' = [Answers EXCEPT ![c] = [outcome |-> o, flight |-> f]]
<1>1. /\ pc' = [pc EXCEPT ![c] = "idle"]
      /\ answer' = [answer EXCEPT ![c] = [how |-> how, outcome |-> o, flight |-> f]]
  BY DEF Return
<1>2. \A d \in Callers :
        /\ d # c => pc'[d] = pc[d] /\ answer'[d] = answer[d]
        /\ d = c => pc'[d] = "idle" /\ answer'[d].outcome = o /\ answer'[d].flight = f
  BY <1>1 DEF TypeOK
<1> QED
  BY <1>2 DEF Wants, Answers

\* A call that goes on: its caller still wants its key, and has no answer yet.
LEMMA GoesOn ==
    ASSUME TypeOK, NEW c \in Callers, NEW x, x # "idle", pc[c] # "idle",
           pc' = [pc EXCEPT ![c] = x], UNCHANGED <<ask, answer>>
    PROVE  Wants' = Wants /\ Answers' = Answers
<1>1. \A d \in Callers : pc'[d] = "idle" <=> pc[d] = "idle"
  BY DEF TypeOK
<1> QED
  BY <1>1 DEF Wants, Answers

\* Only a request that arrives has missed something new.
LEMMA MissedKept ==
    ASSUME HInv, HNext, \A c \in Callers : pc[c] = "idle" => pc'[c] # "arrived"
    PROVE  missed' = missed
BY DEF HInv, HNext

\* The evaluations, when one of them begins, ends, or is published.
LEMMA OneEval ==
    ASSUME NEW f \in Flights, \A g \in Flights \ {f} : Eval(g)' = Eval(g)
    PROVE  Evals' = [Evals EXCEPT ![f] = Eval(f)']
BY DEF Evals

LEMMA EvalBegins ==
    ASSUME NEW f \in Flights, \A g \in Flights \ {f} : Eval(g)' = Eval(g), NEW c \in Callers,
           Eval(f)' = Record(Wants[c], "running", c, flights[f].outcome, flights[f].publishedAt)
    PROVE  Evals' = [Evals EXCEPT ![f].key = Wants[c], ![f].phase = "running", ![f].owner = c]
<1> DEFINE k == Wants[c]
           o == flights[f].outcome
           t == flights[f].publishedAt
           r == Eval(f)
<1>1. [r EXCEPT !.key = k] = Record(k, Phase(f), Owner(f), o, t)
  BY DEF Eval, Record
<1>2. [Record(k, Phase(f), Owner(f), o, t) EXCEPT !.phase = "running"]
      = Record(k, "running", Owner(f), o, t)
  BY DEF Record
<1>3. [Record(k, "running", Owner(f), o, t) EXCEPT !.owner = c] = Record(k, "running", c, o, t)
  BY DEF Record
<1> HIDE DEF r
<1>4. [r EXCEPT !.key = k, !.phase = "running", !.owner = c]
      = [[[r EXCEPT !.key = k] EXCEPT !.phase = "running"] EXCEPT !.owner = c]
  OBVIOUS
<1>5. Eval(f)' = [Eval(f) EXCEPT !.key = k, !.phase = "running", !.owner = c]
  BY <1>1, <1>2, <1>3, <1>4 DEF r
<1>6. Evals' = [Evals EXCEPT ![f] = [Eval(f) EXCEPT !.key = k, !.phase = "running", !.owner = c]]
  BY <1>5, OneEval
<1> QED
  BY <1>6 DEF Evals

LEMMA EvalEnds ==
    ASSUME NEW f \in Flights, \A g \in Flights \ {f} : Eval(g)' = Eval(g), NEW o,
           Eval(f)' = Record(flights[f].key, "over", Owner(f), o, flights[f].publishedAt)
    PROVE  Evals' = [Evals EXCEPT ![f].phase = "over", ![f].outcome = o]
<1> DEFINE k == flights[f].key
           t == flights[f].publishedAt
           r == Eval(f)
<1>1. [r EXCEPT !.phase = "over"] = Record(k, "over", Owner(f), flights[f].outcome, t)
  BY DEF Eval, Record
<1>2. [Record(k, "over", Owner(f), flights[f].outcome, t) EXCEPT !.outcome = o]
      = Record(k, "over", Owner(f), o, t)
  BY DEF Record
<1> HIDE DEF r
<1>3. [r EXCEPT !.phase = "over", !.outcome = o] = [[r EXCEPT !.phase = "over"] EXCEPT !.outcome = o]
  OBVIOUS
<1>4. Eval(f)' = [Eval(f) EXCEPT !.phase = "over", !.outcome = o]
  BY <1>1, <1>2, <1>3 DEF r
<1>5. Evals' = [Evals EXCEPT ![f] = [Eval(f) EXCEPT !.phase = "over", !.outcome = o]]
  BY <1>4, OneEval
<1> QED
  BY <1>5 DEF Evals

LEMMA EvalPublished ==
    ASSUME NEW f \in Flights, \A g \in Flights \ {f} : Eval(g)' = Eval(g), NEW t,
           Eval(f)' = Record(flights[f].key, "retired", None, flights[f].outcome, t)
    PROVE  Evals' = [Evals EXCEPT ![f].phase = "retired", ![f].owner = None, ![f].publishedAt = t]
<1> DEFINE k == flights[f].key
           o == flights[f].outcome
           u == flights[f].publishedAt
           r == Eval(f)
<1>1. [r EXCEPT !.phase = "retired"] = Record(k, "retired", Owner(f), o, u)
  BY DEF Eval, Record
<1>2. [Record(k, "retired", Owner(f), o, u) EXCEPT !.owner = None] = Record(k, "retired", None, o, u)
  BY DEF Record
<1>3. [Record(k, "retired", None, o, u) EXCEPT !.publishedAt = t] = Record(k, "retired", None, o, t)
  BY DEF Record
<1> HIDE DEF r
<1>4. [r EXCEPT !.phase = "retired", !.owner = None, !.publishedAt = t]
      = [[[r EXCEPT !.phase = "retired"] EXCEPT !.owner = None] EXCEPT !.publishedAt = t]
  OBVIOUS
<1>5. Eval(f)' = [Eval(f) EXCEPT !.phase = "retired", !.owner = None, !.publishedAt = t]
  BY <1>1, <1>2, <1>3, <1>4 DEF r
<1>6. Evals' = [Evals EXCEPT ![f] =
                  [Eval(f) EXCEPT !.phase = "retired", !.owner = None, !.publishedAt = t]]
  BY <1>5, OneEval
<1> QED
  BY <1>6 DEF Evals

LEMMA EvalEndsAlone ==
    ASSUME NEW f \in Flights, \A g \in Flights \ {f} : Eval(g)' = Eval(g), NEW o,
           Eval(f)' = Record(flights[f].key, "retired", None, o, flights[f].publishedAt)
    PROVE  Evals' = [Evals EXCEPT ![f].phase = "retired", ![f].owner = None, ![f].outcome = o]
<1> DEFINE k == flights[f].key
           p == flights[f].outcome
           t == flights[f].publishedAt
           r == Eval(f)
<1>1. [r EXCEPT !.phase = "retired"] = Record(k, "retired", Owner(f), p, t)
  BY DEF Eval, Record
<1>2. [Record(k, "retired", Owner(f), p, t) EXCEPT !.owner = None] = Record(k, "retired", None, p, t)
  BY DEF Record
<1>3. [Record(k, "retired", None, p, t) EXCEPT !.outcome = o] = Record(k, "retired", None, o, t)
  BY DEF Record
<1> HIDE DEF r
<1>4. [r EXCEPT !.phase = "retired", !.owner = None, !.outcome = o]
      = [[[r EXCEPT !.phase = "retired"] EXCEPT !.owner = None] EXCEPT !.outcome = o]
  OBVIOUS
<1>5. Eval(f)' = [Eval(f) EXCEPT !.phase = "retired", !.owner = None, !.outcome = o]
  BY <1>1, <1>2, <1>3, <1>4 DEF r
<1>6. Evals' = [Evals EXCEPT ![f] =
                  [Eval(f) EXCEPT !.phase = "retired", !.owner = None, !.outcome = o]]
  BY <1>5, OneEval
<1> QED
  BY <1>6 DEF Evals

LEMMA AllEvals ==
    ASSUME \A g \in Flights : Eval(g)' = Eval(g) PROVE Evals' = Evals
BY DEF Evals

-----------------------------------------------------------------------------
(* Every step of the cache is one of ReportSharing, or changes nothing in it. *)

Mapped == <<ttl, now, Evals, Wants, gone, missed, Answers>>

LEMMA MappedVars == UNCHANGED Mapped => UNCHANGED Sharing!vars
BY DEF Sharing!vars, Mapped, Evals, Eval, Record, Wants, Answers

LEMMA HitStep ==
    ASSUME HInv, HInv', HNext, NEW c \in Callers, Hit(c)
    PROVE  \E f \in Flights : Sharing!Reuse(c, f)
<1> DEFINE f == entries[ask[c]].report
<1>1. ask[c] \in DOMAIN entries /\ now < entries[ask[c]].expires /\ Cached /\ pc[c] = "arrived"
  BY DEF Hit, Live
<1>2. f \in Flights
  BY <1>1 DEF HInv, IInv, TypeOK
<1>3. /\ flights[f].key = ask[c] /\ flights[f].outcome = "report"
      /\ flights[f].publishedAt >= 0 /\ entries[ask[c]].expires = flights[f].publishedAt + ttl
  BY <1>1, <1>2 DEF HInv, IInv, ReportInv, EntriesPublished, OutcomesKnown, Outcomes, NilError
<1>4. Return(c, "hit", "report", f) /\ UNCHANGED <<ttl, now, flights, inflight, ask, gone>>
  BY <1>3 DEF Hit
<1> HIDE DEF f
<1>5. Wants' = [Wants EXCEPT ![c] = None]
      /\ Answers' = [Answers EXCEPT ![c] = [outcome |-> "report", flight |-> f]]
  BY <1>4, Returned DEF HInv, IInv
<1>6. Evals' = Evals
  <2>1. \A d \in Callers : (Owns(d)' <=> Owns(d)) /\ (Owns(d) => on'[d] = on[d])
    BY <1>1, <1>4 DEF Return, Owns, Leads, HInv, IInv, TypeOK
  <2> QED
    BY <1>4, <2>1, SameEvals, AllEvals DEF HInv, IInv, OwnerInv
<1>7. missed' = missed
  BY <1>4, MissedKept DEF Return, HInv, IInv, TypeOK
<1>8. Wants[c] = ask[c]
  BY <1>1 DEF Wants
<1>9. Evals[f].key = ask[c] /\ Evals[f].outcome = "report" /\ Evals[f].publishedAt >= 0
      /\ now < Evals[f].publishedAt + ttl
  BY <1>1, <1>2, <1>3 DEF Evals, Eval, Record
<1>10. Sharing!Reuse(c, f)
  BY <1>4, <1>5, <1>6, <1>7, <1>8, <1>9
  DEF Sharing!Reuse, Sharing!Reply, Evals, Eval, Record, Wants, Answers
<1> QED
  BY <1>2, <1>10

\* A waiter is answered by its flight, which it did not miss.
LEMMA WaitDoneStep ==
    ASSUME HInv, HInv', HNext, NEW c \in Callers, WaitDone(c)
    PROVE  \E f \in Flights : Sharing!Share(c, f)
<1> DEFINE f == on[c]
<1>1. pc[c] = "waiting" /\ flights[f].stage = "done"
  BY DEF WaitDone, FlightDone
<1>2. f \in Flights
  BY <1>1, OnType DEF HInv, IInv
<1>3. flights[f].key = ask[c] /\ f \notin missed[c]
  BY <1>1 DEF HInv, IInv, ReportInv, WaitersWantTheirFlight, MissedInv
<1>4. Return(c, "joined", flights[f].outcome, f) /\ UNCHANGED <<ttl, now, flights, inflight, ask, gone>>
  BY DEF WaitDone
<1> HIDE DEF f
<1>5. Wants' = [Wants EXCEPT ![c] = None]
      /\ Answers' = [Answers EXCEPT ![c] = [outcome |-> flights[f].outcome, flight |-> f]]
  BY <1>4, Returned DEF HInv, IInv
<1>6. Evals' = Evals
  <2>1. \A d \in Callers : (Owns(d)' <=> Owns(d)) /\ (Owns(d) => on'[d] = on[d])
    BY <1>1, <1>4 DEF Return, Owns, Leads, HInv, IInv, TypeOK
  <2> QED
    BY <1>4, <2>1, SameEvals, AllEvals DEF HInv, IInv, OwnerInv
<1>7. missed' = missed
  BY <1>4, MissedKept DEF Return, HInv, IInv, TypeOK
<1>8. Wants[c] = ask[c]
  BY <1>1 DEF Wants
<1>9. Evals[f].key = ask[c] /\ Evals[f].outcome = flights[f].outcome
      /\ Evals[f].phase \in {"over", "retired"}
  BY <1>1, <1>2, <1>3, PhaseType DEF Evals, Eval, Record, HInv
<1>10. Sharing!Share(c, f)
  BY <1>3, <1>4, <1>5, <1>6, <1>7, <1>8, <1>9
  DEF Sharing!Share, Sharing!Reply, Evals, Eval, Record, Wants, Answers
<1> QED
  BY <1>2, <1>10

\* A waiter whose client is gone gives up.
LEMMA GiveUpStep ==
    ASSUME HInv, HInv', HNext, NEW c \in Callers, GiveUp(c)
    PROVE  Sharing!Cancel(c)
<1>1. pc[c] = "waiting" /\ gone[c] /\ UNCHANGED <<ttl, now, flights, inflight, gone>>
  BY DEF GiveUp
<1>r. Return(c, "gave up", "cancelled", None) /\ ask' = ask
  BY DEF GiveUp
<1>2. Wants' = [Wants EXCEPT ![c] = None]
      /\ Answers' = [Answers EXCEPT ![c] = [outcome |-> "cancelled", flight |-> None]]
  <2>1. /\ pc' = [pc EXCEPT ![c] = "idle"]
        /\ answer' = [answer EXCEPT ![c] = [how |-> "gave up", outcome |-> "cancelled", flight |-> None]]
    BY <1>r DEF Return
  <2>2. \A d \in Callers :
          /\ d # c => pc'[d] = pc[d] /\ answer'[d] = answer[d]
          /\ d = c => pc'[d] = "idle" /\ answer'[d].outcome = "cancelled" /\ answer'[d].flight = None
    BY <2>1 DEF HInv, IInv, TypeOK
  <2> QED
    BY <1>r, <2>2 DEF Wants, Answers
<1>3. Evals' = Evals
  <2>1. \A d \in Callers : (Owns(d)' <=> Owns(d)) /\ (Owns(d) => on'[d] = on[d])
    BY <1>1, <1>r DEF Return, Owns, Leads, HInv, IInv, TypeOK
  <2> QED
    BY <1>1, <2>1, SameEvals, AllEvals DEF HInv, IInv, OwnerInv
<1>4. missed' = missed
  BY <1>1, <1>r, MissedKept DEF Return, HInv, IInv, TypeOK
<1>5. Wants[c] # None
  <2>1. ask[c] \in Keys
    BY DEF HInv, IInv, TypeOK
  <2> QED
    BY <1>1, <2>1, SharingAssumption DEF Wants
<1> QED
  BY <1>1, <1>2, <1>3, <1>4, <1>5
  DEF Sharing!Cancel, Sharing!Reply, Evals, Eval, Record, Wants, Answers

\* Joining a flight is no step of ReportSharing: the request goes on.
LEMMA JoinStep ==
    ASSUME HInv, HInv', HNext, NEW c \in Callers, Join(c)
    PROVE  UNCHANGED Mapped
<1>1. pc[c] = "arrived" /\ pc' = [pc EXCEPT ![c] = "waiting"]
      /\ UNCHANGED <<ttl, now, flights, inflight, ask, gone, answer>>
      /\ on' = [on EXCEPT ![c] = inflight[ask[c]]]
  BY DEF Join
<1>2. Wants' = Wants /\ Answers' = Answers
  BY <1>1, GoesOn DEF HInv, IInv
<1>3. Evals' = Evals
  <2>1. \A d \in Callers : (Owns(d)' <=> Owns(d)) /\ (Owns(d) => on'[d] = on[d])
    BY <1>1 DEF Owns, Leads, HInv, IInv, TypeOK
  <2> QED
    BY <1>1, <2>1, SameEvals, AllEvals DEF HInv, IInv, OwnerInv
<1>4. missed' = missed
  BY <1>1, MissedKept DEF HInv, IInv, TypeOK
<1> QED
  BY <1>1, <1>2, <1>3, <1>4 DEF Mapped

\* An evaluation begins for a caller that wants its key; with the cache on, no
\* other one of that key is current.
LEMMA BeginStep ==
    ASSUME HInv, HInv', HNext, NEW c \in Callers, Lead(c) \/ Direct(c)
    PROVE  \E f \in Flights : Sharing!Begin(c, f)
<1>1. PICK f \in Unused : Start(c, f) /\ (Lead(c) => inflight' = [inflight EXCEPT ![ask[c]] = f])
  BY DEF Lead, Direct
<1>2. /\ pc[c] = "arrived" /\ UNCHANGED <<ttl, now, ask, gone, answer>>
      /\ pc' = [pc EXCEPT ![c] = IF Lead(c) THEN "leading" ELSE "direct"]
      /\ Lead(c) => Cached /\ inflight[ask[c]] = None
      /\ ~Lead(c) => ~Cached /\ inflight' = inflight
  BY DEF Lead, Direct, Joinable, Cached
<1>3. f \in Flights /\ flights[f].stage = "unused" /\ ask[c] \in Keys
  BY DEF Unused, HInv, IInv, TypeOK
<1>4. /\ flights'[f].key = ask[c] /\ flights'[f].stage = "running"
      /\ flights'[f].outcome = flights[f].outcome
      /\ flights'[f].publishedAt = flights[f].publishedAt
      /\ \A g \in Flights \ {f} : flights'[g] = flights[g]
      /\ on' = [on EXCEPT ![c] = f]
  BY <1>1, <1>3, StartEffect DEF HInv, IInv
<1>5. Wants' = Wants /\ Answers' = Answers
  BY <1>2, GoesOn DEF HInv, IInv
<1>6. missed' = missed
  BY <1>2, MissedKept DEF HInv, IInv, TypeOK
<1>7. Owns(c)' /\ on'[c] = f /\ ~Owns(c)
      /\ \A d \in Callers : d # c => (Owns(d)' <=> Owns(d)) /\ on'[d] = on[d]
  BY <1>2, <1>4 DEF Owns, Leads, HInv, IInv, TypeOK
<1>8. Phase(f)' = "running" /\ Owner(f)' = c
  BY <1>4, <1>7, OwnerIsNext DEF Phase, HInv, IInv, OwnerInv
<1>9. ASSUME NEW g \in Flights \ {f} PROVE Eval(g)' = Eval(g)
  <2>1. Owner(g)' = Owner(g)
    BY <1>7, SameOwner DEF HInv, IInv, OwnerInv
  <2>2. Phase(g)' = Phase(g)
    <3>1. inflight'[flights[g].key] = g <=> inflight[flights[g].key] = g
      <4>1. flights[g].key \in Keys /\ None # g
        BY CacheAssumption DEF HInv, IInv, TypeOK, Flight, CacheAssumption
      <4>2. CASE Lead(c)
        BY <1>1, <1>2, <4>1, <4>2 DEF HInv, IInv, TypeOK
      <4>3. CASE ~Lead(c)
        BY <1>2, <4>3
      <4> QED
        BY <4>2, <4>3
    <3> QED
      BY <1>4, <3>1 DEF Phase
  <2> QED
    BY <1>4, <2>1, <2>2 DEF Eval
<1>12. Wants[c] = ask[c] /\ Wants[c] # None
  BY <1>2, <1>3, SharingAssumption DEF Wants
<1>10. Eval(f)' = Record(Wants[c], "running", c, flights[f].outcome, flights[f].publishedAt)
  BY <1>4, <1>8, <1>12 DEF Eval
<1>13. Evals' = [Evals EXCEPT ![f].key = Wants[c], ![f].phase = "running", ![f].owner = c]
  BY <1>3, <1>9, <1>10, EvalBegins
<1>14. Evals[f].phase = "none"
  BY <1>3 DEF Evals, Eval, Record, Phase
<1>15. ASSUME ttl >= 0, NEW g \in Flights, Phase(g) \in {"running", "over"}, flights[g].key = ask[c]
       PROVE  FALSE
  <2>1. inflight[ask[c]] = g
    BY <1>15, CurrentIsInflight DEF Cached, HInv
  <2> QED
    BY <1>2, <1>15, <2>1, CacheAssumption DEF Cached, CacheAssumption
<1>16. ttl >= 0 => {g \in Flights : Evals[g].phase \in {"running", "over"} /\ Evals[g].key = Wants[c]} = {}
  BY <1>12, <1>15 DEF Evals, Eval, Record
<1>17. Sharing!Begin(c, f)
  BY <1>2, <1>5, <1>6, <1>12, <1>13, <1>14, <1>16
  DEF Sharing!Begin, Sharing!Current, Evals, Eval, Record, Wants, Answers
<1> QED
  BY <1>3, <1>17

\* A shared evaluation ends, with a report or an error; its flight is still joined.
LEMMA EndStep ==
    ASSUME HInv, HInv', HNext, NEW c \in Callers, Evaluated(c)
    PROVE  \E f \in Flights, o \in {"report", "error"} : Sharing!End(f, o)
<1>f. PICK f : f = on[c]
  OBVIOUS
<1>1. pc[c] = "leading" /\ pc' = [pc EXCEPT ![c] = "closing"]
      /\ UNCHANGED <<ttl, now, inflight, ask, on, gone, answer>>
  BY DEF Evaluated
<1>2. PICK o \in {"report", "error"} : Finish(f, o)
  BY <1>f DEF Evaluated, EvaluateOutcomes, FlightCtxDone
<1>3. f \in Flights /\ Owns(c) /\ Leads(c) /\ Cached
  BY <1>1, <1>f, OnType DEF HInv, IInv, OwnerInv, ModeInv, Owns, Leads
<1>4. flights[f].key = ask[c] /\ flights[f].stage = "running" /\ inflight[ask[c]] = f
  BY <1>1, <1>3, <1>f DEF HInv, IInv, OwnerInv, OwnersKnowTheirFlight, LeadersHoldTheirKey
<1>5. /\ flights'[f].key = flights[f].key /\ flights'[f].stage = "done" /\ flights'[f].outcome = o
      /\ flights'[f].publishedAt = flights[f].publishedAt
      /\ \A g \in Flights \ {f} : flights'[g] = flights[g]
  BY <1>2, <1>3, FinishEffect DEF HInv, IInv, Outcomes
<1>6. \A d \in Callers : (Owns(d)' <=> Owns(d)) /\ on'[d] = on[d]
  BY <1>1 DEF Owns, Leads, HInv, IInv, TypeOK
<1>7. \A g \in Flights : Owner(g)' = Owner(g)
  BY <1>6, SameOwner DEF HInv, IInv, OwnerInv
<1>8. Phase(f)' = "over" /\ \A g \in Flights \ {f} : Phase(g)' = Phase(g)
  BY <1>1, <1>4, <1>5 DEF Phase
<1>9. /\ \A g \in Flights \ {f} : Eval(g)' = Eval(g)
      /\ Eval(f)' = Record(flights[f].key, "over", Owner(f), o, flights[f].publishedAt)
  BY <1>3, <1>5, <1>7, <1>8 DEF Eval
<1>10. Evals' = [Evals EXCEPT ![f].phase = "over", ![f].outcome = o]
  BY <1>3, <1>9, EvalEnds
<1>11. Wants' = Wants /\ Answers' = Answers
  BY <1>1, GoesOn DEF HInv, IInv
<1>12. missed' = missed
  BY <1>1, MissedKept DEF HInv, IInv, TypeOK
<1>13. Evals[f].phase = "running"
  BY <1>3, <1>4 DEF Evals, Eval, Record, Phase
<1>14. Sharing!End(f, o)
  BY <1>1, <1>3, <1>10, <1>11, <1>12, <1>13
  DEF Sharing!End, Evals, Eval, Record, Wants, Answers, Cached
<1> QED
  BY <1>3, <1>14

\* With a negative ttl an evaluation is its caller's alone, until it returns.
LEMMA AloneStep ==
    ASSUME HInv, HInv', HNext, NEW c \in Callers, DirectEvaluated(c)
    PROVE  \E f \in Flights, o \in {"report", "error", "aborted"} : Sharing!Alone(c, f, o)
<1>f. PICK f : f = on[c]
  OBVIOUS
<1>1. pc[c] = "direct" /\ UNCHANGED <<ttl, now, inflight, ask, gone>>
  BY DEF DirectEvaluated
<1>2. PICK o \in EvaluateOutcomes(gone[c]) : Finish(f, o) /\ Return(c, "direct", o, f)
  BY <1>f DEF DirectEvaluated
<1>3. f \in Flights /\ Owns(c) /\ ~Cached
  BY <1>1, <1>f, OnType DEF HInv, IInv, OwnerInv, ModeInv, Owns
<1>4. flights[f].key = ask[c] /\ flights[f].stage = "running" /\ on[c] = f
  BY <1>1, <1>3, <1>f DEF HInv, IInv, OwnerInv, OwnersKnowTheirFlight
<1>5. o \in {"report", "error", "aborted"} /\ (o = "aborted" => gone[c])
  BY DEF EvaluateOutcomes
<1>6. /\ flights'[f].key = flights[f].key /\ flights'[f].stage = "done" /\ flights'[f].outcome = o
      /\ flights'[f].publishedAt = flights[f].publishedAt
      /\ \A g \in Flights \ {f} : flights'[g] = flights[g]
  BY <1>2, <1>3, <1>5, FinishEffect DEF HInv, IInv, Outcomes
<1>7. ~Owns(c)' /\ \A d \in Callers : d # c => (Owns(d)' <=> Owns(d)) /\ on'[d] = on[d]
  BY <1>2 DEF Return, Owns, Leads, HInv, IInv, TypeOK
<1>8. Owner(f) = c
  BY <1>3, <1>4, OwnerIs DEF HInv, IInv, OwnerInv
<1>9. \A d \in Callers : ~(Owns(d)' /\ on'[d] = f)
  BY <1>3, <1>4, <1>7 DEF HInv, IInv, OwnerInv, OneOwner
<1>10. Owner(f)' = None
  BY <1>9, NoOwnerNext
<1>11. ASSUME NEW g \in Flights \ {f} PROVE Eval(g)' = Eval(g)
  <2>1. Owner(g)' = Owner(g)
    BY <1>4, <1>7, SameOwner DEF HInv, IInv, OwnerInv
  <2>2. Phase(g)' = Phase(g)
    BY <1>1, <1>6 DEF Phase
  <2> QED
    BY <1>6, <2>1, <2>2 DEF Eval
<1>12. Phase(f)' = "retired"
  <2>1. inflight[flights[f].key] = None /\ f # None
    BY <1>3, NothingInflight, CacheAssumption DEF HInv, IInv, TypeOK, Flight, CacheAssumption
  <2> QED
    BY <1>1, <1>6, <2>1 DEF Phase
<1>13. Eval(f)' = Record(flights[f].key, "retired", None, o, flights[f].publishedAt)
  BY <1>6, <1>10, <1>12 DEF Eval
<1>14. Evals' = [Evals EXCEPT ![f].phase = "retired", ![f].owner = None, ![f].outcome = o]
  BY <1>3, <1>11, <1>13, EvalEndsAlone
<1>15. Wants' = [Wants EXCEPT ![c] = None]
       /\ Answers' = [Answers EXCEPT ![c] = [outcome |-> o, flight |-> f]]
  BY <1>1, <1>2, Returned DEF HInv, IInv
<1>16. missed' = missed
  BY <1>2, MissedKept DEF Return, HInv, IInv, TypeOK
<1>17. Evals[f].phase = "running" /\ Evals[f].owner = c
  <2>1. Phase(f) = "running"
    BY <1>4 DEF Phase
  <2>2. Evals[f] = Eval(f)
    BY <1>3 DEF Evals
  <2>3. Eval(f).phase = Phase(f) /\ Eval(f).owner = Owner(f)
    BY DEF Eval, Record
  <2> QED
    BY <1>8, <2>1, <2>2, <2>3
<1>18. ttl < 0
  BY <1>3, CacheAssumption DEF Cached, HInv, IInv, TypeOK, CacheAssumption
<1>19. Sharing!Alone(c, f, o)
  BY <1>1, <1>5, <1>14, <1>15, <1>16, <1>17, <1>18
  DEF Sharing!Alone, Sharing!Reply, Evals, Eval, Record, Wants, Answers
<1> QED
  BY <1>3, <1>5, <1>19

\* The leader retires its evaluation, publishes its report and leaves.
LEMMA PublishStep ==
    ASSUME HInv, HInv', HNext, NEW c \in Callers, Publish(c)
    PROVE  \E f \in Flights : Sharing!Publish(c, f)
<1>f. PICK f, o, t : /\ f = on[c] /\ o = flights[f].outcome
                     /\ t = IF o = "report" THEN now ELSE flights[f].publishedAt
  OBVIOUS
<1>1. pc[c] = "closing" /\ UNCHANGED <<ttl, now, ask, gone>> /\ Return(c, "led", o, f)
  BY <1>f DEF Publish
<1>2. f \in Flights /\ Owns(c) /\ Leads(c) /\ Cached
  BY <1>1, <1>f, OnType DEF HInv, IInv, OwnerInv, ModeInv, Owns, Leads
<1>3. flights[f].key = ask[c] /\ flights[f].stage = "done" /\ inflight[ask[c]] = f
  BY <1>1, <1>2, <1>f DEF HInv, IInv, OwnerInv, OwnersKnowTheirFlight, LeadersHoldTheirKey
<1>4. o \in {"report", "error"}
  BY <1>2, <1>3, <1>f DEF HInv, IInv, ReportInv, OutcomesKnown, Outcomes
<1>5. /\ \A g \in Flights :
           /\ flights'[g].key = flights[g].key
           /\ flights'[g].stage = flights[g].stage
           /\ flights'[g].outcome = flights[g].outcome
           /\ flights'[g].publishedAt = IF g = f /\ NilError(flights[g].outcome)
                                         THEN now ELSE flights[g].publishedAt
      /\ inflight' = [inflight EXCEPT ![ask[c]] = None]
  BY <1>f, PublishEffect DEF HInv, IInv
<1>6. flights'[f].publishedAt = t
  BY <1>2, <1>4, <1>5, <1>f DEF NilError
<1>7. on[c] = f
  BY <1>f
<1>8. ~Owns(c)' /\ \A d \in Callers : d # c => (Owns(d)' <=> Owns(d)) /\ on'[d] = on[d]
  BY <1>1 DEF Return, Owns, Leads, HInv, IInv, TypeOK
<1>9. Owner(f) = c
  BY <1>2, <1>7, OwnerIs DEF HInv, IInv, OwnerInv
<1>10. \A d \in Callers : ~(Owns(d)' /\ on'[d] = f)
  BY <1>2, <1>7, <1>8 DEF HInv, IInv, OwnerInv, OneOwner
<1>11. Owner(f)' = None
  BY <1>10, NoOwnerNext
<1>12. \A g \in Flights : flights[g].key \in Keys /\ g # None
  BY CacheAssumption DEF HInv, IInv, TypeOK, Flight, CacheAssumption
<1>13. ASSUME NEW g \in Flights \ {f} PROVE Eval(g)' = Eval(g)
  <2>1. Owner(g)' = Owner(g)
    BY <1>7, <1>8, SameOwner DEF HInv, IInv, OwnerInv
  <2>2. inflight'[flights[g].key] = g <=> inflight[flights[g].key] = g
    BY <1>3, <1>5, <1>12 DEF HInv, IInv, TypeOK
  <2>3. Phase(g)' = Phase(g)
    BY <1>5, <2>2 DEF Phase
  <2> QED
    BY <1>5, <2>1, <2>3 DEF Eval
<1>14. Phase(f)' = "retired"
  <2>1. inflight'[flights[f].key] = None
    BY <1>2, <1>3, <1>5, <1>12 DEF HInv, IInv, TypeOK
  <2> QED
    BY <1>2, <1>3, <1>5, <1>12, <2>1 DEF Phase
<1>15. Eval(f)' = Record(flights[f].key, "retired", None, flights[f].outcome, t)
  BY <1>2, <1>5, <1>6, <1>11, <1>14 DEF Eval
<1>16. Evals' = [Evals EXCEPT ![f].phase = "retired", ![f].owner = None, ![f].publishedAt = t]
  BY <1>2, <1>13, <1>15, EvalPublished
<1>17. Wants' = [Wants EXCEPT ![c] = None]
       /\ Answers' = [Answers EXCEPT ![c] = [outcome |-> o, flight |-> f]]
  BY <1>1, Returned DEF HInv, IInv
<1>18. missed' = missed
  BY <1>1, MissedKept DEF Return, HInv, IInv, TypeOK
<1>19. Evals[f].phase = "over" /\ Evals[f].owner = c /\ Evals[f].outcome = o
       /\ Evals[f].publishedAt = flights[f].publishedAt
  BY <1>2, <1>3, <1>9, <1>f DEF Evals, Eval, Record, Phase
<1>20. Evals' = [Evals EXCEPT ![f].phase = "retired", ![f].owner = None,
                   ![f].publishedAt = IF Evals[f].outcome = "report" THEN now ELSE @]
  BY <1>2, <1>16, <1>19, <1>f DEF Evals, Eval, Record
<1>21. Sharing!Publish(c, f)
  BY <1>1, <1>17, <1>18, <1>19, <1>20
  DEF Sharing!Publish, Sharing!Reply, Evals, Eval, Record, Wants, Answers
<1> QED
  BY <1>2, <1>21

\* A request that arrives has missed the evaluations that are retired.
LEMMA ArriveStep ==
    ASSUME HInv, HInv', HNext, NEW c \in Callers, NEW k \in Keys, Arrive(c, k)
    PROVE  Sharing!Request(c, k)
<1>1. /\ pc[c] = "idle" /\ pc' = [pc EXCEPT ![c] = "arrived"] /\ ask' = [ask EXCEPT ![c] = k]
      /\ gone' = [gone EXCEPT ![c] = FALSE] /\ answer' = [answer EXCEPT ![c] = NoAnswer]
      /\ UNCHANGED <<ttl, now, flights, inflight, on>>
  BY DEF Arrive
<1>2. Wants[c] = None /\ Wants' = [Wants EXCEPT ![c] = k]
  <2>1. \A d \in Callers :
          /\ d # c => pc'[d] = pc[d] /\ ask'[d] = ask[d]
          /\ d = c => pc'[d] = "arrived" /\ ask'[d] = k
    BY <1>1 DEF HInv, IInv, TypeOK
  <2> QED
    BY <1>1, <2>1 DEF Wants
<1>3. Answers' = [Answers EXCEPT ![c] = [outcome |-> "none", flight |-> None]]
  <2>1. \A d \in Callers :
          /\ d # c => answer'[d] = answer[d]
          /\ d = c => answer'[d].outcome = "none" /\ answer'[d].flight = None
    BY <1>1 DEF HInv, IInv, TypeOK, NoAnswer
  <2> QED
    BY <2>1 DEF Answers
<1>4. Evals' = Evals
  <2>1. \A d \in Callers : (Owns(d)' <=> Owns(d)) /\ (Owns(d) => on'[d] = on[d])
    BY <1>1 DEF Owns, Leads, HInv, IInv, TypeOK
  <2> QED
    BY <1>1, <2>1, SameEvals, AllEvals DEF HInv, IInv, OwnerInv
<1>5. missed' = [missed EXCEPT ![c] = RetiredFlights]
  <2>1. \A d \in Callers : (pc[d] = "idle" /\ pc'[d] = "arrived") <=> d = c
    BY <1>1 DEF HInv, IInv, TypeOK
  <2> QED
    BY <2>1 DEF HNext, HInv
<1>6. {f \in Flights : Evals[f].phase = "retired"} = RetiredFlights
  BY DEF Evals, Eval, Record, RetiredFlights
<1> QED
  BY <1>1, <1>2, <1>3, <1>4, <1>5, <1>6
  DEF Sharing!Request, Sharing!Retired, Sharing!Nothing, Evals, Eval, Record, Wants, Answers

LEMMA DisconnectStep ==
    ASSUME HInv, HInv', HNext, NEW c \in Callers, Disconnect(c)
    PROVE  Sharing!Disconnect(c)
<1>1. pc[c] # "idle" /\ gone' = [gone EXCEPT ![c] = TRUE]
      /\ UNCHANGED <<ttl, now, flights, inflight, pc, ask, on, answer>>
  BY DEF Disconnect
<1>2. Wants[c] # None
  <2>1. ask[c] \in Keys
    BY DEF HInv, IInv, TypeOK
  <2> QED
    BY <1>1, <2>1, SharingAssumption DEF Wants
<1>3. Evals' = Evals /\ Wants' = Wants /\ Answers' = Answers
  <2>1. \A d \in Callers : (Owns(d)' <=> Owns(d)) /\ (Owns(d) => on'[d] = on[d])
    BY <1>1 DEF Owns, Leads
  <2>2. Evals' = Evals
    BY <1>1, <2>1, SameEvals, AllEvals DEF HInv, IInv, OwnerInv
  <2> QED
    BY <1>1, <2>2 DEF Wants, Answers
<1>4. missed' = missed
  BY <1>1, MissedKept DEF HInv, IInv, TypeOK
<1> QED
  BY <1>1, <1>2, <1>3, <1>4 DEF Sharing!Disconnect, Evals, Eval, Record, Wants, Answers

LEMMA TickStep ==
    ASSUME HInv, HInv', HNext, Tick
    PROVE  Sharing!Pass
<1>1. now' = now + 1 /\ UNCHANGED <<ttl, flights, inflight, pc, ask, on, gone, answer>>
  BY DEF Tick
<1>2. Evals' = Evals /\ Wants' = Wants /\ Answers' = Answers
  <2>1. \A d \in Callers : (Owns(d)' <=> Owns(d)) /\ (Owns(d) => on'[d] = on[d])
    BY <1>1 DEF Owns, Leads
  <2>2. Evals' = Evals
    BY <1>1, <2>1, SameEvals, AllEvals DEF HInv, IInv, OwnerInv
  <2> QED
    BY <1>1, <2>2 DEF Wants, Answers
<1>3. missed' = missed
  BY <1>1, MissedKept DEF HInv, IInv, TypeOK
<1> QED
  BY <1>1, <1>2, <1>3 DEF Sharing!Pass, Evals, Eval, Record, Wants, Answers

\* A caller's own step, Proceed or Evaluate.
LEMMA CallerStep ==
    ASSUME HInv, HInv', HNext, NEW c \in Callers, Proceed(c) \/ Evaluate(c)
    PROVE  Sharing!Next \/ UNCHANGED Mapped
<1>1. CASE Hit(c)
  BY <1>1, HitStep DEF Sharing!Next
<1>2. CASE Join(c)
  BY <1>2, JoinStep
<1>3. CASE Lead(c) \/ Direct(c)
  BY <1>3, BeginStep DEF Sharing!Next
<1>4. CASE Evaluated(c)
  BY <1>4, EndStep DEF Sharing!Next
<1>5. CASE DirectEvaluated(c)
  BY <1>5, AloneStep DEF Sharing!Next
<1>6. CASE Publish(c)
  BY <1>6, PublishStep DEF Sharing!Next
<1>7. CASE WaitDone(c)
  BY <1>7, WaitDoneStep DEF Sharing!Next
<1>8. CASE GiveUp(c)
  BY <1>8, GiveUpStep DEF Sharing!Next
<1> QED
  BY <1>1, <1>2, <1>3, <1>4, <1>5, <1>6, <1>7, <1>8 DEF Proceed, Evaluate, Lookup

LEMMA EveryStep ==
    ASSUME HInv, HInv', [HNext]_<<vars, missed>>
    PROVE  [Sharing!Next]_Sharing!vars
<1>1. CASE UNCHANGED <<vars, missed>>
  <2>1. UNCHANGED Mapped
    BY <1>1 DEF vars, Mapped, Evals, Eval, Record, Wants, Answers, Phase, Owner, Owns, Leads
  <2> QED
    BY <2>1, MappedVars
<1>2. CASE HNext
  <2>1. Next
    BY <1>2 DEF HNext
  <2>2. ASSUME NEW c \in Callers, NEW k \in Keys, Arrive(c, k) PROVE Sharing!Next
    BY <1>2, <2>2, ArriveStep DEF Sharing!Next
  <2>3. ASSUME NEW c \in Callers, Disconnect(c) PROVE Sharing!Next
    BY <1>2, <2>3, DisconnectStep DEF Sharing!Next
  <2>4. ASSUME NEW c \in Callers, Proceed(c) \/ Evaluate(c) PROVE Sharing!Next \/ UNCHANGED Mapped
    BY <1>2, <2>4, CallerStep
  <2>5. CASE Tick
    BY <1>2, <2>5, TickStep DEF Sharing!Next
  <2> QED
    BY <2>1, <2>2, <2>3, <2>4, <2>5, MappedVars DEF Next
<1> QED
  BY <1>1, <1>2

-----------------------------------------------------------------------------
(* What a request has missed.                                               *)

\* A retired evaluation stays retired: it is never started, ended or joined again.
LEMMA RetiredStays ==
    ASSUME HInv, [Next]_vars
    PROVE  RetiredFlights \subseteq RetiredFlights'
<1> SUFFICES ASSUME NEW f \in Flights, Phase(f) = "retired"
             PROVE  Phase(f)' = "retired"
  BY DEF RetiredFlights
<1>0. /\ TypeOK /\ flights[f] \in Flight /\ f # None
  BY CacheAssumption DEF HInv, IInv, TypeOK, CacheAssumption
<1>1. flights[f].stage = "done" /\ inflight[flights[f].key] # f /\ flights[f].key \in Keys
  BY <1>0 DEF Phase, Flight
<1>2. ASSUME flights'[f].key = flights[f].key, flights'[f].stage = "done",
             inflight'[flights[f].key] # f
      PROVE  Phase(f)' = "retired"
  BY <1>2 DEF Phase
<1>3. ASSUME UNCHANGED <<flights, inflight>> PROVE Phase(f)' = "retired"
  BY <1>1, <1>2, <1>3
<1>4. ASSUME NEW c \in Callers, Lead(c) \/ Direct(c) PROVE Phase(f)' = "retired"
  <2>1. PICK g \in Unused : /\ Start(c, g)
                            /\ inflight' = inflight \/ inflight' = [inflight EXCEPT ![ask[c]] = g]
    BY <1>4 DEF Lead, Direct
  <2>2. g \in Flights /\ f # g
    BY <1>1 DEF Unused
  <2>3. flights'[f] = flights[f]
    BY <1>0, <2>1, <2>2, StartEffect
  <2>4. inflight'[flights[f].key] # f
    BY <1>0, <1>1, <2>1, <2>2 DEF TypeOK
  <2> QED
    BY <1>1, <1>2, <2>3, <2>4
<1>5. ASSUME NEW c \in Callers, Evaluate(c) PROVE Phase(f)' = "retired"
  <2>1. PICK o \in Outcomes : Finish(on[c], o)
    BY <1>5, EvaluateOutcomesType DEF Evaluate, Evaluated, DirectEvaluated
  <2>2. on[c] \in Flights /\ inflight' = inflight
    BY <1>0, <1>5, OnType DEF Evaluate, Evaluated, DirectEvaluated
  <2>3. flights'[f].key = flights[f].key /\ flights'[f].stage = "done"
    BY <1>0, <1>1, <2>1, <2>2, FinishEffect
  <2> QED
    BY <1>1, <1>2, <2>2, <2>3
<1>6. ASSUME NEW c \in Callers, Publish(c) PROVE Phase(f)' = "retired"
  <2>1. flights'[f].key = flights[f].key /\ flights'[f].stage = flights[f].stage
        /\ inflight' = [inflight EXCEPT ![ask[c]] = None]
    BY <1>0, <1>6, PublishEffect
  <2>2. inflight'[flights[f].key] # f
    BY <1>0, <1>1, <2>1 DEF TypeOK
  <2> QED
    BY <1>1, <1>2, <2>1, <2>2
<1> QED
  BY <1>3, <1>4, <1>5, <1>6
  DEF Next, vars, Proceed, Lookup, Arrive, Disconnect, Tick, Hit, Join, WaitDone, GiveUp

\* Who waits after a step has waited before it, or has joined a flight that is
\* not retired.
LEMMA WaitersNext ==
    ASSUME HInv, Next, NEW c \in Callers, pc'[c] = "waiting"
    PROVE  \/ pc[c] = "waiting" /\ on'[c] = on[c]
           \/ pc[c] = "arrived" /\ on'[c] \notin RetiredFlights
<1>0. TypeOK
  BY DEF HInv, IInv
<1>1. ASSUME Join(c) PROVE pc[c] = "arrived" /\ on'[c] \notin RetiredFlights
  <2>1. PICK g : g = inflight[ask[c]]
    OBVIOUS
  <2>2. pc[c] = "arrived" /\ on'[c] = g /\ g # None /\ ask[c] \in Keys
    BY <1>0, <1>1, <2>1 DEF Join, Joinable, TypeOK
  <2>3. PICK d \in Callers : on[d] = g /\ ask[d] = ask[c] /\ pc[d] \in {"leading", "closing"}
    BY <2>1, <2>2 DEF HInv, IInv, OwnerInv, NoOrphanFlight
  <2>4. flights[g].key = ask[c]
    BY <2>3 DEF HInv, IInv, OwnerInv, OwnersKnowTheirFlight, Owns, Leads
  <2>5. Phase(g) # "retired"
    BY <2>1, <2>4 DEF Phase
  <2> QED
    BY <2>2, <2>5 DEF RetiredFlights
<1>2. ASSUME NEW d \in Callers, d # c \/ ~Join(c),
             (\E k \in Keys : Arrive(d, k)) \/ Disconnect(d) \/ Proceed(d) \/ Evaluate(d)
      PROVE  pc[c] = "waiting" /\ on'[c] = on[c]
  BY <1>0, <1>2
  DEF TypeOK, Arrive, Disconnect, Proceed, Evaluate, Lookup, Hit, Join, Lead, Direct, Start,
      Evaluated, DirectEvaluated, Publish, WaitDone, GiveUp, Return
<1> QED
  BY <1>1, <1>2 DEF Next, Tick

LEMMA MissedNext ==
    ASSUME HInv, [HNext]_<<vars, missed>>
    PROVE  missed' \in [Callers -> SUBSET Flights] /\ MissedInv'
<1>1. CASE UNCHANGED <<vars, missed>>
  BY <1>1 DEF HInv, MissedInv, RetiredFlights, Phase, vars
<1>2. CASE HNext
  <2>1. Next /\ RetiredFlights \subseteq RetiredFlights'
    BY <1>2, RetiredStays DEF HNext
  <2>2. \A c \in Callers :
          missed'[c] = IF pc[c] = "idle" /\ pc'[c] = "arrived" THEN RetiredFlights ELSE missed[c]
    BY <1>2 DEF HNext
  <2>3. missed' \in [Callers -> SUBSET Flights]
    BY <1>2 DEF HNext, HInv, RetiredFlights
  <2>4. ASSUME NEW c \in Callers PROVE missed'[c] \subseteq RetiredFlights'
    BY <2>1, <2>2 DEF HInv, MissedInv
  <2>5. ASSUME NEW c \in Callers, pc'[c] = "waiting" PROVE on'[c] \notin missed'[c]
    <3>1. missed'[c] = missed[c] /\ missed[c] \subseteq RetiredFlights
      BY <2>2, <2>5 DEF HInv, MissedInv
    <3> QED
      BY <2>1, <2>5, <3>1, WaitersNext DEF HInv, MissedInv
  <2> QED
    BY <2>3, <2>4, <2>5 DEF MissedInv
<1> QED
  BY <1>1, <1>2

LEMMA InitHInv == HInit => HInv
<1> SUFFICES ASSUME HInit PROVE HInv
  OBVIOUS
<1>1. IInv
  BY InitIInv, CacheAssumption DEF HInit
<1>2. missed = [c \in Callers |-> {}] /\ \A c \in Callers : pc[c] = "idle"
  BY DEF HInit, Init
<1> QED
  BY <1>1, <1>2 DEF HInv, MissedInv

LEMMA NextHInv == HInv /\ [HNext]_<<vars, missed>> => HInv'
<1> SUFFICES ASSUME HInv, [HNext]_<<vars, missed>> PROVE HInv'
  OBVIOUS
<1>1. IInv /\ [Next]_vars
  BY DEF HInv, HNext
<1>2. IInv'
  BY <1>1, CacheAssumption, NextIInv
<1> QED
  BY <1>2, MissedNext DEF HInv

-----------------------------------------------------------------------------
(* ReportCacheSharing: the theorems.                                         *)

\* What a request has missed stays retired and is waited for by nobody, in every
\* reachable state of the cache (cache.go:50-91).
THEOREM SharingInvariant == HSpec => []HInv
<1> QED
  BY InitHInv, NextHInv, PTL DEF HSpec

LEMMA InitSharing == HInit => Sharing!Init
<1> SUFFICES ASSUME HInit PROVE Sharing!Init
  OBVIOUS
<1>1. ttl \in TTLs /\ now = 0 /\ gone = [c \in Callers |-> FALSE]
      /\ missed = [c \in Callers |-> {}] /\ pc = [c \in Callers |-> "idle"]
      /\ answer = [c \in Callers |-> NoAnswer]
  BY DEF HInit, Init
<1>2. PICK k \in Keys : flights = [f \in Flights |-> [key |-> k, stage |-> "unused",
                                       outcome |-> "none", publishedAt |-> -1]]
  BY DEF HInit, Init
<1>3. \A f \in Flights : Phase(f) = "none" /\ Owner(f) = None
  BY <1>1, <1>2 DEF Phase, Owner, Owns, Leads
<1>4. Evals = [f \in Flights |-> [key |-> k, phase |-> "none", owner |-> None,
                                  outcome |-> "none", publishedAt |-> -1]]
  BY <1>2, <1>3 DEF Evals, Eval, Record
<1>5. Wants = [c \in Callers |-> None]
  BY <1>1 DEF Wants
<1>6. Answers = [c \in Callers |-> [outcome |-> "none", flight |-> None]]
  BY <1>1 DEF Answers, NoAnswer
<1> QED
  BY <1>1, <1>4, <1>5, <1>6
  DEF Sharing!Init, Sharing!Nothing, Evals, Eval, Record, Wants, Answers

\* Every behaviour of reportCache.do is one that ReportSharing allows, for any
\* callers, keys, ttl and size of the map (cache.go:50-91).
THEOREM CacheImplementsSharing == HSpec => ImplementsSharing
<1>1. HInv /\ HInv' /\ [HNext]_<<vars, missed>> => [Sharing!Next]_Sharing!vars
  BY EveryStep
<1> QED
  BY <1>1, InitSharing, SharingInvariant, PTL DEF HSpec, ImplementsSharing, Sharing!Spec
-----------------------------------------------------------------------------
(* ServiceHealth: the inductive invariant, beside that of the cache.         *)

HealthTypeOK ==
    /\ polls \in Seq(Nat)
    /\ taken \in [Callers -> Nat]
    /\ down \in BOOLEAN
    /\ upSince \in Nat \cup {Never}
    /\ scored \in [Flights -> [snap: Nat, began: Nat, exposed: BOOLEAN, errored: BOOLEAN]]

\* Snapshot n was on display at t, or came later.
DisplayedSince(n, t) == n \in 1..Len(polls) /\ t <= ReplacedAt(n)

\* A request looks the cache up at the moment it reads the snapshot, and an evaluation
\* begins with a snapshot that is on display.
DisplayInv ==
    /\ \A n \in 1..Len(polls) : polls[n] <= now
    /\ \A c \in Callers : pc[c] = "arrived" => DisplayedSince(taken[c], now)
    /\ \A f \in Flights :
         flights[f].stage # "unused" => DisplayedSince(scored[f].snap, scored[f].began)

\* A flight is over within EvalTime, and so are its publication and the wait for it.
DurationInv ==
    /\ \A c \in Callers :
         Owns(c) \/ (pc[c] = "waiting" /\ FlightDone(on[c])) => now <= scored[on[c]].began + EvalTime
    /\ \A f \in Flights :
         /\ scored[f].began <= now
         /\ flights[f].publishedAt >= 0 => flights[f].publishedAt <= scored[f].began + EvalTime

\* Only an outage that was not over before an evaluation began can spoil it.
OutageInv ==
    \A f \in Flights :
      /\ scored[f].errored => scored[f].exposed
      /\ scored[f].exposed => down \/ scored[f].began <= upSince

RequestInv == IInv /\ HealthTypeOK /\ DisplayInv /\ DurationInv /\ OutageInv

-----------------------------------------------------------------------------
(* ServiceHealth: requests, snapshots and outages.                          *)

\* The cache moves as in its own specification, whatever happens around it.
LEMMA HealthStep ==
    ASSUME [HealthNext]_allVars
    PROVE  [Next]_vars
<1>1. CASE Poll \/ Outage \/ Recover
  BY <1>1 DEF Poll, Outage, Recover
<1>2. CASE TimePasses
  BY <1>2 DEF TimePasses, Next
<1>3. ASSUME NEW c \in Callers, NEW k \in Keys, Request(c, k) PROVE Next
  BY <1>3 DEF Request, Next
<1>4. ASSUME NEW c \in Callers, BeginEvaluation(c) \/ EndEvaluation(c) \/ Elsewhere(c) PROVE Next
  BY <1>4 DEF BeginEvaluation, EndEvaluation, Elsewhere, Next, Proceed, Lookup
<1> QED
  BY <1>1, <1>2, <1>3, <1>4 DEF HealthNext, allVars

\* The path of a request uses the cache as it is: without what ServiceHealth adds, every
\* behaviour of it is one of the cache, whose theorems therefore hold there as well
\* (server.go:253-265, service.go:287-290).
THEOREM RequestsUseTheCache == HealthSpec => Spec
<1>1. HealthInit => Init
  BY DEF HealthInit
<1>2. [HealthNext]_allVars => [Next]_vars
  BY HealthStep
<1> QED
  BY <1>1, <1>2, PTL DEF HealthSpec, Spec

\* The clock and the snapshots only grow.
LEMMA ClocksGrow ==
    ASSUME CacheAssumption, IInv, [HealthNext]_allVars
    PROVE  /\ now \in Nat /\ ttl \in Int /\ ttl' = ttl
           /\ \/ now' = now /\ polls' \in {polls, Append(polls, now)}
              \/ now' = now + 1 /\ polls' = polls /\ TimePasses
<1>1. now \in Nat /\ ttl \in Int /\ ttl' = ttl
  BY HealthStep, TtlIsFixed DEF IInv, TypeOK
<1>2. CASE Poll \/ Outage \/ Recover
  BY <1>1, <1>2 DEF Poll, Outage, Recover, vars
<1>3. CASE TimePasses
  BY <1>1, <1>3 DEF TimePasses, Tick, added
<1>4. ASSUME NEW c \in Callers, NEW k \in Keys, Request(c, k)
      PROVE  now' = now /\ polls' = polls
  BY <1>4 DEF Request, Arrive
<1>5. ASSUME NEW c \in Callers, BeginEvaluation(c) PROVE now' = now /\ polls' = polls
  BY <1>5 DEF BeginEvaluation, Lead, Direct
<1>6. ASSUME NEW c \in Callers, EndEvaluation(c) PROVE now' = now /\ polls' = polls
  BY <1>6 DEF EndEvaluation, Evaluate, Evaluated, DirectEvaluated
<1>7. ASSUME NEW c \in Callers, Elsewhere(c) PROVE now' = now /\ polls' = polls
  BY <1>7 DEF Elsewhere, Hit, Join, Publish, WaitDone, GiveUp, Disconnect, added
<1> QED
  BY <1>1, <1>2, <1>3, <1>4, <1>5, <1>6, <1>7 DEF HealthNext, allVars, vars, added

\* The fields of what is known of an evaluation.
LEMMA ScoredFields ==
    ASSUME HealthTypeOK, NEW f \in Flights
    PROVE  /\ scored[f] \in [snap: Nat, began: Nat, exposed: BOOLEAN, errored: BOOLEAN]
           /\ scored[f].snap \in Nat /\ scored[f].began \in Nat
BY DEF HealthTypeOK

LEMMA HealthTypeNext ==
    ASSUME CacheAssumption, IInv, HealthTypeOK, [HealthNext]_allVars
    PROVE  HealthTypeOK'
<1>n. now \in Nat
  BY DEF IInv, TypeOK
<1>1. CASE Poll
  BY <1>n, <1>1 DEF Poll, HealthTypeOK
<1>2. CASE Outage
  <2> DEFINE g(f) == [scored[f] EXCEPT !.exposed = @ \/ flights[f].stage = "running"]
  <2>1. ASSUME NEW f \in Flights
        PROVE  g(f) \in [snap: Nat, began: Nat, exposed: BOOLEAN, errored: BOOLEAN]
    BY ScoredFields
  <2>2. scored' = [f \in Flights |-> g(f)]
    BY <1>2 DEF Outage
  <2> HIDE DEF g
  <2>3. scored' \in [Flights -> [snap: Nat, began: Nat, exposed: BOOLEAN, errored: BOOLEAN]]
    BY <2>1, <2>2
  <2> QED
    BY <1>2, <2>3 DEF Outage, HealthTypeOK
<1>3. CASE Recover
  BY <1>n, <1>3 DEF Recover, HealthTypeOK
<1>4. CASE TimePasses
  BY <1>4 DEF TimePasses, added, HealthTypeOK
<1>5. ASSUME NEW c \in Callers, NEW k \in Keys, Request(c, k) PROVE HealthTypeOK'
  BY <1>5 DEF Request, HealthTypeOK
<1>6. ASSUME NEW c \in Callers, BeginEvaluation(c) PROVE HealthTypeOK'
  <2> DEFINE s == [snap |-> taken[c], began |-> now, exposed |-> down, errored |-> FALSE]
  <2>1. s \in [snap: Nat, began: Nat, exposed: BOOLEAN, errored: BOOLEAN]
    BY <1>n DEF HealthTypeOK
  <2>2. scored' = [scored EXCEPT ![on'[c]] = s] /\ UNCHANGED <<polls, taken, down, upSince>>
    BY <1>6 DEF BeginEvaluation
  <2> HIDE DEF s
  <2> QED
    BY <2>1, <2>2 DEF HealthTypeOK
<1>7. ASSUME NEW c \in Callers, EndEvaluation(c) PROVE HealthTypeOK'
  <2>1. on[c] \in Flights
    BY <1>7, OnType DEF EndEvaluation, Evaluate, Evaluated, DirectEvaluated, IInv
  <2>2. PICK e \in BOOLEAN : scored' = [scored EXCEPT ![on[c]].errored = e]
    BY <1>7 DEF EndEvaluation
  <2>3. [scored[on[c]] EXCEPT !.errored = e]
          \in [snap: Nat, began: Nat, exposed: BOOLEAN, errored: BOOLEAN]
    BY <2>1, ScoredFields
  <2>4. scored' \in [Flights -> [snap: Nat, began: Nat, exposed: BOOLEAN, errored: BOOLEAN]]
    BY <2>1, <2>2, <2>3 DEF HealthTypeOK
  <2> QED
    BY <1>7, <2>4 DEF EndEvaluation, HealthTypeOK
<1>8. ASSUME NEW c \in Callers, Elsewhere(c) PROVE HealthTypeOK'
  BY <1>8 DEF Elsewhere, added, HealthTypeOK
<1> QED
  BY <1>1, <1>2, <1>3, <1>4, <1>5, <1>6, <1>7, <1>8 DEF HealthNext, allVars, added, HealthTypeOK

\* The flights a caller is on, and those that were published, have begun.
LEMMA BegunFlights ==
    ASSUME IInv
    PROVE  /\ \A c \in Callers : Owns(c) \/ pc[c] = "waiting" =>
                on[c] \in Flights /\ flights[on[c]].stage # "unused"
           /\ \A f \in Flights : flights[f].publishedAt >= 0 => flights[f].stage # "unused"
<1>1. \A c \in Callers : Owns(c) \/ pc[c] = "waiting" => on[c] \in Flights
  BY OnType DEF IInv, Owns, Leads
<1>2. \A c \in Callers : Owns(c) \/ pc[c] = "waiting" => flights[on[c]].stage # "unused"
  BY <1>1 DEF IInv, OwnerInv, ReportInv, OwnersKnowTheirFlight, WaitersWantTheirFlight, Owns, Leads
<1>3. \A f \in Flights : flights[f].publishedAt >= 0 => flights[f].stage # "unused"
  BY DEF IInv, ReportInv, OutcomesKnown
<1> QED
  BY <1>1, <1>2, <1>3

\* What an evaluation began with stays; one that begins does so with what its caller
\* has read.
LEMMA ScoredKept ==
    ASSUME CacheAssumption, IInv, HealthTypeOK, [HealthNext]_allVars,
           NEW f \in Flights, flights[f].stage # "unused"
    PROVE  /\ scored'[f].snap = scored[f].snap
           /\ scored'[f].began = scored[f].began
<1>1. CASE Outage
  <2>1. scored'[f] = [scored[f] EXCEPT !.exposed = @ \/ flights[f].stage = "running"]
    BY <1>1 DEF Outage
  <2> QED
    BY <2>1, ScoredFields
<1>2. ASSUME NEW c \in Callers, BeginEvaluation(c) PROVE scored'[f] = scored[f]
  <2>1. PICK g \in Unused : Start(c, g)
    BY <1>2 DEF BeginEvaluation, Lead, Direct
  <2>2. g \in Flights /\ g # f
    BY <2>1 DEF Unused
  <2>3. on'[c] = g
    BY <2>1, <2>2, StartEffect DEF IInv, TypeOK
  <2> QED
    BY <1>2, <2>2, <2>3 DEF BeginEvaluation, HealthTypeOK
<1>3. ASSUME NEW c \in Callers, EndEvaluation(c)
      PROVE  scored'[f].snap = scored[f].snap /\ scored'[f].began = scored[f].began
  BY <1>3, ScoredFields DEF EndEvaluation, HealthTypeOK
<1>4. CASE scored' = scored
  BY <1>4
<1> QED
  BY <1>1, <1>2, <1>3, <1>4
  DEF HealthNext, allVars, added, Poll, Recover, TimePasses, Request, Elsewhere

LEMMA Begun ==
    ASSUME CacheAssumption, IInv, HealthTypeOK, NEW c \in Callers, BeginEvaluation(c)
    PROVE  \E f \in Unused :
             /\ pc[c] = "arrived" /\ f \in Flights
             /\ on' = [on EXCEPT ![c] = f] /\ pc'[c] \in {"leading", "direct"}
             /\ \A d \in Callers \ {c} : pc'[d] = pc[d]
             /\ scored'[f] = [snap |-> taken[c], began |-> now, exposed |-> down, errored |-> FALSE]
             /\ \A g \in Flights \ {f} : flights'[g] = flights[g] /\ scored'[g] = scored[g]
             /\ flights'[f].publishedAt = flights[f].publishedAt /\ flights'[f].stage = "running"
             /\ now' = now /\ down' = down /\ upSince' = upSince /\ polls' = polls
<1>1. PICK f \in Unused : Start(c, f)
  BY DEF BeginEvaluation, Lead, Direct
<1>2. f \in Flights
  BY <1>1 DEF Unused
<1>3. /\ on' = [on EXCEPT ![c] = f]
      /\ flights'[f].publishedAt = flights[f].publishedAt /\ flights'[f].stage = "running"
      /\ \A g \in Flights \ {f} : flights'[g] = flights[g]
  BY <1>1, <1>2, StartEffect DEF IInv
<1>4. /\ pc[c] = "arrived" /\ pc'[c] \in {"leading", "direct"} /\ now' = now
      /\ \A d \in Callers \ {c} : pc'[d] = pc[d]
  BY DEF BeginEvaluation, Lead, Direct, IInv, TypeOK
<1>5. on'[c] = f
  BY <1>3 DEF IInv, TypeOK
<1> QED
  BY <1>1, <1>2, <1>3, <1>4, <1>5 DEF BeginEvaluation, HealthTypeOK

\* Only BeginEvaluation uses a new flight.
LEMMA NewFlight ==
    ASSUME CacheAssumption, IInv, [HealthNext]_allVars, NEW f \in Flights,
           flights[f].stage = "unused", flights'[f].stage # "unused"
    PROVE  \E c \in Callers : BeginEvaluation(c) /\ on'[c] = f
<1>1. ASSUME flights' = flights PROVE FALSE
  BY <1>1
<1>2. ASSUME NEW c \in Callers, BeginEvaluation(c) PROVE on'[c] = f
  <2>1. PICK g \in Unused : Start(c, g)
    BY <1>2 DEF BeginEvaluation, Lead, Direct
  <2>2. g \in Flights
    BY <2>1 DEF Unused
  <2> QED
    BY <2>1, <2>2, StartEffect DEF IInv, TypeOK
<1>3. ASSUME NEW c \in Callers, EndEvaluation(c) PROVE FALSE
  <2>1. Owns(c)
    BY <1>3 DEF EndEvaluation, Evaluate, Evaluated, DirectEvaluated, Owns, Leads
  <2>2. on[c] # f /\ on[c] \in Flights
    BY <2>1, BegunFlights
  <2>3. PICK o \in Outcomes : Finish(on[c], o)
    BY <1>3, EvaluateOutcomesType DEF EndEvaluation, Evaluate, Evaluated, DirectEvaluated
  <2> QED
    BY <2>2, <2>3, FinishEffect DEF IInv
<1>4. ASSUME NEW c \in Callers, Publish(c) PROVE FALSE
  BY <1>4, PublishEffect DEF IInv
<1> QED
  BY <1>1, <1>2, <1>3, <1>4
  DEF HealthNext, allVars, vars, Poll, Outage, Recover, TimePasses, Tick, Request, Arrive, Elsewhere,
      Hit, Join, WaitDone, GiveUp, Disconnect

\* A snapshot does not become older than it is.
LEMMA DisplayedKept ==
    ASSUME HealthTypeOK, now \in Nat, \A n \in 1..Len(polls) : polls[n] <= now,
           \/ now' = now /\ polls' \in {polls, Append(polls, now)}
           \/ now' = now + 1 /\ polls' = polls,
           NEW n \in Nat, NEW t \in Nat, DisplayedSince(n, t)
    PROVE  /\ n \in 1..Len(polls')
           /\ t <= IF n < Len(polls') THEN polls'[n + 1] ELSE now'
<1>0. polls \in Seq(Nat) /\ Len(polls) \in Nat
  BY DEF HealthTypeOK
<1>1. CASE polls' = polls
  BY <1>0, <1>1 DEF DisplayedSince, ReplacedAt
<1>2. CASE polls' = Append(polls, now)
  <2>1. Len(polls') = Len(polls) + 1 /\ polls'[Len(polls) + 1] = now
        /\ \A i \in 1..Len(polls) : polls'[i] = polls[i]
    BY <1>0, <1>2
  <2> QED
    BY <1>0, <2>1 DEF DisplayedSince, ReplacedAt
<1> QED
  BY <1>1, <1>2

LEMMA DisplayNext ==
    ASSUME CacheAssumption, IInv, HealthTypeOK, DisplayInv, [HealthNext]_allVars
    PROVE  DisplayInv'
<1>c. /\ now \in Nat
      /\ \/ now' = now /\ polls' \in {polls, Append(polls, now)}
         \/ now' = now + 1 /\ polls' = polls /\ TimePasses
  BY ClocksGrow
<1>p. polls \in Seq(Nat) /\ Len(polls) \in Nat /\ taken \in [Callers -> Nat]
  BY DEF HealthTypeOK
<1>k. ASSUME NEW n \in Nat, NEW t \in Nat, DisplayedSince(n, t)
      PROVE  /\ n \in 1..Len(polls')
             /\ t <= IF n < Len(polls') THEN polls'[n + 1] ELSE now'
  BY <1>c, <1>k, DisplayedKept DEF DisplayInv
<1>1. \A n \in 1..Len(polls') : polls'[n] <= now'
  <2>1. CASE polls' = polls
    BY <1>c, <2>1, <1>p DEF DisplayInv
  <2>2. CASE polls' = Append(polls, now) /\ now' = now
    <3>1. Len(polls') = Len(polls) + 1 /\ polls'[Len(polls) + 1] = now
          /\ \A i \in 1..Len(polls) : polls'[i] = polls[i]
      BY <1>p, <1>c, <2>2
    <3> QED
      BY <1>p, <1>c, <2>2, <3>1 DEF DisplayInv
  <2> QED
    BY <1>c, <2>1, <2>2
<1>2. ASSUME NEW c \in Callers, pc'[c] = "arrived"
      PROVE  DisplayedSince(taken[c], now)'
  <2>1. CASE pc[c] = "arrived" /\ taken'[c] = taken[c] /\ now' = now
    BY <1>c, <1>k, <1>p, <2>1 DEF DisplayInv, DisplayedSince, ReplacedAt
  <2>2. CASE \E k \in Keys : Request(c, k)
    <3>1. polls # <<>> /\ polls' = polls /\ now' = now /\ taken'[c] = Len(polls)
      BY <2>2, <1>p DEF Request, Arrive
    <3>2. Len(polls) >= 1
      BY <1>p, <3>1
    <3> QED
      BY <1>c, <1>p, <3>1, <3>2 DEF DisplayedSince, ReplacedAt
  <2>3. ASSUME NEW d \in Callers, NEW k \in Keys, Request(d, k), d # c
        PROVE  pc[c] = "arrived" /\ taken'[c] = taken[c] /\ now' = now
    BY <1>2, <1>p, <2>3 DEF Request, Arrive, IInv, TypeOK
  <2>4. ASSUME NEW d \in Callers, BeginEvaluation(d)
        PROVE  pc[c] = "arrived" /\ taken' = taken /\ now' = now
    BY <1>2, <2>4 DEF BeginEvaluation, Lead, Direct, IInv, TypeOK
  <2>5. ASSUME NEW d \in Callers, EndEvaluation(d)
        PROVE  pc[c] = "arrived" /\ taken' = taken /\ now' = now
    BY <1>2, <2>5 DEF EndEvaluation, Evaluate, Evaluated, DirectEvaluated, Return, IInv, TypeOK
  <2>6. ASSUME NEW d \in Callers, Elsewhere(d)
        PROVE  pc[c] = "arrived" /\ taken' = taken /\ now' = now
    BY <1>2, <2>6 DEF Elsewhere, added, Hit, Join, Publish, WaitDone, GiveUp, Disconnect, Return, IInv, TypeOK
  <2>7. ASSUME TimePasses PROVE FALSE
    BY <1>2, <2>7 DEF TimePasses, Tick, Computing
  <2>8. CASE (Poll \/ Outage \/ Recover \/ UNCHANGED allVars)
    BY <1>2, <2>1, <2>8 DEF Poll, Outage, Recover, allVars, vars, added
  <2> QED
    BY <2>1, <2>2, <2>3, <2>4, <2>5, <2>6, <2>7, <2>8 DEF HealthNext
<1>3. ASSUME NEW f \in Flights, flights'[f].stage # "unused"
      PROVE  DisplayedSince(scored[f].snap, scored[f].began)'
  <2>1. CASE flights[f].stage # "unused"
    <3>1. scored'[f].snap = scored[f].snap /\ scored'[f].began = scored[f].began
      BY <2>1, ScoredKept
    <3> QED
      BY <1>k, <2>1, <3>1, ScoredFields DEF DisplayInv, DisplayedSince, ReplacedAt
  <2>2. CASE flights[f].stage = "unused"
    <3>1. PICK c \in Callers : BeginEvaluation(c) /\ on'[c] = f
      BY <1>3, <2>2, NewFlight
    <3>2. pc[c] = "arrived" /\ polls' = polls /\ now' = now
          /\ scored'[f] = [snap |-> taken[c], began |-> now, exposed |-> down, errored |-> FALSE]
      BY <3>1, Begun DEF IInv, TypeOK
    <3>3. scored'[f].snap = taken[c] /\ scored'[f].began = now
      BY <3>2
    <3> QED
      BY <3>2, <3>3 DEF DisplayInv, DisplayedSince, ReplacedAt
  <2> QED
    BY <2>1, <2>2
<1> QED
  BY <1>1, <1>2, <1>3 DEF DisplayInv

\* What a step may change of what is known of a flight.
LEMMA ScoredSteps ==
    ASSUME CacheAssumption, IInv, HealthTypeOK, OutageInv, [HealthNext]_allVars, NEW f \in Flights
    PROVE  \/ /\ scored'[f].began = scored[f].began /\ scored'[f].exposed = scored[f].exposed
              /\ scored'[f].errored => scored'[f].exposed
           \/ /\ scored'[f].began = scored[f].began /\ down' = TRUE
              /\ scored'[f].errored => scored'[f].exposed
           \/ /\ scored'[f].began = now /\ scored'[f].exposed = down /\ scored'[f].errored = FALSE
              /\ down' = down
<1>1. CASE Outage
  <2>1. scored'[f] = [scored[f] EXCEPT !.exposed = @ \/ flights[f].stage = "running"] /\ down' = TRUE
    BY <1>1 DEF Outage
  <2> QED
    BY <2>1, ScoredFields DEF OutageInv
<1>2. ASSUME NEW c \in Callers, BeginEvaluation(c)
      PROVE  \/ scored'[f] = scored[f]
             \/ scored'[f] = [snap |-> taken[c], began |-> now, exposed |-> down, errored |-> FALSE]
                  /\ down' = down
  BY <1>2 DEF BeginEvaluation, HealthTypeOK
<1>3. ASSUME NEW c \in Callers, EndEvaluation(c)
      PROVE  /\ scored'[f].began = scored[f].began /\ scored'[f].exposed = scored[f].exposed
             /\ scored'[f].errored => scored'[f].exposed
  <2>1. on[c] \in Flights
    BY <1>3, OnType DEF EndEvaluation, Evaluate, Evaluated, DirectEvaluated, IInv
  <2>2. PICK e \in BOOLEAN :
          (e => scored[on[c]].exposed) /\ scored' = [scored EXCEPT ![on[c]].errored = e]
    BY <1>3 DEF EndEvaluation
  <2>3. CASE f = on[c]
    <3>1. scored'[f] = [scored[f] EXCEPT !.errored = e]
      BY <2>2, <2>3 DEF HealthTypeOK
    <3>2. /\ scored'[f].began = scored[f].began /\ scored'[f].exposed = scored[f].exposed
          /\ scored'[f].errored = e
      BY <3>1, ScoredFields
    <3> QED
      BY <2>2, <2>3, <3>2
  <2>4. CASE f # on[c]
    BY <2>2, <2>4 DEF HealthTypeOK, OutageInv
  <2> QED
    BY <2>3, <2>4
<1>4. CASE scored' = scored
  BY <1>4 DEF OutageInv
<1>5. ASSUME NEW c \in Callers, BeginEvaluation(c)
      PROVE  \/ /\ scored'[f].began = scored[f].began /\ scored'[f].exposed = scored[f].exposed
                /\ scored'[f].errored => scored'[f].exposed
             \/ /\ scored'[f].began = now /\ scored'[f].exposed = down /\ scored'[f].errored = FALSE
                /\ down' = down
  <2>1. CASE scored'[f] = scored[f]
    BY <2>1 DEF OutageInv
  <2>2. CASE /\ scored'[f] = [snap |-> taken[c], began |-> now, exposed |-> down, errored |-> FALSE]
             /\ down' = down
    BY <2>2
  <2> QED
    BY <1>2, <1>5, <2>1, <2>2
<1> QED
  BY <1>1, <1>3, <1>4, <1>5
  DEF HealthNext, allVars, added, Poll, Recover, TimePasses, Request, Elsewhere

LEMMA OutageNext ==
    ASSUME CacheAssumption, IInv, HealthTypeOK, DurationInv, OutageInv, [HealthNext]_allVars
    PROVE  OutageInv'
<1> SUFFICES ASSUME NEW f \in Flights
             PROVE  /\ scored'[f].errored => scored'[f].exposed
                    /\ scored'[f].exposed => down' \/ scored'[f].began <= upSince'
  BY DEF OutageInv
<1>t. scored[f].began \in Nat /\ scored[f].began <= now /\ now \in Nat /\ upSince \in Nat \cup {Never}
  BY ScoredFields DEF IInv, TypeOK, DurationInv, HealthTypeOK
<1>d. \/ down' = down /\ upSince' = upSince
      \/ down' = TRUE
      \/ upSince' = now /\ Recover
  BY DEF HealthNext, allVars, added, Poll, Outage, Recover, TimePasses, Request, BeginEvaluation,
         EndEvaluation, Elsewhere
<1>r. Recover => scored' = scored
  BY DEF Recover
<1>1. scored'[f].errored => scored'[f].exposed
  BY ScoredSteps DEF HealthTypeOK
<1>2. ASSUME scored'[f].exposed, down' # TRUE
      PROVE  scored'[f].began <= upSince'
  <2>1. CASE Recover
    BY <1>t, <1>r, <2>1 DEF Recover
  <2>2. CASE ~Recover
    <3>1. down' = down /\ upSince' = upSince
      BY <1>d, <1>2, <2>2
    <3>2. scored'[f].began = scored[f].began /\ scored'[f].exposed = scored[f].exposed
      BY <1>2, <3>1, ScoredSteps DEF HealthTypeOK
    <3> QED
      BY <1>2, <3>1, <3>2 DEF OutageInv, HealthTypeOK
  <2> QED
    BY <2>1, <2>2
<1>3. down' \in BOOLEAN
  BY HealthTypeNext DEF HealthTypeOK
<1> QED
  BY <1>1, <1>2, <1>3

\* A flight is waited for when it is over only as long as no time passes.
LEMMA DurationNext ==
    ASSUME CacheAssumption, HealthAssumption, RequestInv, [HealthNext]_allVars
    PROVE  DurationInv'
<1> DEFINE Bound(f) == now <= scored[f].began + EvalTime
<1>i. IInv /\ HealthTypeOK /\ DisplayInv /\ DurationInv /\ OutageInv
  BY DEF RequestInv
<1>n. now \in Nat /\ EvalTime \in Nat
  BY <1>i DEF IInv, TypeOK, HealthAssumption
<1>c. \/ now' = now
      \/ now' = now + 1 /\ TimePasses
  BY <1>i, ClocksGrow
<1>k. ASSUME NEW f \in Flights, flights[f].stage # "unused", now' = now, Bound(f)
      PROVE  now' <= scored'[f].began + EvalTime
  BY <1>i, <1>k, ScoredKept
<1>b. \A c \in Callers : Owns(c) \/ (pc[c] = "waiting" /\ FlightDone(on[c])) => Bound(on[c])
  BY <1>i DEF DurationInv
<1>u. \A c \in Callers : Owns(c) \/ pc[c] = "waiting" => on[c] \in Flights /\ flights[on[c]].stage # "unused"
  BY <1>i, BegunFlights
<1>1. ASSUME NEW c \in Callers, Owns(c)' \/ (pc'[c] = "waiting" /\ FlightDone(on[c])')
      PROVE  now' <= scored'[on'[c]].began + EvalTime
  <2>0. ASSUME pc'[c] = pc[c], on'[c] = on[c], now' = now,
               on[c] \in Flights => flights'[on[c]].stage = flights[on[c]].stage
        PROVE  now' <= scored'[on'[c]].began + EvalTime
    <3>1. Owns(c) \/ (pc[c] = "waiting" /\ FlightDone(on[c]))
      BY <1>1, <1>u, <2>0 DEF Owns, Leads, FlightDone
    <3> QED
      BY <1>b, <1>k, <1>u, <2>0, <3>1
  <2>1. CASE TimePasses
    <3>1. UNCHANGED <<pc, on, flights, scored>> /\ now' = now + 1
      BY <2>1 DEF TimePasses, Tick, added
    <3>2. Owns(c)
      BY <1>1, <2>1, <3>1 DEF TimePasses, Computing, FlightDone, Owns, Leads
    <3>3. now < scored[on[c]].began + EvalTime
      BY <2>1, <3>2 DEF TimePasses, InTime
    <3> QED
      BY <1>i, <1>n, <1>u, <3>1, <3>2, <3>3, ScoredFields
  <2>2. CASE UNCHANGED allVars \/ Poll \/ Outage \/ Recover
    BY <2>0, <2>2 DEF allVars, vars, added, Poll, Outage, Recover
  <2>3. ASSUME NEW d \in Callers, NEW k \in Keys, Request(d, k)
        PROVE  now' <= scored'[on'[c]].began + EvalTime
    <3>1. /\ now' = now /\ on' = on /\ flights' = flights
          /\ pc' = [pc EXCEPT ![d] = "arrived"]
      BY <2>3 DEF Request, Arrive
    <3>2. c # d /\ pc'[c] = pc[c]
      BY <1>1, <1>i, <3>1 DEF Owns, Leads, IInv, TypeOK
    <3> QED
      BY <2>0, <3>1, <3>2
  <2>4. ASSUME NEW d \in Callers, BeginEvaluation(d)
        PROVE  now' <= scored'[on'[c]].began + EvalTime
    <3>1. PICK f \in Unused :
             /\ f \in Flights /\ on' = [on EXCEPT ![d] = f] /\ now' = now
             /\ \A e \in Callers \ {d} : pc'[e] = pc[e]
             /\ scored'[f] = [snap |-> taken[d], began |-> now, exposed |-> down, errored |-> FALSE]
             /\ \A g \in Flights \ {f} : flights'[g] = flights[g]
      BY <1>i, <2>4, Begun
    <3>2. CASE c = d
      <4>1. on'[c] = f /\ scored'[f].began = now
        BY <1>i, <3>1, <3>2 DEF IInv, TypeOK
      <4> QED
        BY <1>n, <3>1, <4>1
    <3>3. CASE c # d
      <4>1. pc'[c] = pc[c] /\ on'[c] = on[c]
        BY <1>i, <3>1, <3>3 DEF IInv, TypeOK
      <4>2. on[c] \in Flights /\ flights[on[c]].stage # "unused"
        BY <1>1, <1>u, <4>1 DEF Owns, Leads
      <4>3. on[c] # f
        BY <3>1, <4>2 DEF Unused
      <4> QED
        BY <2>0, <3>1, <4>1, <4>2, <4>3
    <3> QED
      BY <3>2, <3>3
  <2>5. ASSUME NEW d \in Callers, EndEvaluation(d)
        PROVE  now' <= scored'[on'[c]].began + EvalTime
    <3>1. Owns(d) /\ now' = now
      BY <2>5 DEF EndEvaluation, Evaluate, Evaluated, DirectEvaluated, Owns, Leads
    <3>2. PICK o \in Outcomes : Finish(on[d], o)
      BY <2>5, EvaluateOutcomesType DEF EndEvaluation, Evaluate, Evaluated, DirectEvaluated
    <3>3. \A g \in Flights \ {on[d]} : flights'[g] = flights[g]
      BY <1>i, <1>u, <3>1, <3>2, FinishEffect DEF IInv
    <3>4. CASE c = d
      <4>1. on'[c] = on[c]
        BY <1>1, <1>i, <2>5, <3>4
        DEF EndEvaluation, Evaluate, Evaluated, DirectEvaluated, Return, Owns, Leads, IInv, TypeOK
      <4> QED
        BY <1>b, <1>k, <1>u, <3>1, <3>4, <4>1
    <3>5. CASE c # d
      <4>1. pc'[c] = pc[c] /\ on'[c] = on[c]
        BY <1>i, <2>5, <3>5
        DEF EndEvaluation, Evaluate, Evaluated, DirectEvaluated, Return, IInv, TypeOK
      <4>2. CASE on[c] = on[d]
        BY <1>b, <1>k, <1>u, <3>1, <4>1, <4>2
      <4>3. CASE on[c] # on[d]
        BY <2>0, <3>1, <3>3, <4>1, <4>3
      <4> QED
        BY <4>2, <4>3
    <3> QED
      BY <3>4, <3>5
  <2>6. ASSUME NEW d \in Callers, Join(d), UNCHANGED added
        PROVE  now' <= scored'[on'[c]].began + EvalTime
    <3>1. /\ now' = now /\ flights' = flights /\ inflight[ask[d]] # None /\ ask[d] \in Keys
          /\ on' = [on EXCEPT ![d] = inflight[ask[d]]] /\ pc' = [pc EXCEPT ![d] = "waiting"]
      BY <1>i, <2>6 DEF Join, Joinable, IInv, TypeOK
    <3>2. CASE c = d
      <4>1. PICK e \in Callers : on[e] = inflight[ask[d]] /\ Owns(e)
        BY <1>i, <3>1 DEF IInv, OwnerInv, NoOrphanFlight, Owns, Leads
      <4>2. on'[c] = on[e]
        BY <1>i, <3>1, <3>2, <4>1 DEF IInv, TypeOK
      <4> QED
        BY <1>b, <1>k, <1>u, <3>1, <4>1, <4>2
    <3>3. CASE c # d
      BY <1>i, <2>0, <3>1, <3>3 DEF IInv, TypeOK
    <3> QED
      BY <3>2, <3>3
  <2>7. ASSUME NEW d \in Callers, Disconnect(d), UNCHANGED added
        PROVE  now' <= scored'[on'[c]].began + EvalTime
    BY <2>0, <2>7 DEF Disconnect
  <2>8. ASSUME NEW d \in Callers, Hit(d) \/ Publish(d) \/ WaitDone(d) \/ GiveUp(d), UNCHANGED added
        PROVE  now' <= scored'[on'[c]].began + EvalTime
    <3>1. /\ now' = now /\ on' = [on EXCEPT ![d] = None] /\ pc' = [pc EXCEPT ![d] = "idle"]
      BY <2>8 DEF Hit, Publish, WaitDone, GiveUp, Return
    <3>2. \A f \in Flights : flights'[f].stage = flights[f].stage
      BY <1>i, <2>8, PublishEffect DEF Hit, WaitDone, GiveUp, IInv
    <3>3. c # d /\ pc'[c] = pc[c] /\ on'[c] = on[c]
      BY <1>1, <1>i, <3>1 DEF Owns, Leads, IInv, TypeOK
    <3> QED
      BY <2>0, <3>1, <3>2, <3>3
  <2> QED
    BY <2>1, <2>2, <2>3, <2>4, <2>5, <2>6, <2>7, <2>8 DEF HealthNext, Elsewhere
<1>2. ASSUME NEW f \in Flights
      PROVE  scored'[f].began <= now'
  <2>1. scored'[f].began \in {scored[f].began, now}
    BY <1>i, ScoredSteps
  <2>2. scored[f].began \in Nat /\ scored[f].began <= now
    BY <1>i, ScoredFields DEF DurationInv
  <2> QED
    BY <1>c, <1>n, <2>1, <2>2
<1>3. ASSUME NEW f \in Flights, flights'[f].publishedAt >= 0
      PROVE  flights'[f].publishedAt <= scored'[f].began + EvalTime
  <2>1. CASE flights'[f].publishedAt = flights[f].publishedAt
    BY <1>3, <1>i, <2>1, BegunFlights, ScoredKept DEF DurationInv
  <2>2. ASSUME NEW d \in Callers, Publish(d)
        PROVE  \/ flights'[f].publishedAt = flights[f].publishedAt
               \/ f = on[d] /\ Owns(d) /\ flights'[f].publishedAt = now /\ now' = now
    BY <1>i, <2>2, PublishEffect DEF IInv, Owns, Leads, Publish
  <2>3. ASSUME NEW d \in Callers, BeginEvaluation(d)
        PROVE  flights'[f].publishedAt = flights[f].publishedAt
    BY <1>i, <2>3, Begun
  <2>4. ASSUME NEW d \in Callers, EndEvaluation(d)
        PROVE  flights'[f].publishedAt = flights[f].publishedAt
    <3>1. PICK o \in Outcomes : Finish(on[d], o)
      BY <2>4, EvaluateOutcomesType DEF EndEvaluation, Evaluate, Evaluated, DirectEvaluated
    <3>2. on[d] \in Flights
      BY <1>u, <2>4 DEF EndEvaluation, Evaluate, Evaluated, DirectEvaluated, Owns, Leads
    <3> QED
      BY <1>i, <3>1, <3>2, FinishEffect DEF IInv
  <2>5. CASE flights' = flights
    BY <2>1, <2>5
  <2>6. ASSUME NEW d \in Callers, Publish(d)
        PROVE  flights'[f].publishedAt <= scored'[f].began + EvalTime
    BY <1>b, <1>k, <1>u, <2>1, <2>2, <2>6
  <2> QED
    BY <2>1, <2>3, <2>4, <2>5, <2>6
    DEF HealthNext, allVars, vars, Poll, Outage, Recover, TimePasses, Tick, Request, Arrive, Elsewhere,
        Hit, Join, WaitDone, GiveUp, Disconnect
<1> QED
  BY <1>1, <1>2, <1>3 DEF DurationInv

LEMMA HealthInitInv ==
    ASSUME CacheAssumption, HealthAssumption, HealthInit
    PROVE  RequestInv
<1>1. IInv
  BY InitIInv DEF HealthInit
<1>2. HealthTypeOK
  <2>1. <<>> \in Seq(Nat)
    OBVIOUS
  <2>2. Unscored \in [snap: Nat, began: Nat, exposed: BOOLEAN, errored: BOOLEAN]
    BY DEF Unscored
  <2> QED
    BY <2>1, <2>2 DEF HealthInit, HealthTypeOK
<1>3. \A f \in Flights : flights[f].stage = "unused" /\ flights[f].publishedAt = -1
  BY DEF HealthInit, Init
<1>4. DisplayInv
  BY <1>3 DEF HealthInit, Init, DisplayInv
<1>5. DurationInv /\ OutageInv
  BY <1>3 DEF HealthInit, Init, DurationInv, OutageInv, Unscored, Owns, Leads
<1> QED
  BY <1>1, <1>2, <1>4, <1>5 DEF RequestInv

\* Snapshots, evaluations and outages keep their times, whatever requests come
\* (server.go:211-273, service.go:287-290).
THEOREM RequestInvariant == HealthSpec => []RequestInv
<1> USE CacheAssumption, HealthAssumption
<1>1. HealthInit => RequestInv
  BY HealthInitInv
<1>2. RequestInv /\ [HealthNext]_allVars => RequestInv'
  <2> SUFFICES ASSUME RequestInv, [HealthNext]_allVars PROVE RequestInv'
    OBVIOUS
  <2>1. IInv'
    BY HealthStep, NextIInv DEF RequestInv
  <2> QED
    BY <2>1, HealthTypeNext, DisplayNext, DurationNext, OutageNext DEF RequestInv
<1> QED
  BY <1>1, <1>2, PTL DEF HealthSpec

\* A call is answered with a report from the map, with that of an evaluation that is
\* over within this tick, or with none.
LEMMA AnswerAges ==
    ASSUME CacheAssumption, HealthAssumption, RequestInv, HealthNext,
           NEW c \in Callers, Answered(c)
    PROVE  LET f == answer'[c].flight IN
             /\ f \in Flights /\ flights[f].stage # "unused"
             /\ Tolerable(c, now - scored[f].began)
             /\ polls' = polls /\ now' = now /\ down' = down /\ upSince' = upSince
<1> DEFINE f == answer'[c].flight
<1>i. IInv /\ HealthTypeOK /\ DurationInv
  BY DEF RequestInv
<1>n. now \in Nat /\ EvalTime \in Nat /\ ttl \in Int
  BY <1>i, ClocksGrow DEF HealthAssumption
<1>a. answer'[c] # answer[c] /\ f # None
  BY DEF Answered
<1>t. answer \in [Callers -> Answer]
  BY <1>i DEF IInv, TypeOK
<1>b. ASSUME NEW g \in Flights, flights[g].stage # "unused", now <= scored[g].began + EvalTime,
             f = g, answer'[c].how # "hit"
      PROVE  f \in Flights /\ flights[f].stage # "unused" /\ Tolerable(c, now - scored[f].began)
  BY <1>b, <1>i, <1>n, ScoredFields DEF Tolerable
<1>u. \A d \in Callers : Owns(d) \/ pc[d] = "waiting" => on[d] \in Flights /\ flights[on[d]].stage # "unused"
  BY <1>i, BegunFlights
<1>1. ASSUME answer' = answer PROVE FALSE
  BY <1>1, <1>a
<1>2. ASSUME NEW d \in Callers, NEW k \in Keys, Request(d, k) PROVE FALSE
  BY <1>2, <1>a, <1>t DEF Request, Arrive, NoAnswer
<1>3. ASSUME NEW d \in Callers, NEW how, NEW o, NEW g, Return(d, how, o, g)
      PROVE  c = d /\ f = g /\ answer'[c].how = how
  BY <1>3, <1>a, <1>t DEF Return
<1>4. ASSUME NEW d \in Callers, Hit(d)
      PROVE  f \in Flights /\ flights[f].stage # "unused" /\ Tolerable(c, now - scored[f].began)
  <2>1. c = d /\ f = entries[ask[d]].report /\ answer'[c].how = "hit"
    BY <1>3, <1>4 DEF Hit
  <2>2. /\ ask[d] \in DOMAIN entries /\ now < entries[ask[d]].expires
        /\ f \in Flights
    BY <1>4, <1>i, <2>1 DEF Hit, Live, IInv, TypeOK
  <2>3. /\ flights[f].stage # "unused" /\ flights[f].publishedAt >= 0
        /\ now < flights[f].publishedAt + ttl /\ flights[f].publishedAt \in Int
    BY <1>i, <2>1, <2>2 DEF IInv, ReportInv, EntriesPublished, TypeOK, Flight
  <2>4. flights[f].publishedAt <= scored[f].began + EvalTime /\ scored[f].began \in Nat
    BY <1>i, <2>2, <2>3, ScoredFields DEF DurationInv
  <2>5. now - scored[f].began < EvalTime + ttl
    BY <1>n, <2>3, <2>4
  <2> QED
    BY <2>1, <2>2, <2>3, <2>5 DEF Tolerable
<1>5. ASSUME NEW d \in Callers, Publish(d) \/ DirectEvaluated(d)
      PROVE  f \in Flights /\ flights[f].stage # "unused" /\ Tolerable(c, now - scored[f].began)
  <2>1. c = d /\ f = on[d] /\ answer'[c].how # "hit" /\ Owns(d)
    BY <1>3, <1>5 DEF Publish, DirectEvaluated, Owns, Leads
  <2> QED
    BY <1>b, <1>i, <1>u, <2>1 DEF DurationInv
<1>6. ASSUME NEW d \in Callers, WaitDone(d)
      PROVE  f \in Flights /\ flights[f].stage # "unused" /\ Tolerable(c, now - scored[f].began)
  <2>1. c = d /\ f = on[d] /\ answer'[c].how # "hit" /\ pc[d] = "waiting" /\ FlightDone(on[d])
    BY <1>3, <1>6 DEF WaitDone
  <2> QED
    BY <1>b, <1>i, <1>u, <2>1 DEF DurationInv
<1>7. ASSUME NEW d \in Callers, GiveUp(d) PROVE FALSE
  BY <1>3, <1>7, <1>a DEF GiveUp
<1>8. polls' = polls /\ now' = now /\ down' = down /\ upSince' = upSince
  BY <1>1
  DEF HealthNext, vars, added, Poll, Outage, Recover, TimePasses, Tick, Request, Arrive,
      BeginEvaluation, Lead, Direct, EndEvaluation, Evaluate, Evaluated, DirectEvaluated, Elsewhere,
      Hit, Join, Publish, WaitDone, GiveUp, Disconnect
<1>9. f \in Flights /\ flights[f].stage # "unused" /\ Tolerable(c, now - scored[f].began)
  BY <1>1, <1>2, <1>4, <1>5, <1>6, <1>7
  DEF HealthNext, vars, Poll, Outage, Recover, TimePasses, Tick, BeginEvaluation, Lead, Direct,
      EndEvaluation, Evaluate, Evaluated, Elsewhere, Join, Disconnect
<1> QED
  BY <1>8, <1>9

\* No report is scored for pods that have been off display for longer than an
\* evaluation and the ttl (server.go:211-273, service.go:288).
THEOREM PodsWereOnDisplay == HealthSpec => ScoredPodsWereOnDisplay
<1> USE CacheAssumption, HealthAssumption
<1> DEFINE Recent == \A c \in Callers : Answered(c) =>
         Tolerable(c, now - ReplacedAt(scored'[answer'[c].flight].snap))
<1>1. RequestInv /\ [HealthNext]_allVars => [Recent]_allVars
  <2> SUFFICES ASSUME RequestInv, HealthNext, NEW c \in Callers, Answered(c)
               PROVE  Tolerable(c, now - ReplacedAt(scored'[answer'[c].flight].snap))
    OBVIOUS
  <2> DEFINE f == answer'[c].flight
  <2>1. f \in Flights /\ flights[f].stage # "unused" /\ Tolerable(c, now - scored[f].began)
    BY AnswerAges
  <2>2. scored'[f].snap = scored[f].snap
    BY <2>1, ScoredKept DEF RequestInv
  <2>3. scored[f].snap \in 1..Len(polls) /\ scored[f].began <= ReplacedAt(scored[f].snap)
    BY <2>1 DEF RequestInv, DisplayInv, DisplayedSince
  <2>4. /\ now \in Nat /\ EvalTime \in Nat /\ ttl \in Int /\ scored[f].began \in Nat
        /\ ReplacedAt(scored[f].snap) \in Nat
    <3>1. now \in Nat /\ ttl \in Int
      BY ClocksGrow DEF RequestInv
    <3>2. polls \in Seq(Nat) /\ scored[f].began \in Nat
      BY <2>1, ScoredFields DEF RequestInv, HealthTypeOK
    <3> QED
      BY <2>3, <3>1, <3>2 DEF ReplacedAt, HealthAssumption
  <2> HIDE DEF f
  <2> QED
    BY <2>1, <2>2, <2>3, <2>4 DEF Tolerable, f
<1> QED
  BY <1>1, RequestInvariant, PTL DEF HealthSpec, ScoredPodsWereOnDisplay

\* A report of errors is shown no longer than an evaluation and the ttl after the
\* outage (service.go:287-290, cache.go:84-88).
THEOREM OutagesAreForgotten == HealthSpec => OutageIsForgotten
<1> USE CacheAssumption, HealthAssumption
<1> DEFINE Forgotten == \A c \in Callers : Answered(c) /\ scored'[answer'[c].flight].errored =>
         down \/ Tolerable(c, now - upSince)
<1>1. RequestInv /\ [HealthNext]_allVars => [Forgotten]_allVars
  <2> SUFFICES ASSUME RequestInv, HealthNext, NEW c \in Callers, Answered(c),
                      scored'[answer'[c].flight].errored, ~down
               PROVE  Tolerable(c, now - upSince)
    OBVIOUS
  <2> DEFINE f == answer'[c].flight
  <2>1. /\ f \in Flights /\ flights[f].stage # "unused" /\ Tolerable(c, now - scored[f].began)
        /\ down' = down /\ upSince' = upSince
    BY AnswerAges
  <2>2. OutageInv'
    BY OutageNext DEF RequestInv
  <2>3. scored'[f].began = scored[f].began /\ scored'[f].began <= upSince'
    BY <2>1, <2>2, ScoredKept DEF RequestInv, OutageInv
  <2>4. /\ now \in Nat /\ EvalTime \in Nat /\ ttl \in Int /\ scored[f].began \in Nat
        /\ upSince \in Int
    <3>1. now \in Nat /\ ttl \in Int
      BY ClocksGrow DEF RequestInv
    <3>2. upSince \in Int /\ scored[f].began \in Nat
      BY <2>1, ScoredFields DEF RequestInv, HealthTypeOK, Never
    <3> QED
      BY <3>1, <3>2 DEF HealthAssumption
  <2>5. scored[f].began <= upSince
    BY <2>1, <2>3
  <2> HIDE DEF f
  <2> QED
    BY <2>1, <2>4, <2>5 DEF Tolerable, f
<1> QED
  BY <1>1, RequestInvariant, PTL DEF HealthSpec, OutageIsForgotten
=============================================================================
