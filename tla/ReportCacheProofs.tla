------------------------- MODULE ReportCacheProofs -------------------------
(* Theorems about ReportCache, for every value of its constants.            *)
EXTENDS ReportCache, FiniteSetTheorems, TLAPS

-----------------------------------------------------------------------------
(* Types.                                                                   *)

\* Every set of survivors consists of keys that had an entry.
LEMMA SurvivorsSubset ==
    ASSUME NEW K \in Survivors
    PROVE  K \subseteq DOMAIN entries
BY DEF Survivors, Unexpired

\* Starting, ending and publishing a flight keep the flights well typed.
LEMMA StartType ==
    ASSUME TypeOK, NEW c \in Callers, NEW f \in Flights, Start(c, f)
    PROVE  /\ flights' \in [Flights -> Flight]
           /\ on' = [on EXCEPT ![c] = f]
<1> DEFINE g == [flights[f] EXCEPT !.key = ask[c], !.stage = "running"]
<1>1. flights[f] \in Flight /\ ask[c] \in Keys
  BY DEF TypeOK
<1>2. g \in Flight
  BY <1>1 DEF Flight
<1>3. flights' = [flights EXCEPT ![f] = g] /\ on' = [on EXCEPT ![c] = f]
  BY DEF Start, TypeOK
<1> QED
  BY <1>2, <1>3 DEF TypeOK

LEMMA FinishType ==
    ASSUME TypeOK, NEW f \in Flights, NEW o \in Outcomes, Finish(f, o)
    PROVE  flights' \in [Flights -> Flight]
<1> DEFINE g == [flights[f] EXCEPT !.stage = "done", !.outcome = o]
<1>1. flights[f] \in Flight
  BY DEF TypeOK
<1>2. g \in Flight
  BY <1>1 DEF Flight
<1>3. flights' = [flights EXCEPT ![f] = g]
  BY DEF Finish, TypeOK
<1> QED
  BY <1>2, <1>3 DEF TypeOK

\* A call that returns leaves its caller idle with a well typed answer.
LEMMA ReturnType ==
    ASSUME TypeOK, NEW c \in Callers,
           NEW how \in {"none", "hit", "joined", "led", "direct", "gave up"},
           NEW o \in Outcomes \cup {"none", "cancelled"},
           NEW f \in Flights \cup {None},
           Return(c, how, o, f)
    PROVE  /\ pc' = [pc EXCEPT ![c] = "idle"]
           /\ on' = [on EXCEPT ![c] = None]
           /\ answer' \in [Callers -> Answer]
BY DEF TypeOK, Return, Answer

\* The flights a caller's place in do refers to.
LEMMA OnType ==
    ASSUME TypeOK, NEW c \in Callers,
           pc[c] \in {"waiting", "leading", "closing", "direct"}
    PROVE  /\ on[c] \in Flights
           /\ flights[on[c]] \in Flight
           /\ flights[on[c]].outcome \in Outcomes \cup {"none"}
BY DEF TypeOK, Flight

LEMMA EvaluateOutcomesType ==
    ASSUME NEW b PROVE EvaluateOutcomes(b) \subseteq Outcomes
BY DEF EvaluateOutcomes, Outcomes

\* The caller's own step, Proceed or Evaluate, keeps the types.
LEMMA CallerTypeOK ==
    ASSUME CacheAssumption, TypeOK, NEW c \in Callers, Proceed(c) \/ Evaluate(c)
    PROVE  TypeOK'
<1>1. CASE Hit(c)
  <2> DEFINE f == entries[ask[c]].report
  <2>1. f \in Flights /\ flights[f].outcome \in Outcomes \cup {"none"}
    BY <1>1 DEF TypeOK, Hit, Live, Flight
  <2>2. Return(c, "hit", flights[f].outcome, f)
    BY <1>1 DEF Hit
  <2>3. pc' = [pc EXCEPT ![c] = "idle"] /\ on' = [on EXCEPT ![c] = None]
        /\ answer' \in [Callers -> Answer]
    BY <2>1, <2>2, ReturnType
  <2> QED
    BY <1>1, <2>3 DEF Hit, TypeOK
<1>2. CASE Join(c)
  BY <1>2 DEF Join, Joinable, TypeOK
<1>3. CASE Lead(c)
  <2>1. PICK f \in Unused : Start(c, f) /\ inflight' = [inflight EXCEPT ![ask[c]] = f]
    BY <1>3 DEF Lead
  <2>2. f \in Flights
    BY DEF Unused
  <2>3. flights' \in [Flights -> Flight] /\ on' = [on EXCEPT ![c] = f]
    BY <2>1, <2>2, StartType
  <2> QED
    BY <1>3, <2>1, <2>2, <2>3 DEF Lead, TypeOK, CacheAssumption
<1>4. CASE Direct(c)
  <2>1. PICK f \in Unused : Start(c, f)
    BY <1>4 DEF Direct
  <2>2. f \in Flights
    BY DEF Unused
  <2>3. flights' \in [Flights -> Flight] /\ on' = [on EXCEPT ![c] = f]
    BY <2>1, <2>2, StartType
  <2> QED
    BY <1>4, <2>2, <2>3 DEF Direct, TypeOK, CacheAssumption
<1>5. CASE Evaluated(c)
  <2>1. on[c] \in Flights
    BY <1>5, OnType DEF Evaluated
  <2>2. flights' \in [Flights -> Flight]
    BY <1>5, <2>1, EvaluateOutcomesType, FinishType DEF Evaluated
  <2> QED
    BY <1>5, <2>2 DEF Evaluated, TypeOK
<1>6. CASE DirectEvaluated(c)
  <2>1. on[c] \in Flights
    BY <1>6, OnType DEF DirectEvaluated
  <2>2. PICK o \in Outcomes : Finish(on[c], o) /\ Return(c, "direct", o, on[c])
    BY <1>6, EvaluateOutcomesType DEF DirectEvaluated
  <2>3. flights' \in [Flights -> Flight]
    BY <2>1, <2>2, FinishType
  <2>4. pc' = [pc EXCEPT ![c] = "idle"] /\ on' = [on EXCEPT ![c] = None]
        /\ answer' \in [Callers -> Answer]
    BY <2>1, <2>2, ReturnType
  <2> QED
    BY <1>6, <2>3, <2>4 DEF DirectEvaluated, TypeOK
<1>7. CASE Publish(c)
  <2> DEFINE f == on[c]
  <2>1. f \in Flights /\ flights[f] \in Flight
        /\ flights[f].outcome \in Outcomes \cup {"none"}
    BY <1>7, OnType DEF Publish
  <2>2. flights' \in [Flights -> Flight]
    BY <1>7, <2>1 DEF Publish, TypeOK, Flight
  <2>3. DOMAIN entries' \subseteq Keys
        /\ \A k \in DOMAIN entries' : entries'[k] \in [report: Flights, expires: Int]
    <3>1. CASE NilError(flights[f].outcome)
      <4>1. PICK K \in Survivors :
              entries' = [x \in K \cup {ask[c]} |->
                 IF x = ask[c] THEN [report |-> f, expires |-> now + ttl] ELSE entries[x]]
        BY <1>7, <3>1 DEF Publish, Store
      <4>2. K \subseteq DOMAIN entries
        BY SurvivorsSubset
      <4> QED
        BY <2>1, <4>1, <4>2 DEF TypeOK, CacheAssumption
    <3>2. CASE ~NilError(flights[f].outcome)
      BY <1>7, <3>2 DEF Publish, TypeOK
    <3> QED BY <3>1, <3>2
  <2>4. Return(c, "led", flights[f].outcome, f)
    BY <1>7 DEF Publish
  <2>5. pc' = [pc EXCEPT ![c] = "idle"] /\ on' = [on EXCEPT ![c] = None]
        /\ answer' \in [Callers -> Answer]
    BY <2>1, <2>4, ReturnType
  <2> QED
    BY <1>7, <2>2, <2>3, <2>5 DEF Publish, Retire, TypeOK
<1>8. CASE WaitDone(c)
  <2>1. on[c] \in Flights /\ flights[on[c]].outcome \in Outcomes \cup {"none"}
    BY <1>8, OnType DEF WaitDone
  <2>2. pc' = [pc EXCEPT ![c] = "idle"] /\ on' = [on EXCEPT ![c] = None]
        /\ answer' \in [Callers -> Answer]
    BY <1>8, <2>1, ReturnType DEF WaitDone
  <2> QED
    BY <1>8, <2>2 DEF WaitDone, TypeOK
<1>9. CASE GiveUp(c)
  <2>1. pc' = [pc EXCEPT ![c] = "idle"] /\ on' = [on EXCEPT ![c] = None]
        /\ answer' \in [Callers -> Answer]
    BY <1>9, ReturnType DEF GiveUp
  <2> QED
    BY <1>9, <2>1 DEF GiveUp, TypeOK
<1> QED
  BY <1>1, <1>2, <1>3, <1>4, <1>5, <1>6, <1>7, <1>8, <1>9
  DEF Proceed, Evaluate, Lookup

\* The types hold initially and are kept by every step.
LEMMA InitTypeOK ==
    ASSUME CacheAssumption, Init
    PROVE  TypeOK
<1>1. PICK k \in Keys : flights = [f \in Flights |->
         [key |-> k, stage |-> "unused", outcome |-> "none", publishedAt |-> -1]]
  BY DEF Init
<1>2. flights \in [Flights -> Flight]
  BY <1>1 DEF Flight
<1>3. answer \in [Callers -> Answer]
  BY DEF Init, NoAnswer, Answer
<1> QED
  BY <1>2, <1>3 DEF Init, TypeOK

LEMMA NextTypeOK ==
    ASSUME CacheAssumption, TypeOK, [Next]_vars
    PROVE  TypeOK'
<1>1. ASSUME NEW c \in Callers, NEW k \in Keys, Arrive(c, k) PROVE TypeOK'
  <2>1. NoAnswer \in Answer
    BY DEF NoAnswer, Answer
  <2> QED
    BY <1>1, <2>1 DEF Arrive, TypeOK
<1>2. ASSUME NEW c \in Callers, Disconnect(c) PROVE TypeOK'
  BY <1>2 DEF Disconnect, TypeOK
<1>3. CASE Tick
  BY <1>3 DEF Tick, TypeOK
<1>4. CASE UNCHANGED vars
  BY <1>4 DEF vars, TypeOK
<1> QED
  BY <1>1, <1>2, <1>3, <1>4, CallerTypeOK DEF Next

\* The types of cache.go's structures hold in every reachable state.
THEOREM TypeCorrect == Spec => []TypeOK
<1> USE CacheAssumption
<1>1. Init => TypeOK
  BY InitTypeOK
<1>2. TypeOK /\ [Next]_vars => TypeOK'
  BY NextTypeOK
<1> QED
  BY <1>1, <1>2, PTL DEF Spec

-----------------------------------------------------------------------------
(* Flights and their owners.                                                *)

\* What starting, ending and publishing a flight change, flight by flight.
LEMMA StartEffect ==
    ASSUME TypeOK, NEW c \in Callers, NEW f \in Flights, Start(c, f)
    PROVE  /\ flights'[f].key = ask[c]
           /\ flights'[f].stage = "running"
           /\ flights'[f].outcome = flights[f].outcome
           /\ flights'[f].publishedAt = flights[f].publishedAt
           /\ \A g \in Flights \ {f} : flights'[g] = flights[g]
           /\ on' = [on EXCEPT ![c] = f]
<1>1. flights[f] \in Flight
  BY DEF TypeOK
<1> QED
  BY <1>1 DEF TypeOK, Start, Flight

LEMMA FinishEffect ==
    ASSUME TypeOK, NEW f \in Flights, NEW o \in Outcomes, Finish(f, o)
    PROVE  /\ flights'[f].key = flights[f].key
           /\ flights'[f].stage = "done"
           /\ flights'[f].outcome = o
           /\ flights'[f].publishedAt = flights[f].publishedAt
           /\ \A g \in Flights \ {f} : flights'[g] = flights[g]
<1>1. flights[f] \in Flight
  BY DEF TypeOK
<1> QED
  BY <1>1 DEF TypeOK, Finish, Flight

LEMMA PublishEffect ==
    ASSUME TypeOK, NEW c \in Callers, Publish(c)
    PROVE  /\ on[c] \in Flights
           /\ \A g \in Flights :
                /\ flights'[g].key = flights[g].key
                /\ flights'[g].stage = flights[g].stage
                /\ flights'[g].outcome = flights[g].outcome
                /\ flights'[g].publishedAt = IF g = on[c] /\ NilError(flights[g].outcome)
                                              THEN now ELSE flights[g].publishedAt
           /\ inflight' = [inflight EXCEPT ![ask[c]] = None]
           /\ pc' = [pc EXCEPT ![c] = "idle"]
           /\ on' = [on EXCEPT ![c] = None]
           /\ answer' = [answer EXCEPT ![c] =
                 [how |-> "led", outcome |-> flights[on[c]].outcome, flight |-> on[c]]]
<1>1. on[c] \in Flights
  BY OnType DEF Publish
<1>2. \A g \in Flights : flights[g] \in Flight
  BY DEF TypeOK
<1>3. flights' = IF NilError(flights[on[c]].outcome)
                 THEN [flights EXCEPT ![on[c]].publishedAt = now] ELSE flights
  BY DEF Publish
<1> QED
  BY <1>1, <1>2, <1>3 DEF TypeOK, Publish, Retire, Return, Flight

\* Nothing changes the ttl field.
LEMMA TtlIsFixed ==
    ASSUME CacheAssumption, TypeOK, [Next]_vars
    PROVE  ttl' = ttl /\ ttl \in Int
BY DEF CacheAssumption, TypeOK, Next, vars, Arrive, Disconnect, Tick, Proceed, Evaluate, Lookup,
       Hit, Join, Lead, Direct, Evaluated, DirectEvaluated, Publish, WaitDone, GiveUp

LEMMA OwnerInvNext ==
    ASSUME CacheAssumption, TypeOK, OwnerInv, [Next]_vars
    PROVE  OwnerInv'
<1>t. ttl' = ttl /\ ttl \in Int
  BY TtlIsFixed
<1> USE <1>t
<1> USE DEF OwnerInv, ModeInv, OwnersKnowTheirFlight, LeadersHoldTheirKey, OneOwner,
            RunningIsOwned, NoOrphanFlight, Owns, Leads, TypeOK
<1>1. ASSUME NEW c \in Callers, NEW k \in Keys, Arrive(c, k) PROVE OwnerInv'
  BY <1>1 DEF Arrive, Cached
<1>2. ASSUME NEW c \in Callers, Disconnect(c) PROVE OwnerInv'
  BY <1>2 DEF Disconnect, Cached
<1>3. CASE Tick
  BY <1>3 DEF Tick, Cached
<1>4. ASSUME NEW c \in Callers, Hit(c) PROVE OwnerInv'
  BY <1>4 DEF Hit, Return, Cached
<1>5. ASSUME NEW c \in Callers, Join(c) PROVE OwnerInv'
  BY <1>5 DEF Join, Cached
<1>6. ASSUME NEW c \in Callers, Lead(c) PROVE OwnerInv'
  <2>1. PICK f \in Unused : Start(c, f) /\ inflight' = [inflight EXCEPT ![ask[c]] = f]
    BY <1>6 DEF Lead
  <2>2. f \in Flights /\ flights[f].stage = "unused"
    BY DEF Unused
  <2> QED
    BY <1>6, <2>1, <2>2, StartEffect DEF Lead, Joinable, Cached
<1>7. ASSUME NEW c \in Callers, Direct(c) PROVE OwnerInv'
  <2>1. PICK f \in Unused : Start(c, f)
    BY <1>7 DEF Direct
  <2>2. f \in Flights /\ flights[f].stage = "unused"
    BY DEF Unused
  <2> QED
    BY <1>7, <2>1, <2>2, StartEffect DEF Direct, Cached
<1>8. ASSUME NEW c \in Callers, Evaluated(c) PROVE OwnerInv'
  <2>1. on[c] \in Flights
    BY <1>8, OnType DEF Evaluated
  <2>2. PICK o \in Outcomes : Finish(on[c], o)
    BY <1>8, EvaluateOutcomesType DEF Evaluated
  <2> QED
    BY <1>8, <2>1, <2>2, FinishEffect DEF Evaluated, Cached
<1>9. ASSUME NEW c \in Callers, DirectEvaluated(c) PROVE OwnerInv'
  <2>1. on[c] \in Flights
    BY <1>9, OnType DEF DirectEvaluated
  <2>2. PICK o \in Outcomes : Finish(on[c], o) /\ Return(c, "direct", o, on[c])
    BY <1>9, EvaluateOutcomesType DEF DirectEvaluated
  <2>3. /\ pc[c] = "direct" /\ pc' = [pc EXCEPT ![c] = "idle"]
        /\ on' = [on EXCEPT ![c] = None]
        /\ UNCHANGED <<inflight, ask>>
    BY <1>9, <2>2 DEF DirectEvaluated, Return
  <2>4. /\ flights'[on[c]].stage = "done"
        /\ \A g \in Flights \ {on[c]} : flights'[g] = flights[g]
    BY <2>1, <2>2, FinishEffect
  <2>5. \A d \in Callers \ {c} : pc'[d] = pc[d] /\ on'[d] = on[d]
    BY <2>3
  <2>6. ~Cached /\ \A d \in Callers : ~Leads(d)
    BY <2>3
  <2>7. \A k \in Keys : inflight[k] = None
    BY <2>6
  <2> QED
    BY <2>1, <2>3, <2>4, <2>5, <2>6, <2>7 DEF Cached
<1>10. ASSUME NEW c \in Callers, Publish(c) PROVE OwnerInv'
  <2> DEFINE f == on[c]
  <2>1. /\ pc[c] = "closing" /\ f \in Flights /\ flights[f].stage = "done"
        /\ flights[f].key = ask[c] /\ inflight[ask[c]] = f
    BY <1>10, PublishEffect DEF Publish
  <2>2. /\ pc' = [pc EXCEPT ![c] = "idle"] /\ on' = [on EXCEPT ![c] = None] /\ ask' = ask
        /\ inflight' = [inflight EXCEPT ![ask[c]] = None]
    BY <1>10, PublishEffect DEF Publish
  <2>3. \A g \in Flights : flights'[g].key = flights[g].key /\ flights'[g].stage = flights[g].stage
    BY <1>10, PublishEffect
  <2>4. \A d \in Callers \ {c} : Leads(d) => ask[d] # ask[c]
    BY <2>1
  <2>5. \A d \in Callers : Owns(d)' <=> Owns(d) /\ d # c
    BY <2>1, <2>2
  <2>6. \A d \in Callers : Leads(d)' <=> Leads(d) /\ d # c
    BY <2>1, <2>2
  <2>7. \A d \in Callers \ {c} : on'[d] = on[d] /\ pc'[d] = pc[d] /\ (Owns(d) => on[d] \in Flights)
    BY <2>2
  <2>8. LeadersHoldTheirKey'
    BY <2>2, <2>4, <2>6, <2>7
  <2>9. NoOrphanFlight'
    BY <2>1, <2>2, <2>7 DEF CacheAssumption
  <2>10. OwnersKnowTheirFlight'
    BY <2>2, <2>3, <2>5, <2>7
  <2>11. RunningIsOwned'
    BY <2>1, <2>3, <2>5, <2>7
  <2>12. OneOwner'
    <3> SUFFICES ASSUME NEW d \in Callers, NEW e \in Callers, Owns(d)', Owns(e)', on'[d] = on'[e]
                 PROVE  d = e
      OBVIOUS
    <3>1. d # c /\ e # c /\ Owns(d) /\ Owns(e)
      BY <2>5
    <3>2. on[d] = on[e]
      BY <2>7, <3>1
    <3> QED
      BY <3>1, <3>2
  <2>13. ModeInv'
    BY <2>2 DEF Cached
  <2> HIDE DEF ModeInv, OwnersKnowTheirFlight, LeadersHoldTheirKey, OneOwner,
               RunningIsOwned, NoOrphanFlight
  <2> QED
    BY <2>8, <2>9, <2>10, <2>11, <2>12, <2>13
<1>11. ASSUME NEW c \in Callers, WaitDone(c) PROVE OwnerInv'
  BY <1>11 DEF WaitDone, Return, Cached
<1>12. ASSUME NEW c \in Callers, GiveUp(c) PROVE OwnerInv'
  <2>1. /\ pc[c] = "waiting" /\ pc' = [pc EXCEPT ![c] = "idle"]
        /\ on' = [on EXCEPT ![c] = None]
        /\ UNCHANGED <<inflight, flights, ask>>
    BY <1>12 DEF GiveUp, Return
  <2> QED
    BY <2>1 DEF Cached
<1>13. CASE UNCHANGED vars
  BY <1>13 DEF vars, Cached
<1> QED
  BY <1>1, <1>2, <1>3, <1>4, <1>5, <1>6, <1>7, <1>8, <1>9, <1>10, <1>11, <1>12, <1>13
  DEF Next, Proceed, Evaluate, Lookup

-----------------------------------------------------------------------------
(* Reports, entries and answers.                                            *)

\* The parts of ReportInv that speak of what callers are given.
AnswerInv == AnswersAreFinishedEvaluations /\ OnlyOwnCancellation

\* A step that leaves the answers and the done flights alone keeps AnswerInv.
LEMMA AnswersKept ==
    ASSUME CacheAssumption, TypeOK, AnswerInv,
           answer' = answer, ask' = ask, gone' = gone,
           \A f \in Flights : flights[f].stage = "done" =>
             /\ flights'[f].stage = "done" /\ flights'[f].key = flights[f].key
             /\ flights'[f].outcome = flights[f].outcome
             /\ flights'[f].publishedAt = flights[f].publishedAt
    PROVE  AnswerInv'
<1>1. \A c \in Callers : answer[c].flight \in Flights \cup {None}
  BY DEF TypeOK, Answer
<1>2. AnswersAreFinishedEvaluations'
  BY <1>1 DEF AnswerInv, AnswersAreFinishedEvaluations, NilError
<1>3. OnlyOwnCancellation'
  BY DEF AnswerInv, OnlyOwnCancellation
<1> QED BY <1>2, <1>3 DEF AnswerInv

\* A caller that returns the outcome of a done flight of its key keeps AnswerInv.
LEMMA AnswerGiven ==
    ASSUME CacheAssumption, TypeOK, AnswerInv,
           NEW c \in Callers, NEW f \in Flights,
           NEW how \in {"hit", "joined", "led", "direct"},
           answer' = [answer EXCEPT ![c] =
             [how |-> how, outcome |-> flights'[f].outcome, flight |-> f]],
           ask' = ask, gone' = gone,
           flights'[f].stage = "done", flights'[f].key = ask[c],
           flights'[f].outcome \in Outcomes,
           flights'[f].outcome = "aborted" => gone[c],
           how = "hit" => NilError(flights'[f].outcome) /\ flights'[f].publishedAt >= 0,
           \A g \in Flights : flights[g].stage = "done" =>
             /\ flights'[g].stage = "done" /\ flights'[g].key = flights[g].key
             /\ flights'[g].outcome = flights[g].outcome
             /\ flights[g].publishedAt >= 0 => flights'[g].publishedAt >= 0
    PROVE  AnswerInv'
<1>1. answer'[c] = [how |-> how, outcome |-> flights'[f].outcome, flight |-> f]
  BY DEF TypeOK
<1>2. \A d \in Callers \ {c} : answer'[d] = answer[d]
  BY DEF TypeOK
<1>3. \A d \in Callers : answer[d] \in Answer
  BY DEF TypeOK
<1>4. AnswersAreFinishedEvaluations'
  <2> SUFFICES ASSUME NEW d \in Callers, answer'[d].flight # None
               PROVE  LET g == flights'[answer'[d].flight] IN
                        /\ g.stage = "done" /\ g.key = ask'[d] /\ g.outcome = answer'[d].outcome
                        /\ answer'[d].how = "hit" => NilError(g.outcome) /\ g.publishedAt >= 0
    BY DEF AnswersAreFinishedEvaluations, NilError
  <2>1. CASE d = c
    BY <1>1, <2>1
  <2>2. CASE d # c
    <3>1. answer'[d] = answer[d] /\ answer[d].flight \in Flights
      BY <1>2, <1>3, <2>2 DEF Answer
    <3> QED
      BY <3>1 DEF AnswerInv, AnswersAreFinishedEvaluations
  <2> QED BY <2>1, <2>2
<1>5. OnlyOwnCancellation'
  <2> SUFFICES ASSUME NEW d \in Callers, answer'[d].outcome \in {"cancelled", "aborted"}
               PROVE  gone'[d]
    BY DEF OnlyOwnCancellation
  <2>1. CASE d = c
    BY <1>1, <2>1 DEF Outcomes
  <2>2. CASE d # c
    BY <1>2, <2>2 DEF AnswerInv, OnlyOwnCancellation
  <2> QED BY <2>1, <2>2
<1> QED BY <1>4, <1>5 DEF AnswerInv

LEMMA ReportInvNext ==
    ASSUME CacheAssumption, TypeOK, OwnerInv, ReportInv, [Next]_vars
    PROVE  ReportInv'
<1>t. ttl' = ttl /\ ttl \in Int
  BY TtlIsFixed
<1> USE <1>t
<1> USE DEF ReportInv, OutcomesKnown, WaitersWantTheirFlight, EntriesPublished
<1>0. AnswerInv
  BY DEF AnswerInv
<1>1. ASSUME NEW c \in Callers, NEW k \in Keys, Arrive(c, k) PROVE ReportInv'
  <2>1. AnswerInv'
    BY <1>0, <1>1 DEF Arrive, AnswerInv, AnswersAreFinishedEvaluations,
                      OnlyOwnCancellation, NoAnswer, TypeOK, NilError
  <2> QED
    BY <1>1, <2>1 DEF Arrive, AnswerInv, TypeOK, Cached, NilError
<1>2. ASSUME NEW c \in Callers, Disconnect(c) PROVE ReportInv'
  <2>1. AnswerInv'
    BY <1>0, <1>2 DEF Disconnect, AnswerInv, AnswersAreFinishedEvaluations,
                      OnlyOwnCancellation, TypeOK, NilError
  <2> QED
    BY <1>2, <2>1 DEF Disconnect, AnswerInv, TypeOK, Cached, NilError
<1>3. CASE Tick
  <2>1. AnswerInv'
    BY <1>0, <1>3, AnswersKept DEF Tick
  <2> QED
    BY <1>3, <2>1 DEF Tick, AnswerInv, Cached, NilError
<1>4. ASSUME NEW c \in Callers, Hit(c) PROVE ReportInv'
  <2> DEFINE f == entries[ask[c]].report
  <2>1. ask[c] \in DOMAIN entries /\ f \in Flights
    BY <1>4 DEF Hit, Live, TypeOK
  <2>2. /\ answer' = [answer EXCEPT ![c] =
             [how |-> "hit", outcome |-> flights[f].outcome, flight |-> f]]
        /\ pc' = [pc EXCEPT ![c] = "idle"] /\ on' = [on EXCEPT ![c] = None]
        /\ UNCHANGED <<now, entries, inflight, flights, ask, gone>>
    BY <1>4 DEF Hit, Return
  <2>3. AnswerInv'
    BY <1>0, <2>1, <2>2, AnswerGiven DEF Cached
  <2> QED
    BY <2>2, <2>3 DEF AnswerInv, TypeOK, Cached, NilError
<1>5. ASSUME NEW c \in Callers, Join(c) PROVE ReportInv'
  <2>1. AnswerInv'
    BY <1>0, <1>5, AnswersKept DEF Join
  <2>2. inflight[ask[c]] # None
    BY <1>5 DEF Join, Joinable
  <2>3. PICK d \in Callers : on[d] = inflight[ask[c]] /\ ask[d] = ask[c] /\ Owns(d)
    BY <2>2 DEF OwnerInv, NoOrphanFlight, Owns, Leads, TypeOK
  <2>4. flights[on[d]].key = ask[c] /\ flights[on[d]].stage # "unused"
    BY <2>3 DEF OwnerInv, OwnersKnowTheirFlight
  <2> QED
    BY <1>5, <2>1, <2>3, <2>4 DEF Join, AnswerInv, TypeOK, Cached, NilError
<1>6. ASSUME NEW c \in Callers, NEW f \in Flights, Start(c, f), f \in Unused,
             pc' = [pc EXCEPT ![c] = "leading"] \/ pc' = [pc EXCEPT ![c] = "direct"],
             UNCHANGED <<now, entries, ask, gone, answer>>
      PROVE  ReportInv'
  <2>1. flights[f].stage = "unused"
    BY <1>6 DEF Unused
  <2>2. AnswerInv'
    BY <1>0, <1>6, <2>1, AnswersKept, StartEffect
  <2>3. OutcomesKnown' /\ WaitersWantTheirFlight'
    BY <1>6, <2>1, StartEffect, OnType DEF TypeOK, Cached
  <2>4. EntriesPublished'
    BY <1>6, <2>1, StartEffect DEF TypeOK, Cached, NilError
  <2> QED
    BY <2>2, <2>3, <2>4 DEF AnswerInv
<1>7. ASSUME NEW c \in Callers, NEW o \in Outcomes, on[c] \in Flights, Finish(on[c], o),
             flights[on[c]].stage = "running", o = "aborted" => ~Cached,
             \A d \in Callers : pc'[d] = "waiting" => pc[d] = "waiting" /\ on'[d] = on[d],
             UNCHANGED <<now, entries, ask, gone>>
      PROVE  OutcomesKnown' /\ WaitersWantTheirFlight' /\ EntriesPublished'
  <2>1. OutcomesKnown' /\ WaitersWantTheirFlight'
    BY <1>7, FinishEffect, OnType DEF TypeOK, Cached
  <2>2. EntriesPublished'
    BY <1>7, FinishEffect DEF TypeOK, Cached, NilError
  <2> QED BY <2>1, <2>2
<1>8. ASSUME NEW c \in Callers, Evaluated(c) PROVE ReportInv'
  <2>1. on[c] \in Flights /\ flights[on[c]].stage = "running"
    BY <1>8, OnType DEF Evaluated, OwnerInv, OwnersKnowTheirFlight, Owns, Leads
  <2>2. PICK o \in Outcomes \ {"aborted"} : Finish(on[c], o)
    BY <1>8 DEF Evaluated, EvaluateOutcomes, FlightCtxDone, Outcomes
  <2>3. AnswerInv'
    BY <1>0, <1>8, <2>1, <2>2, AnswersKept, FinishEffect DEF Evaluated
  <2>4. \A d \in Callers : pc'[d] = "waiting" => pc[d] = "waiting" /\ on'[d] = on[d]
    BY <1>8 DEF Evaluated, TypeOK
  <2>5. OutcomesKnown' /\ WaitersWantTheirFlight' /\ EntriesPublished'
    BY <1>7, <1>8, <2>1, <2>2, <2>4 DEF Evaluated
  <2> QED
    BY <2>3, <2>5 DEF AnswerInv
<1>9. ASSUME NEW c \in Callers, DirectEvaluated(c) PROVE ReportInv'
  <2>1. on[c] \in Flights /\ flights[on[c]].stage = "running" /\ flights[on[c]].key = ask[c]
    BY <1>9, OnType DEF DirectEvaluated, OwnerInv, OwnersKnowTheirFlight, Owns
  <2>2. PICK o \in Outcomes :
          /\ Finish(on[c], o) /\ Return(c, "direct", o, on[c])
          /\ o = "aborted" => gone[c]
    BY <1>9 DEF DirectEvaluated, EvaluateOutcomes, Outcomes
  <2>3. ~Cached
    BY <1>9 DEF DirectEvaluated, OwnerInv, ModeInv
  <2>4. AnswerInv'
    <3>1. /\ ask' = ask /\ gone' = gone
          /\ answer' = [answer EXCEPT ![c] =
               [how |-> "direct", outcome |-> flights'[on[c]].outcome, flight |-> on[c]]]
      <4>1. flights'[on[c]].outcome = o
        BY <2>1, <2>2, FinishEffect
      <4> QED
        BY <1>9, <2>2, <4>1 DEF DirectEvaluated, Return
    <3>2. /\ flights'[on[c]].stage = "done" /\ flights'[on[c]].key = ask[c]
          /\ flights'[on[c]].outcome = o
          /\ \A g \in Flights : flights[g].stage = "done" => flights'[g] = flights[g]
      BY <2>1, <2>2, FinishEffect
    <3> QED
      BY <1>0, <2>1, <2>2, <3>1, <3>2, AnswerGiven
  <2>5. \A d \in Callers : pc'[d] = "waiting" => pc[d] = "waiting" /\ on'[d] = on[d]
    BY <2>2 DEF Return, TypeOK
  <2>6. OutcomesKnown' /\ WaitersWantTheirFlight' /\ EntriesPublished'
    BY <1>7, <1>9, <2>1, <2>2, <2>3, <2>5 DEF DirectEvaluated
  <2> QED
    BY <2>4, <2>6 DEF AnswerInv
<1>10. ASSUME NEW c \in Callers, Publish(c) PROVE ReportInv'
  <2> DEFINE f == on[c]
  <2>1. /\ f \in Flights /\ flights[f].stage = "done" /\ flights[f].key = ask[c]
        /\ Cached /\ now \in Nat /\ ask[c] \in Keys
    BY <1>10, OnType DEF Publish, OwnerInv, OwnersKnowTheirFlight, ModeInv, Owns, Leads, TypeOK
  <2>2. AnswerInv'
    <3>1. /\ ask' = ask /\ gone' = gone
          /\ answer' = [answer EXCEPT ![c] =
               [how |-> "led", outcome |-> flights'[f].outcome, flight |-> f]]
      BY <1>10, PublishEffect DEF Publish
    <3>2. /\ flights'[f].stage = "done" /\ flights'[f].key = ask[c]
          /\ flights'[f].outcome = flights[f].outcome
          /\ flights[f].outcome \in Outcomes \ {"aborted"}
      BY <1>10, <2>1, PublishEffect
    <3>3. \A g \in Flights :
            /\ flights'[g].stage = flights[g].stage /\ flights'[g].key = flights[g].key
            /\ flights'[g].outcome = flights[g].outcome
            /\ flights[g].publishedAt >= 0 => flights'[g].publishedAt >= 0
      BY <1>10, <2>1, PublishEffect
    <3> QED
      BY <1>0, <2>1, <3>1, <3>2, <3>3, AnswerGiven
  <2>3. OutcomesKnown'
    BY <1>10, <2>1, PublishEffect DEF Cached, TypeOK
  <2>4. WaitersWantTheirFlight'
    <3>1. \A d \in Callers : pc'[d] = "waiting" => pc[d] = "waiting" /\ on'[d] = on[d]
      BY <1>10, PublishEffect DEF TypeOK
    <3>2. ask' = ask
      BY <1>10 DEF Publish
    <3> QED
      BY <1>10, <3>1, <3>2, PublishEffect, OnType DEF TypeOK
  <2>5. EntriesPublished'
    <3>1. CASE NilError(flights[f].outcome)
      <4>1. PICK K \in Survivors :
              entries' = [x \in K \cup {ask[c]} |->
                 IF x = ask[c] THEN [report |-> f, expires |-> now + ttl] ELSE entries[x]]
        BY <1>10, <3>1 DEF Publish, Store
      <4>2. K \subseteq DOMAIN entries
        BY SurvivorsSubset
      <4>3. \A g \in Flights : flights'[g].key = flights[g].key
              /\ flights'[g].stage = flights[g].stage /\ flights'[g].outcome = flights[g].outcome
              /\ flights'[g].publishedAt = IF g = f THEN now ELSE flights[g].publishedAt
        BY <1>10, <3>1, PublishEffect
      <4>4. \A x \in K \ {ask[c]} : entries[x].report \in Flights /\ entries[x].report # f
        BY <2>1, <4>2 DEF TypeOK
      <4> SUFFICES ASSUME NEW x \in DOMAIN entries'
                   PROVE  LET g == flights'[entries'[x].report] IN
                            /\ Cached' /\ g.key = x /\ g.stage = "done" /\ NilError(g.outcome)
                            /\ g.publishedAt >= 0 /\ entries'[x].expires = g.publishedAt + ttl
        BY DEF NilError
      <4>5. CASE x = ask[c]
        BY <2>1, <3>1, <4>1, <4>3, <4>5 DEF Cached, NilError
      <4>6. CASE x # ask[c]
        <5>1. x \in K \ {ask[c]} /\ x \in DOMAIN entries /\ entries'[x] = entries[x]
          BY <4>1, <4>2, <4>6
        <5> QED
          BY <4>3, <4>4, <5>1 DEF Cached, NilError
      <4> QED
        BY <4>5, <4>6
    <3>2. CASE ~NilError(flights[f].outcome)
      BY <1>10, <3>2 DEF Publish, Cached, NilError
    <3> QED BY <3>1, <3>2
  <2> QED
    BY <2>2, <2>3, <2>4, <2>5 DEF AnswerInv
<1>11. ASSUME NEW c \in Callers, WaitDone(c) PROVE ReportInv'
  <2>1. /\ on[c] \in Flights /\ flights[on[c]].stage = "done" /\ flights[on[c]].key = ask[c]
        /\ Cached
    BY <1>11, OnType DEF WaitDone, FlightDone, OwnerInv, ModeInv
  <2>2. /\ answer' = [answer EXCEPT ![c] =
             [how |-> "joined", outcome |-> flights[on[c]].outcome, flight |-> on[c]]]
        /\ pc' = [pc EXCEPT ![c] = "idle"] /\ on' = [on EXCEPT ![c] = None]
        /\ UNCHANGED <<now, entries, inflight, flights, ask, gone>>
    BY <1>11 DEF WaitDone, Return
  <2>3. AnswerInv'
    BY <1>0, <2>1, <2>2, AnswerGiven
  <2> QED
    BY <2>2, <2>3 DEF AnswerInv, TypeOK, Cached, NilError
<1>12. ASSUME NEW c \in Callers, GiveUp(c) PROVE ReportInv'
  <2>1. /\ answer' = [answer EXCEPT ![c] =
             [how |-> "gave up", outcome |-> "cancelled", flight |-> None]]
        /\ pc' = [pc EXCEPT ![c] = "idle"] /\ on' = [on EXCEPT ![c] = None]
        /\ gone[c]
        /\ UNCHANGED <<now, entries, inflight, flights, ask, gone>>
    BY <1>12 DEF GiveUp, Return
  <2>2. answer'[c].flight = None /\ \A d \in Callers \ {c} : answer'[d] = answer[d]
    BY <2>1 DEF TypeOK
  <2>3. AnswersAreFinishedEvaluations'
    <3>1. ask' = ask /\ flights' = flights
      BY <2>1
    <3> QED
      BY <1>0, <2>2, <3>1 DEF AnswerInv, AnswersAreFinishedEvaluations, NilError
  <2>4. OnlyOwnCancellation'
    BY <1>0, <2>1, <2>2 DEF AnswerInv, OnlyOwnCancellation
  <2>5. \A d \in Callers : pc'[d] = "waiting" => pc[d] = "waiting" /\ on'[d] = on[d]
    BY <2>1 DEF TypeOK
  <2>6. ask' = ask /\ flights' = flights /\ entries' = entries
    BY <2>1
  <2>7. OutcomesKnown' /\ WaitersWantTheirFlight'
    BY <2>5, <2>6 DEF Cached
  <2>8. EntriesPublished'
    BY <2>6 DEF Cached, NilError
  <2> QED
    BY <2>3, <2>4, <2>7, <2>8
<1>13. CASE UNCHANGED vars
  <2>1. AnswerInv'
    BY <1>0, <1>13, AnswersKept DEF vars
  <2> QED
    BY <1>13, <2>1 DEF vars, AnswerInv, Cached, NilError
<1>14. ASSUME NEW c \in Callers, Lead(c) \/ Direct(c) PROVE ReportInv'
  <2>1. PICK f \in Unused : Start(c, f)
    BY <1>14 DEF Lead, Direct
  <2>2. f \in Flights
    BY DEF Unused
  <2> QED
    BY <1>6, <1>14, <2>1, <2>2 DEF Lead, Direct
<1> QED
  BY <1>1, <1>2, <1>3, <1>4, <1>5, <1>8, <1>9, <1>10, <1>11, <1>12, <1>13, <1>14
  DEF Next, Proceed, Evaluate, Lookup

-----------------------------------------------------------------------------
(* The bound of the map, and the inductive invariant as a whole.            *)

\* A set of survivors leaves room for one more entry.
LEMMA SurvivorsLeaveRoom ==
    ASSUME CacheAssumption, TypeOK, NEW K \in Survivors
    PROVE  IsFiniteSet(K) /\ Cardinality(K) < MaxEntries
<1>1. IsFiniteSet(DOMAIN entries) /\ IsFiniteSet(Unexpired)
  BY FS_Subset DEF CacheAssumption, TypeOK, Unexpired
<1>2. IsFiniteSet(K)
  BY <1>1, SurvivorsSubset, FS_Subset
<1>3. Cardinality(K) < MaxEntries
  BY <1>1, FS_CardinalityType DEF Survivors, CacheAssumption
<1> QED BY <1>2, <1>3

LEMMA BoundedNext ==
    ASSUME CacheAssumption, TypeOK, Bounded, [Next]_vars
    PROVE  Bounded'
<1>1. ASSUME NEW c \in Callers, Publish(c), NilError(flights[on[c]].outcome) PROVE Bounded'
  <2>1. PICK K \in Survivors : DOMAIN entries' = K \cup {ask[c]}
    BY <1>1 DEF Publish, Store
  <2>2. IsFiniteSet(K) /\ Cardinality(K) \in Nat /\ Cardinality(K) < MaxEntries
    BY SurvivorsLeaveRoom, FS_CardinalityType
  <2>3. Cardinality(K \cup {ask[c]}) \in {Cardinality(K), Cardinality(K) + 1}
    BY <2>2, FS_AddElement
  <2> QED
    BY <2>1, <2>2, <2>3 DEF Bounded, CacheAssumption
<1>2. CASE entries' = entries
  BY <1>2 DEF Bounded
<1>3. entries' = entries \/ \E c \in Callers : Publish(c) /\ NilError(flights[on[c]].outcome)
  BY DEF Next, vars, Arrive, Disconnect, Tick, Proceed, Evaluate, Lookup, Hit, Join, Lead, Direct,
         Evaluated, DirectEvaluated, Publish, WaitDone, GiveUp
<1> QED BY <1>1, <1>2, <1>3

-----------------------------------------------------------------------------
(* The age of the reports.                                                  *)

LEMMA LeadersKeyNext ==
    ASSUME CacheAssumption, IInv, [Next]_vars
    PROVE  LeadersKeyIsNotLive'
<1>t. ttl' = ttl /\ ttl \in Int
  BY TtlIsFixed DEF IInv
<1> USE <1>t
<1> USE DEF LeadersKeyIsNotLive, Leads, Live
<1>1. TypeOK /\ LeadersKeyIsNotLive
  BY DEF IInv, AgeInv
<1>2. CASE Tick
  BY <1>1, <1>2 DEF Tick, TypeOK
<1>3. ASSUME NEW c \in Callers, Lead(c) PROVE LeadersKeyIsNotLive'
  BY <1>1, <1>3 DEF Lead, TypeOK
<1>4. ASSUME NEW c \in Callers, Publish(c) PROVE LeadersKeyIsNotLive'
  <2> SUFFICES ASSUME NEW d \in Callers, Leads(d)'
               PROVE  ~Live(ask[d])'
    BY DEF Leads
  <2>1. d # c /\ Leads(d) /\ Leads(c) /\ ask' = ask /\ now' = now
    BY <1>1, <1>4, PublishEffect DEF Publish, TypeOK
  <2>2. ask[d] # ask[c]
    BY <1>1, <2>1 DEF IInv, OwnerInv, LeadersHoldTheirKey, OneOwner, Owns
  <2>3. CASE entries' = entries
    BY <1>1, <2>1, <2>3
  <2>4. ASSUME NEW K \in Survivors,
               entries' = [x \in K \cup {ask[c]} |->
                 IF x = ask[c] THEN [report |-> on[c], expires |-> now + ttl] ELSE entries[x]]
        PROVE ~Live(ask[d])'
    BY <1>1, <2>1, <2>2, <2>4, SurvivorsSubset
  <2> QED
    BY <1>4, <2>3, <2>4 DEF Publish, Store
<1>5. ASSUME now' = now, entries' = entries, ask' = ask,
             \A c \in Callers : Leads(c)' => Leads(c)
      PROVE  LeadersKeyIsNotLive'
  BY <1>1, <1>5
<1>6. ASSUME NEW c \in Callers, NEW k \in Keys, Arrive(c, k) PROVE LeadersKeyIsNotLive'
  BY <1>1, <1>6 DEF Arrive, TypeOK
<1>7. ASSUME NEW c \in Callers, Disconnect(c) \/ Hit(c) \/ Join(c) \/ Direct(c) \/ Evaluate(c)
                                  \/ WaitDone(c) \/ GiveUp(c)
      PROVE LeadersKeyIsNotLive'
  <2>1. now' = now /\ entries' = entries /\ ask' = ask
    BY <1>7 DEF Disconnect, Hit, Join, Direct, Evaluate, Evaluated, DirectEvaluated, WaitDone, GiveUp
  <2>2. \A d \in Callers : Leads(d)' => Leads(d)
    BY <1>1, <1>7 DEF Disconnect, Hit, Join, Direct, Evaluate, Evaluated, DirectEvaluated,
                      WaitDone, GiveUp, Return, TypeOK
  <2> QED
    BY <1>1, <2>1, <2>2
<1>8. CASE UNCHANGED vars
  BY <1>1, <1>8 DEF vars
<1> QED
  BY <1>2, <1>3, <1>4, <1>6, <1>7, <1>8 DEF Next, Proceed, Lookup

LEMMA PublishedNext ==
    ASSUME CacheAssumption, IInv, [Next]_vars
    PROVE  PublishedInThePast'
<1>1. TypeOK /\ PublishedInThePast /\ now \in Nat /\ \A g \in Flights : flights[g] \in Flight
  BY DEF IInv, AgeInv, TypeOK
<1>2. ASSUME now' = now \/ now' = now + 1,
             \A g \in Flights : flights'[g].publishedAt \in {flights[g].publishedAt, now}
      PROVE  PublishedInThePast'
  BY <1>1, <1>2 DEF PublishedInThePast, Flight
<1>3. ASSUME NEW c \in Callers, Publish(c) PROVE PublishedInThePast'
  BY <1>1, <1>2, <1>3, PublishEffect DEF Publish
<1>4. ASSUME NEW c \in Callers, Lead(c) \/ Direct(c) PROVE PublishedInThePast'
  <2>1. PICK f \in Flights : Start(c, f)
    BY <1>4 DEF Lead, Direct, Unused
  <2> QED
    BY <1>1, <1>2, <1>4, <2>1, StartEffect DEF Lead, Direct
<1>5. ASSUME NEW c \in Callers, Evaluate(c) PROVE PublishedInThePast'
  <2>1. PICK o \in Outcomes : Finish(on[c], o)
    BY <1>5, EvaluateOutcomesType DEF Evaluate, Evaluated, DirectEvaluated
  <2>2. on[c] \in Flights
    BY <1>1, <1>5, OnType DEF Evaluate, Evaluated, DirectEvaluated
  <2> QED
    BY <1>1, <1>2, <1>5, <2>1, <2>2, FinishEffect DEF Evaluate, Evaluated, DirectEvaluated
<1>6. ASSUME flights' = flights, now' = now \/ now' = now + 1 PROVE PublishedInThePast'
  BY <1>2, <1>6
<1> QED
  BY <1>3, <1>4, <1>5, <1>6
  DEF Next, vars, Proceed, Lookup, Arrive, Disconnect, Tick, Hit, Join, WaitDone, GiveUp

LEMMA InitIInv ==
    ASSUME CacheAssumption, Init
    PROVE  IInv
<1>1. TypeOK
  BY InitTypeOK
<1>2. OwnerInv
  BY DEF Init, OwnerInv, ModeInv, OwnersKnowTheirFlight, LeadersHoldTheirKey, OneOwner,
         RunningIsOwned, NoOrphanFlight, Owns, Leads
<1>3. ReportInv
  BY DEF Init, ReportInv, OutcomesKnown, WaitersWantTheirFlight, EntriesPublished,
         AnswersAreFinishedEvaluations, OnlyOwnCancellation, NoAnswer
<1>4. Bounded
  BY FS_EmptySet DEF Init, Bounded, CacheAssumption
<1>5. AgeInv
  BY DEF Init, AgeInv, LeadersKeyIsNotLive, PublishedInThePast, Leads
<1> QED
  BY <1>1, <1>2, <1>3, <1>4, <1>5 DEF IInv

LEMMA NextIInv ==
    ASSUME CacheAssumption, IInv, [Next]_vars
    PROVE  IInv'
BY NextTypeOK, OwnerInvNext, ReportInvNext, BoundedNext, LeadersKeyNext, PublishedNext
DEF IInv, AgeInv

\* The inductive invariant of the cache.
THEOREM InductiveInvariant == Spec => []IInv
<1> USE CacheAssumption
<1>1. Init => IInv
  BY InitIInv
<1>2. IInv /\ [Next]_vars => IInv'
  BY NextIInv
<1> QED
  BY <1>1, <1>2, PTL DEF Spec

-----------------------------------------------------------------------------
(* What follows from the inductive invariant.                               *)

\* With the cache on, a key never has two evaluations running (cache.go:56-83).
THEOREM SingleFlight == Spec => []OneEvaluationPerKey
<1>1. IInv => OneEvaluationPerKey
  <2> SUFFICES ASSUME IInv, Cached, NEW f \in Flights, NEW g \in Flights,
                      flights[f].stage = "running", flights[g].stage = "running",
                      flights[f].key = flights[g].key
               PROVE  f = g
    BY DEF OneEvaluationPerKey
  <2>1. PICK c \in Callers : Owns(c) /\ on[c] = f
    BY DEF IInv, OwnerInv, RunningIsOwned
  <2>2. PICK d \in Callers : Owns(d) /\ on[d] = g
    BY DEF IInv, OwnerInv, RunningIsOwned
  <2>3. Leads(c) /\ Leads(d)
    BY <2>1, <2>2 DEF IInv, OwnerInv, ModeInv, Owns
  <2>4. ask[c] = ask[d]
    BY <2>1, <2>2 DEF IInv, OwnerInv, OwnersKnowTheirFlight
  <2> QED
    BY <2>1, <2>2, <2>3, <2>4 DEF IInv, OwnerInv, LeadersHoldTheirKey
<1> QED
  BY <1>1, InductiveInvariant, PTL

\* No key is left with a flight that nobody retires (cache.go:80-83).
THEOREM FlightsAreRetired == Spec => []NoOrphanFlight
<1>1. IInv => NoOrphanFlight
  BY DEF IInv, OwnerInv
<1> QED
  BY <1>1, InductiveInvariant, PTL

\* Every answer is a finished evaluation of the key that was asked (cache.go:50-91).
THEOREM AnswersCorrect == Spec => []AnswersAreFinishedEvaluations
<1>1. IInv => AnswersAreFinishedEvaluations
  BY DEF IInv, ReportInv
<1> QED
  BY <1>1, InductiveInvariant, PTL

\* Nobody's answer is spoilt by another client's disconnection (cache.go:66-79).
THEOREM CancellationIsPrivate == Spec => []OnlyOwnCancellation
<1>1. IInv => OnlyOwnCancellation
  BY DEF IInv, ReportInv
<1> QED
  BY <1>1, InductiveInvariant, PTL

\* The map never holds more than maxEntries reports (cache.go:97-120).
THEOREM MapIsBounded == Spec => []Bounded
<1>1. IInv => Bounded
  BY DEF IInv
<1> QED
  BY <1>1, InductiveInvariant, PTL

\* A report is handed out from the map only within ttl of its publication
\* (cache.go:56, 86).
THEOREM HitsFresh == Spec => HitsAreFresh
<1> DEFINE Fresh == \A c \in Callers :
         answer'[c] # answer[c] /\ answer'[c].how = "hit"
           => now < flights[answer'[c].flight].publishedAt + ttl
<1>1. IInv /\ [Next]_vars => [Fresh]_vars
  <2> SUFFICES ASSUME IInv, Next, NEW c \in Callers,
                      answer'[c] # answer[c], answer'[c].how = "hit"
               PROVE  now < flights[answer'[c].flight].publishedAt + ttl
    OBVIOUS
  <2>1. answer \in [Callers -> Answer]
    BY DEF IInv, TypeOK
  <2>2. PICK d \in Callers : Hit(d)
    <3>1. ASSUME NEW d \in Callers, NEW how, how # "hit", NEW o, NEW f, Return(d, how, o, f)
          PROVE  FALSE
      BY <2>1, <3>1 DEF Return
    <3>2. ASSUME NEW d \in Callers, NEW k \in Keys, Arrive(d, k) PROVE FALSE
      BY <2>1, <3>2 DEF Arrive, NoAnswer
    <3>3. answer' # answer
      OBVIOUS
    <3> QED
      BY <3>1, <3>2, <3>3 DEF Next, Disconnect, Tick, Proceed, Evaluate, Lookup, Join, Lead,
         Direct, Evaluated, DirectEvaluated, Publish, WaitDone, GiveUp
  <2>3. d = c
    BY <2>1, <2>2 DEF Hit, Return
  <2>4. Live(ask[c]) /\ answer'[c].flight = entries[ask[c]].report
    BY <2>1, <2>2, <2>3 DEF Hit, Return
  <2> QED
    BY <2>4 DEF Live, IInv, ReportInv, EntriesPublished
<1> QED
  BY <1>1, InductiveInvariant, PTL DEF Spec, HitsAreFresh

-----------------------------------------------------------------------------
(* What the eviction drops.                                                 *)

\* When a leader stores its report, a live report that is dropped outlives none of
\* the reports that are kept, and these fill the map.
LEMMA Evicted ==
    ASSUME CacheAssumption, IInv, NEW c \in Callers, Leads(c), NEW f \in Flights,
           NEW K \in Survivors,
           entries' = [x \in K \cup {ask[c]} |->
             IF x = ask[c] THEN [report |-> f, expires |-> now + ttl] ELSE entries[x]],
           NEW k \in DOMAIN entries \ DOMAIN entries', now < entries[k].expires
    PROVE  /\ Cardinality(DOMAIN entries') = MaxEntries
           /\ \A x \in DOMAIN entries' \cap DOMAIN entries :
                entries'[x] = entries[x] => entries[k].expires <= entries[x].expires
<1>1. /\ TypeOK /\ now \in Nat /\ ttl \in Int /\ ttl >= 0 /\ MaxEntries \in Nat
      /\ DOMAIN entries \subseteq Keys /\ \A x \in DOMAIN entries : entries[x].expires \in Int
  BY DEF IInv, OwnerInv, ModeInv, Leads, Cached, TypeOK, CacheAssumption
<1>2. ~Live(ask[c])
  BY DEF IInv, AgeInv, LeadersKeyIsNotLive
<1>3. k \in Unexpired /\ k \notin K
  BY <1>1 DEF Unexpired
<1>4. /\ K \subseteq Unexpired /\ Cardinality(K) = MaxEntries - 1
      /\ \A x \in K, d \in Unexpired \ K : entries[d].expires <= entries[x].expires
  BY <1>3 DEF Survivors
<1>5. \A x \in K : entries[k].expires <= entries[x].expires /\ x \in DOMAIN entries
  BY <1>3, <1>4 DEF Unexpired
<1>6. ask[c] \notin K
  BY <1>1, <1>2, <1>5 DEF Live
<1>7. Cardinality(DOMAIN entries') = MaxEntries
  <2>1. IsFiniteSet(K)
    BY <1>1, <1>5, FS_Subset DEF CacheAssumption
  <2>2. Cardinality(K \cup {ask[c]}) = Cardinality(K) + 1
    BY <1>6, <2>1, FS_AddElement
  <2> QED
    BY <1>1, <1>4, <2>2
<1>8. ASSUME ask[c] \in DOMAIN entries, entries'[ask[c]] = entries[ask[c]] PROVE FALSE
  \* The entry is no longer live, yet as young as the report that replaces it: ttl is
  \* zero, and then the report of k is not live either.
  <2>1. entries[ask[c]].expires = now + ttl
    BY <1>8
  <2>2. ttl = 0
    BY <1>1, <1>2, <1>8, <2>1 DEF Live
  <2>3. entries[k].report \in Flights /\ flights[entries[k].report] \in Flight
        /\ entries[k].expires = flights[entries[k].report].publishedAt + ttl
    BY DEF IInv, TypeOK, ReportInv, EntriesPublished
  <2>4. flights[entries[k].report].publishedAt \in Int
        /\ flights[entries[k].report].publishedAt <= now
    BY <2>3 DEF IInv, AgeInv, PublishedInThePast, Flight
  <2> QED
    BY <1>1, <2>2, <2>3, <2>4
<1> QED
  BY <1>5, <1>7, <1>8

\* Only what is expired is dropped while there is room, and then the oldest live
\* reports, for every size of the map (cache.go:97-120).
THEOREM OldestAreEvicted == Spec => EvictsOldestAndOnlyWhenFull
<1> DEFINE Evicts == \A k \in DOMAIN entries \ DOMAIN entries' : now < entries[k].expires =>
             /\ Cardinality(DOMAIN entries') = MaxEntries
             /\ \A x \in DOMAIN entries' \cap DOMAIN entries :
                  entries'[x] = entries[x] => entries[k].expires <= entries[x].expires
<1>1. IInv /\ [Next]_vars => [Evicts]_vars
  <2> SUFFICES ASSUME IInv, Next PROVE Evicts
    OBVIOUS
  <2>1. ASSUME NEW c \in Callers, Publish(c), NilError(flights[on[c]].outcome) PROVE Evicts
    <3>1. Leads(c) /\ on[c] \in Flights
      BY <2>1, OnType DEF Publish, Leads, IInv
    <3>2. PICK K \in Survivors : entries' = [x \in K \cup {ask[c]} |->
            IF x = ask[c] THEN [report |-> on[c], expires |-> now + ttl] ELSE entries[x]]
      BY <2>1 DEF Publish, Store
    <3>3. ASSUME NEW k \in DOMAIN entries \ DOMAIN entries', now < entries[k].expires
          PROVE  /\ Cardinality(DOMAIN entries') = MaxEntries
                 /\ \A x \in DOMAIN entries' \cap DOMAIN entries :
                      entries'[x] = entries[x] => entries[k].expires <= entries[x].expires
      BY <3>1, <3>2, <3>3, Evicted, CacheAssumption
    <3> QED
      BY <3>3
  <2>2. CASE entries' = entries
    BY <2>2
  <2>3. entries' = entries \/ \E c \in Callers : Publish(c) /\ NilError(flights[on[c]].outcome)
    BY DEF Next, Arrive, Disconnect, Tick, Proceed, Evaluate, Lookup, Hit, Join, Lead, Direct,
           Evaluated, DirectEvaluated, Publish, WaitDone, GiveUp
  <2> QED
    BY <2>1, <2>2, <2>3
<1> QED
  BY <1>1, InductiveInvariant, PTL DEF Spec, EvictsOldestAndOnlyWhenFull

-----------------------------------------------------------------------------
(* A fresh report is not evaluated again when the keys fit in the map.      *)

\* A survivor of the eviction is any live entry but that of the key to be stored.
LEMMA LiveEntriesSurvive ==
    ASSUME CacheAssumption, TypeOK, Cardinality(Keys) <= MaxEntries,
           NEW k \in Keys, ~Live(k),
           NEW K \in Survivors, NEW x \in DOMAIN entries, Live(x)
    PROVE  x \in K
<1>1. /\ x \in Keys /\ x # k /\ x \in Unexpired /\ Unexpired \subseteq Keys
      /\ \A y \in DOMAIN entries : entries[y].expires \in Int
      /\ now \in Int
  BY DEF TypeOK, Live, Unexpired
<1>2. CASE K = DOMAIN entries \/ K = Unexpired
  BY <1>1, <1>2
<1>3. CASE /\ Cardinality(Unexpired) >= MaxEntries
           /\ K \subseteq Unexpired /\ Cardinality(K) = MaxEntries - 1
           /\ \A y \in K, d \in Unexpired \ K : entries[d].expires <= entries[y].expires
  <2> SUFFICES ASSUME x \notin K PROVE FALSE
    OBVIOUS
  <2>1. \A y \in K : y # k
    BY <1>1, <1>3 DEF Live, Unexpired
  <2>2. K \subseteq (Keys \ {k}) \ {x}
    BY <1>1, <1>3, <2>1
  <2>3. IsFiniteSet(Keys) /\ Cardinality(Keys) \in Nat
    BY FS_CardinalityType DEF CacheAssumption
  <2>4. IsFiniteSet(Keys \ {k}) /\ Cardinality(Keys \ {k}) = Cardinality(Keys) - 1
    BY <2>3, FS_RemoveElement
  <2>5. IsFiniteSet((Keys \ {k}) \ {x}) /\ Cardinality((Keys \ {k}) \ {x}) = Cardinality(Keys) - 2
    <3>1. x \in Keys \ {k}
      BY <1>1
    <3> DEFINE S == Keys \ {k}
    <3>2. IsFiniteSet(S \ {x}) /\ Cardinality(S \ {x}) = Cardinality(S) - 1
      BY <2>4, <3>1, FS_RemoveElement
    <3> QED
      BY <2>3, <2>4, <3>2
  <2>6. Cardinality(K) <= Cardinality(Keys) - 2
    BY <2>2, <2>5, FS_Subset
  <2> QED
    BY <1>3, <2>3, <2>6 DEF CacheAssumption
<1>4. IsFiniteSet(Unexpired) /\ Cardinality(Unexpired) \in Nat
  BY <1>1, FS_Subset, FS_CardinalityType DEF CacheAssumption
<1> QED
  BY <1>2, <1>3, <1>4 DEF Survivors, CacheAssumption

LEMMA FreshReportsNext ==
    ASSUME CacheAssumption, Cardinality(Keys) <= MaxEntries,
           IInv, FreshReportsKept, [Next]_vars
    PROVE  FreshReportsKept'
<1>t. ttl' = ttl /\ ttl \in Int
  BY TtlIsFixed DEF IInv
<1> USE <1>t
<1> USE DEF FreshReportsKept
<1>1. TypeOK /\ \A g \in Flights : flights[g] \in Flight
  BY DEF IInv, TypeOK
<1>2. ASSUME entries' = entries, now' = now \/ now' = now + 1,
             \A g \in Flights : flights'[g].publishedAt >= 0 =>
               /\ flights[g].publishedAt = flights'[g].publishedAt
               /\ flights[g].key = flights'[g].key
      PROVE  FreshReportsKept'
  BY <1>1, <1>2 DEF TypeOK, Flight
<1>3. ASSUME NEW c \in Callers, Publish(c) PROVE FreshReportsKept'
  <2> DEFINE f == on[c]
  <2>1. /\ f \in Flights /\ ask[c] \in Keys /\ flights[f].key = ask[c] /\ ~Live(ask[c])
        /\ now' = now /\ now \in Nat
    BY <1>1, <1>3, PublishEffect
    DEF Publish, IInv, OwnerInv, OwnersKnowTheirFlight, Owns, Leads, AgeInv, LeadersKeyIsNotLive, TypeOK
  <2>2. CASE ~NilError(flights[f].outcome)
    BY <1>2, <1>3, <2>2 DEF Publish
  <2>3. CASE NilError(flights[f].outcome)
    <3>1. PICK K \in Survivors :
            entries' = [x \in K \cup {ask[c]} |->
               IF x = ask[c] THEN [report |-> f, expires |-> now + ttl] ELSE entries[x]]
      BY <1>3, <2>3 DEF Publish, Store
    <3>2. \A g \in Flights : /\ flights'[g].key = flights[g].key
                             /\ flights'[g].publishedAt = IF g = f THEN now ELSE flights[g].publishedAt
      BY <1>1, <1>3, <2>3, PublishEffect
    <3> SUFFICES ASSUME NEW g \in Flights, flights'[g].publishedAt >= 0,
                        now < flights'[g].publishedAt + ttl
                 PROVE  /\ flights'[g].key \in DOMAIN entries'
                        /\ entries'[flights'[g].key].expires >= flights'[g].publishedAt + ttl
      BY <2>1
    <3>3. CASE g = f
      BY <2>1, <3>1, <3>2, <3>3 DEF CacheAssumption
    <3>4. CASE g # f
      <4> DEFINE k == flights[g].key
      <4>1. flights'[g].key = k /\ flights'[g].publishedAt = flights[g].publishedAt
            /\ flights[g].publishedAt \in Int
        BY <1>1, <3>2, <3>4 DEF Flight
      <4>2. k \in DOMAIN entries /\ entries[k].expires >= flights[g].publishedAt + ttl
        BY <4>1
      <4>3. entries[k].expires \in Int
        BY <1>1, <4>2 DEF TypeOK
      <4>4. Live(k)
        BY <2>1, <4>1, <4>2, <4>3 DEF Live, CacheAssumption
      <4>5. k # ask[c] /\ k \in K
        BY <1>1, <2>1, <4>2, <4>4, LiveEntriesSurvive
      <4> QED
        BY <3>1, <4>1, <4>2, <4>5
    <3> QED BY <3>3, <3>4
  <2> QED BY <2>2, <2>3
<1>4. ASSUME NEW c \in Callers, Lead(c) \/ Direct(c) PROVE FreshReportsKept'
  <2>1. PICK f \in Unused : Start(c, f)
    BY <1>4 DEF Lead, Direct
  <2>2. f \in Flights /\ flights[f].publishedAt = -1
    BY DEF Unused, IInv, ReportInv, OutcomesKnown
  <2>3. \A g \in Flights : flights'[g].publishedAt >= 0 => flights'[g] = flights[g]
    BY <1>1, <2>1, <2>2, StartEffect
  <2> QED
    BY <1>2, <1>4, <2>3 DEF Lead, Direct
<1>5. ASSUME NEW c \in Callers, Evaluate(c) PROVE FreshReportsKept'
  <2>1. PICK o \in Outcomes : Finish(on[c], o)
    BY <1>5, EvaluateOutcomesType DEF Evaluate, Evaluated, DirectEvaluated
  <2>2. on[c] \in Flights
    BY <1>1, <1>5, OnType DEF Evaluate, Evaluated, DirectEvaluated
  <2>3. \A g \in Flights : /\ flights[g].publishedAt = flights'[g].publishedAt
                           /\ flights[g].key = flights'[g].key
    BY <1>1, <2>1, <2>2, FinishEffect
  <2> QED
    BY <1>2, <1>5, <2>3 DEF Evaluate, Evaluated, DirectEvaluated
<1>6. ASSUME entries' = entries, flights' = flights, now' = now \/ now' = now + 1
      PROVE  FreshReportsKept'
  BY <1>2, <1>6
<1> QED
  BY <1>3, <1>4, <1>5, <1>6
  DEF Next, vars, Proceed, Lookup, Arrive, Disconnect, Tick, Hit, Join, WaitDone, GiveUp

\* As long as the keys fit in the map, a key whose report was published less than
\* ttl ago is not evaluated again (cache.go:56-73, 82-120).
THEOREM FreshReportsAreReused ==
    ASSUME Cardinality(Keys) <= MaxEntries
    PROVE  Spec => NoEarlyReevaluation
<1> DEFINE Inv == IInv /\ FreshReportsKept
           Reused == \A f, g \in Flights :
             /\ flights[f].stage = "unused" /\ flights'[f].stage = "running"
             /\ flights[g].publishedAt >= 0
             /\ flights[g].key = flights'[f].key
             => now >= flights[g].publishedAt + ttl
<1> USE CacheAssumption
<1>1. Init => Inv
  BY InitIInv DEF Init, FreshReportsKept
<1>2. Inv /\ [Next]_vars => Inv'
  BY NextIInv, FreshReportsNext
<1>3. Inv /\ [Next]_vars => [Reused]_vars
  <2> SUFFICES ASSUME Inv, Next, NEW f \in Flights, NEW g \in Flights,
                      flights[f].stage = "unused", flights'[f].stage = "running",
                      flights[g].publishedAt >= 0, flights[g].key = flights'[f].key
               PROVE  now >= flights[g].publishedAt + ttl
    OBVIOUS
  <2>1. /\ TypeOK /\ flights[g] \in Flight /\ flights[f] \in Flight /\ now \in Nat
        /\ flights[g].publishedAt \in Int /\ flights[g].publishedAt <= now
        /\ ttl \in Int
    BY DEF IInv, AgeInv, PublishedInThePast, TypeOK, Flight, CacheAssumption
  <2>2. PICK c \in Callers : Lead(c) \/ Direct(c)
    <3>1. ASSUME NEW c \in Callers, Evaluate(c) PROVE FALSE
      <4>1. PICK o \in Outcomes : Finish(on[c], o)
        BY <3>1, EvaluateOutcomesType DEF Evaluate, Evaluated, DirectEvaluated
      <4>2. on[c] \in Flights
        BY <2>1, <3>1, OnType DEF Evaluate, Evaluated, DirectEvaluated
      <4> QED
        BY <2>1, <4>1, <4>2, FinishEffect
    <3>2. ASSUME NEW c \in Callers, Publish(c) PROVE FALSE
      BY <2>1, <3>2, PublishEffect
    <3>3. flights' # flights
      OBVIOUS
    <3> QED
      BY <3>1, <3>2, <3>3
      DEF Next, Proceed, Lookup, Arrive, Disconnect, Tick, Hit, Join, WaitDone, GiveUp
  <2>3. PICK h \in Unused : Start(c, h)
    BY <2>2 DEF Lead, Direct
  <2>4. h = f /\ flights'[f].key = ask[c]
    BY <2>1, <2>3, StartEffect DEF Unused
  <2>5. CASE Direct(c)
    BY <2>1, <2>5 DEF Direct, Cached, CacheAssumption
  <2>6. CASE Lead(c)
    <3>1. ~Live(ask[c])
      BY <2>6 DEF Lead
    <3> QED
      BY <2>1, <2>4, <3>1 DEF Live, FreshReportsKept, TypeOK, CacheAssumption
  <2> QED
    BY <2>2, <2>5, <2>6
<1> QED
  BY <1>1, <1>2, <1>3, PTL DEF Spec, NoEarlyReevaluation

\* Behind EveryCallReturns: a request that waits has an outcome to take, or a leader that
\* evaluates what it waits for and will close its channel (cache.go:61-69, 78-83).
NobodyWaitsInVain ==
    \A c \in Callers : pc[c] = "waiting" =>
      FlightDone(on[c]) \/ \E d \in Callers : pc[d] = "leading" /\ on[d] = on[c] /\ ask[d] = ask[c]

\* No request waits for a flight that nobody is going to end, whoever disconnects.
THEOREM WaitersHaveLeaders == Spec => []NobodyWaitsInVain
<1>1. IInv => NobodyWaitsInVain
  <2> SUFFICES ASSUME IInv, NEW c \in Callers, pc[c] = "waiting", ~FlightDone(on[c])
               PROVE  \E d \in Callers : pc[d] = "leading" /\ on[d] = on[c] /\ ask[d] = ask[c]
    BY DEF NobodyWaitsInVain
  <2>1. on[c] \in Flights /\ flights[on[c]] \in Flight
    BY OnType DEF IInv
  <2>2. flights[on[c]].key = ask[c] /\ flights[on[c]].stage = "running" /\ Cached
    BY <2>1 DEF IInv, ReportInv, WaitersWantTheirFlight, OwnerInv, ModeInv, FlightDone, Flight
  <2>3. PICK d \in Callers : Owns(d) /\ on[d] = on[c]
    BY <2>1, <2>2 DEF IInv, OwnerInv, RunningIsOwned
  <2>4. pc[d] = "leading" /\ ask[d] = ask[c]
    BY <2>2, <2>3 DEF IInv, OwnerInv, ModeInv, OwnersKnowTheirFlight, Owns, Leads
  <2> QED
    BY <2>3, <2>4
<1> QED
  BY <1>1, InductiveInvariant, PTL
=============================================================================
