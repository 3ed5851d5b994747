------------------------ MODULE EvaluationPoolProofs ------------------------
(***************************************************************************)
(* Theorems about EvaluationPool, for any number of evaluations, queries   *)
(* and slots.                                                              *)
(***************************************************************************)
EXTENDS EvaluationPool, FiniteSetTheorems, TLAPS

USE PoolAssumption

-----------------------------------------------------------------------------
(* The slots.                                                               *)

LEMMA CallingIsFinite == IsFiniteSet(Calling) /\ Cardinality(Calling) \in Nat
<1>1. IsFiniteSet(Jobs)
  BY FS_Product DEF PoolAssumption, Jobs
<1>2. IsFiniteSet(Calling)
  BY <1>1, FS_Subset DEF Calling
<1> QED
  BY <1>2, FS_CardinalityType

\* A goroutine that gets a slot starts calling, and no other one does.
LEMMA StartsCalling ==
    ASSUME NEW j \in Jobs, j \notin Calling, Calling' = Calling \cup {j}
    PROVE  Cardinality(Calling)' = Cardinality(Calling) + 1
BY CallingIsFinite, FS_AddElement

LEMMA StopsCalling ==
    ASSUME NEW j \in Jobs, j \in Calling, Calling' = Calling \ {j}
    PROVE  Cardinality(Calling)' = Cardinality(Calling) - 1 /\ Cardinality(Calling) > 0
<1>1. Cardinality(Calling)' = Cardinality(Calling) - 1
  BY CallingIsFinite, FS_RemoveElement
<1>2. Cardinality(Calling) # 0
  BY CallingIsFinite, FS_EmptySet
<1> QED
  BY <1>1, <1>2, CallingIsFinite

\* Steps that change one goroutine.
LEMMA OneJobMoves ==
    ASSUME TypeOK, NEW j \in Jobs, NEW x \in Job, job' = [job EXCEPT ![j] = x]
    PROVE  /\ job' \in [Jobs -> Job]
           /\ job'[j] = x
           /\ \A i \in Jobs \ {j} : job'[i] = job[i]
BY DEF TypeOK

LEMMA GotEffect ==
    ASSUME TypeOK, NEW j \in Jobs, NEW o, Got(j, o),
           o \in IF Call(j) = "range" THEN Ranges \ {"none"} ELSE Instants \ {"none"}
    PROVE  /\ job' \in [Jobs -> Job]
           /\ \A i \in Jobs \ {j} : job'[i] = job[i]
           /\ job'[j] = IF Call(j) = "range"
                          THEN [at |-> "queued", range |-> o, instant |-> job[j].instant]
                          ELSE [at |-> "fetched", range |-> job[j].range, instant |-> o]
           /\ job'[j].at \in {"queued", "fetched"}
<1> DEFINE x == IF Call(j) = "range"
                  THEN [at |-> "queued", range |-> o, instant |-> job[j].instant]
                  ELSE [at |-> "fetched", range |-> job[j].range, instant |-> o]
<1>1. job[j] \in Job
  BY DEF TypeOK
<1>2. x \in Job /\ x.at \in {"queued", "fetched"}
  BY <1>1 DEF Job
<1>3. job' = [job EXCEPT ![j] = x]
  BY DEF Got, TypeOK
<1> HIDE DEF x
<1>4. job' \in [Jobs -> Job] /\ job'[j] = x /\ \A i \in Jobs \ {j} : job'[i] = job[i]
  BY <1>2, <1>3, OneJobMoves
<1> QED
  BY <1>2, <1>4 DEF x

\* What a call may give is an outcome of that call.
LEMMA OutcomesAreTyped ==
    ASSUME NEW j \in Jobs, NEW o \in CallOutcomes(j) \cup {"cancelled"}
    PROVE  o \in IF Call(j) = "range" THEN Ranges \ {"none"} ELSE Instants \ {"none"}
BY DEF CallOutcomes, Ranges, Instants, Failures

-----------------------------------------------------------------------------
(* Types.                                                                   *)

LEMMA TypeInit == Init => TypeOK
BY DEF Init, TypeOK, Idle, Job, Missing, Outcome, Ranges, Instants, PoolAssumption

LEMMA TypeStep == TypeOK /\ SlotsAccountedFor /\ [Next]_vars => TypeOK'
<1> SUFFICES ASSUME TypeOK, SlotsAccountedFor, [Next]_vars PROVE TypeOK'
  OBVIOUS
<1>1. ASSUME NEW e \in Evaluations, Begin(e) PROVE TypeOK'
  <2>1. Queued \in Job /\ Missing \in Outcome
    BY DEF Queued, Idle, Job, Missing, Outcome, Ranges, Instants
  <2>2. job' \in [Jobs -> Job] /\ results' \in [Jobs -> Outcome]
    BY <1>1, <2>1 DEF Begin, TypeOK
  <2> QED
    BY <1>1, <2>2 DEF Begin, TypeOK
<1>2. ASSUME NEW e \in Evaluations, Cancel(e) PROVE TypeOK'
  BY <1>2 DEF Cancel, TypeOK
<1>3. ASSUME NEW e \in Evaluations, Finish(e) PROVE TypeOK'
  BY <1>3 DEF Finish, TypeOK
<1>4. ASSUME NEW j \in Jobs, Acquire(j) PROVE TypeOK'
  <2>1. [job[j] EXCEPT !.at = "calling"] \in Job
    BY DEF TypeOK, Job
  <2>2. job' \in [Jobs -> Job]
    BY <1>4, <2>1, OneJobMoves DEF Acquire
  <2>3. sem' \in 0..MaxConcurrent
    BY <1>4 DEF Acquire, FreeSlot, TypeOK, PoolAssumption
  <2> QED
    BY <1>4, <2>2, <2>3 DEF Acquire, TypeOK
<1>5. ASSUME NEW j \in Jobs, GiveUp(j) PROVE TypeOK'
  <2>1. job' \in [Jobs -> Job]
    BY <1>5, GotEffect, OutcomesAreTyped DEF GiveUp
  <2> QED
    BY <1>5, <2>1 DEF GiveUp, TypeOK
<1>6. ASSUME NEW j \in Jobs, CallReturns(j) PROVE TypeOK'
  <2>1. job' \in [Jobs -> Job]
    BY <1>6, GotEffect, OutcomesAreTyped DEF CallReturns
  <2>2. sem > 0
    <3>1. Calling # {}
      BY <1>6 DEF CallReturns, Calling
    <3> QED
      BY <3>1, CallingIsFinite, FS_EmptySet DEF SlotsAccountedFor
  <2>3. sem' \in 0..MaxConcurrent
    BY <1>6, <2>2 DEF CallReturns, Released, TypeOK, PoolAssumption
  <2> QED
    BY <1>6, <2>1, <2>3 DEF CallReturns, TypeOK
<1>7. ASSUME NEW j \in Jobs, Store(j) PROVE TypeOK'
  <2>1. [job[j] EXCEPT !.at = "stored"] \in Job /\ job[j] \in Job
    BY DEF TypeOK, Job
  <2>2. job' \in [Jobs -> Job]
    BY <1>7, <2>1, OneJobMoves DEF Store
  <2>3. Merged(job[j].range, job[j].instant) \in Outcome
    BY <2>1 DEF Merged, Outcome, Job
  <2> QED
    BY <1>7, <2>2, <2>3 DEF Store, TypeOK
<1>8. CASE UNCHANGED vars
  BY <1>8 DEF vars, TypeOK
<1> QED
  BY <1>1, <1>2, <1>3, <1>4, <1>5, <1>6, <1>7, <1>8 DEF Next, Proceed

-----------------------------------------------------------------------------
(* The semaphore counts the calls.                                          *)

LEMMA SlotsInit == Init => SlotsAccountedFor
<1> SUFFICES ASSUME Init PROVE SlotsAccountedFor
  OBVIOUS
<1>1. Calling = {}
  BY DEF Init, Idle, Calling
<1> QED
  BY <1>1, FS_EmptySet DEF Init, SlotsAccountedFor, PoolAssumption

LEMMA SlotsStep == TypeOK /\ StagesInv /\ SlotsAccountedFor /\ [Next]_vars => SlotsAccountedFor'
<1> SUFFICES ASSUME TypeOK, StagesInv, SlotsAccountedFor, [Next]_vars PROVE SlotsAccountedFor'
  OBVIOUS
<1>t. sem \in Nat /\ MaxConcurrent \in Nat
  BY DEF TypeOK, PoolAssumption
<1>1. ASSUME NEW e \in Evaluations, Begin(e) PROVE SlotsAccountedFor'
  <2>1. \A j \in JobsOf(e) : j \in Jobs /\ job[j].at # "calling"
    BY <1>1 DEF Begin, StagesInv, Stage, TypeOK, JobsOf, Jobs
  <2>2. Calling' = Calling
    BY <1>1, <2>1 DEF Begin, Calling, Queued, Idle
  <2> QED
    BY <1>1, <2>2 DEF Begin, SlotsAccountedFor
<1>2. ASSUME NEW e \in Evaluations, Cancel(e) \/ Finish(e) PROVE SlotsAccountedFor'
  BY <1>2 DEF Cancel, Finish, SlotsAccountedFor, Calling
<1>3. ASSUME NEW j \in Jobs, Acquire(j) PROVE SlotsAccountedFor'
  <2>1. [job[j] EXCEPT !.at = "calling"] \in Job /\ [job[j] EXCEPT !.at = "calling"].at = "calling"
    BY DEF TypeOK, Job
  <2>2. j \notin Calling /\ Calling' = Calling \cup {j}
    BY <1>3, <2>1, OneJobMoves DEF Acquire, Calling
  <2> QED
    BY <1>3, <1>t, <2>2, StartsCalling DEF Acquire, FreeSlot, SlotsAccountedFor
<1>4. ASSUME NEW j \in Jobs, GiveUp(j) PROVE SlotsAccountedFor'
  <2>1. /\ job'[j].at # "calling"
        /\ \A i \in Jobs \ {j} : job'[i] = job[i]
    BY <1>4, GotEffect, OutcomesAreTyped DEF GiveUp
  <2>2. Calling' = Calling
    BY <1>4, <2>1 DEF GiveUp, Calling
  <2> QED
    BY <1>4, <2>2 DEF GiveUp, SlotsAccountedFor
<1>5. ASSUME NEW j \in Jobs, CallReturns(j) PROVE SlotsAccountedFor'
  <2>1. /\ job'[j].at # "calling"
        /\ \A i \in Jobs \ {j} : job'[i] = job[i]
    BY <1>5, GotEffect, OutcomesAreTyped DEF CallReturns
  <2>2. j \in Calling /\ Calling' = Calling \ {j}
    BY <1>5, <2>1 DEF CallReturns, Calling
  <2> QED
    BY <1>5, <1>t, <2>2, StopsCalling DEF CallReturns, Released, SlotsAccountedFor
<1>6. ASSUME NEW j \in Jobs, Store(j) PROVE SlotsAccountedFor'
  <2>1. [job[j] EXCEPT !.at = "stored"] \in Job /\ [job[j] EXCEPT !.at = "stored"].at = "stored"
    BY DEF TypeOK, Job
  <2>2. Calling' = Calling
    BY <1>6, <2>1, OneJobMoves DEF Store, Calling
  <2> QED
    BY <1>6, <2>2 DEF Store, SlotsAccountedFor
<1>7. CASE UNCHANGED vars
  BY <1>7 DEF vars, SlotsAccountedFor, Calling
<1> QED
  BY <1>1, <1>2, <1>3, <1>4, <1>5, <1>6, <1>7 DEF Next, Proceed

-----------------------------------------------------------------------------
(* The goroutines.                                                          *)

LEMMA JobsOfAreJobs ==
    ASSUME NEW e \in Evaluations
    PROVE  /\ JobsOf(e) \subseteq Jobs
           /\ \A j \in Jobs : j[1] \in Evaluations /\ (j \in JobsOf(e) <=> j[1] = e)
           /\ JobsOf(e) # {}
<1>1. JobsOf(e) \subseteq Jobs /\ \A j \in Jobs : j[1] \in Evaluations /\ (j \in JobsOf(e) <=> j[1] = e)
  BY DEF JobsOf, Jobs
<1>2. PICK q \in Queries : TRUE
  BY DEF PoolAssumption
<1>3. <<e, q>> \in JobsOf(e)
  BY <1>2 DEF JobsOf
<1> QED
  BY <1>1, <1>3

LEMMA ActiveIsRunning ==
    ASSUME StagesInv, NEW j \in Jobs, job[j].at \in {"queued", "calling", "fetched"}
    PROVE  verdict[j[1]] = "running" /\ querier # "nil"
<1>1. j[1] \in Evaluations /\ j \in JobsOf(j[1])
  BY DEF Jobs, JobsOf
<1>2. Stage(j[1])
  BY <1>1 DEF StagesInv
<1> QED
  BY <1>1, <1>2 DEF Stage

LEMMA JobKept ==
    ASSUME NEW i \in Jobs, Progress(i), Origin(i), job'[i] = job[i], results'[i] = results[i],
           querier' = querier, ctxDone[i[1]] => ctxDone'[i[1]]
    PROVE  Progress(i)' /\ Origin(i)'
BY DEF Progress, Origin

LEMMA GotKeepsJobs ==
    ASSUME TypeOK, JobsInv, StagesInv, NEW j \in Jobs, job[j].at \in {"queued", "calling"},
           NEW o, o \in CallOutcomes(j) \/ (o = "cancelled" /\ ctxDone[j[1]]),
           Got(j, o), UNCHANGED <<querier, ctxDone, results>>
    PROVE  JobsInv'
<1>1. /\ \A i \in Jobs \ {j} : job'[i] = job[i]
      /\ job'[j] = IF Call(j) = "range"
                     THEN [at |-> "queued", range |-> o, instant |-> job[j].instant]
                     ELSE [at |-> "fetched", range |-> job[j].range, instant |-> o]
      /\ o # "none"
  BY GotEffect, OutcomesAreTyped
<1>2. \A i \in Jobs \ {j} : Progress(i)' /\ Origin(i)'
  BY <1>1, JobKept DEF JobsInv
<1>3. Progress(j) /\ Origin(j)
  BY DEF JobsInv
<1>4. /\ o = "cancelled" => ctxDone[j[1]]
      /\ querier = "configured" => o # "not_configured"
      /\ querier # "configured" => o \in {"cancelled", "not_configured"}
  BY ActiveIsRunning DEF CallOutcomes, TypeOK, PoolAssumption
<1>5. Progress(j)'
  <2>1. results'[j] = Missing /\ job[j].instant = "none"
    BY <1>3 DEF Progress
  <2>2. CASE Call(j) = "range"
    BY <1>1, <2>1, <2>2 DEF Progress
  <2>3. CASE Call(j) # "range"
    BY <1>1, <2>1, <2>3 DEF Progress, Call
  <2> QED
    BY <2>2, <2>3
<1>6. Origin(j)'
  <2>1. CASE Call(j) = "range"
    BY <1>1, <1>3, <1>4, <2>1 DEF Origin
  <2>2. CASE Call(j) # "range"
    BY <1>1, <1>3, <1>4, <2>2 DEF Origin
  <2> QED
    BY <2>1, <2>2
<1> QED
  BY <1>2, <1>5, <1>6 DEF JobsInv

LEMMA JobsStep == TypeOK /\ JobsInv /\ StagesInv /\ [Next]_vars => JobsInv'
<1> SUFFICES ASSUME TypeOK, JobsInv, StagesInv, [Next]_vars PROVE JobsInv'
  OBVIOUS
<1>1. ASSUME NEW e \in Evaluations, Begin(e) PROVE JobsInv'
  <2> SUFFICES ASSUME NEW i \in Jobs PROVE Progress(i)' /\ Origin(i)'
    BY DEF JobsInv
  <2>0. Progress(i) /\ Origin(i) /\ querier' = querier /\ results'[i] \in {Missing, results[i]}
    BY <1>1 DEF JobsInv, Begin
  <2>1. CASE i \notin JobsOf(e)
    <3>1. job'[i] = job[i] /\ results'[i] = results[i]
      BY <1>1, <2>1 DEF Begin
    <3>2. ctxDone'[i[1]] = ctxDone[i[1]]
      BY <1>1, <2>1, JobsOfAreJobs DEF Begin, TypeOK
    <3> QED
      BY <2>0, <3>1, <3>2, JobKept
  <2>2. CASE i \in JobsOf(e) /\ querier = "nil"
    <3>1. job[i].at = "off" /\ job'[i] = job[i] /\ results'[i] = Missing
      BY <1>1, <2>2 DEF Begin, StagesInv, Stage
    <3>2. job[i].range = "none" /\ job[i].instant = "none"
      BY <2>0, <3>1 DEF Progress
    <3> QED
      BY <2>0, <3>1, <3>2 DEF Progress, Origin
  <2>3. CASE i \in JobsOf(e) /\ querier # "nil"
    <3>1. job'[i] = [at |-> "queued", range |-> "none", instant |-> "none"] /\ results'[i] = Missing
      BY <1>1, <2>3 DEF Begin, Queued, Idle
    <3> QED
      BY <2>0, <3>1 DEF Progress, Origin
  <2> QED
    BY <2>1, <2>2, <2>3
<1>2. ASSUME NEW e \in Evaluations, Cancel(e) PROVE JobsInv'
  <2>1. \A i \in Jobs : ctxDone[i[1]] => ctxDone'[i[1]]
    BY <1>2 DEF Cancel, TypeOK, Jobs
  <2> QED
    BY <1>2, <2>1, JobKept DEF Cancel, JobsInv
<1>3. ASSUME NEW e \in Evaluations, Finish(e) PROVE JobsInv'
  BY <1>3, JobKept DEF Finish, JobsInv
<1>4. ASSUME NEW j \in Jobs, Acquire(j) PROVE JobsInv'
  <2>1. /\ job'[j] = [job[j] EXCEPT !.at = "calling"]
        /\ \A i \in Jobs \ {j} : job'[i] = job[i]
        /\ job[j] \in Job
        /\ job[j].at = "queued" /\ UNCHANGED <<querier, ctxDone, results>>
    BY <1>4 DEF Acquire, TypeOK
  <2>2. Progress(j) /\ Origin(j)
    BY DEF JobsInv
  <2>3. job'[j].at = "calling" /\ job'[j].range = job[j].range /\ job'[j].instant = job[j].instant
    BY <2>1 DEF Job
  <2>4. Progress(j)' /\ Origin(j)'
    BY <2>1, <2>2, <2>3 DEF Progress, Origin
  <2> QED
    BY <2>1, <2>4, JobKept DEF JobsInv
<1>5. ASSUME NEW j \in Jobs, GiveUp(j) PROVE JobsInv'
  BY <1>5, GotKeepsJobs DEF GiveUp
<1>6. ASSUME NEW j \in Jobs, CallReturns(j) PROVE JobsInv'
  BY <1>6, GotKeepsJobs DEF CallReturns
<1>7. ASSUME NEW j \in Jobs, Store(j) PROVE JobsInv'
  <2>1. /\ job'[j] = [job[j] EXCEPT !.at = "stored"]
        /\ \A i \in Jobs \ {j} : job'[i] = job[i] /\ results'[i] = results[i]
        /\ job[j] \in Job
        /\ job[j].at = "fetched" /\ UNCHANGED <<querier, ctxDone>>
        /\ results'[j] = Merged(job[j].range, job[j].instant)
    BY <1>7 DEF Store, TypeOK
  <2>2. Progress(j) /\ Origin(j)
    BY DEF JobsInv
  <2>3. job'[j].at = "stored" /\ job'[j].range = job[j].range /\ job'[j].instant = job[j].instant
    BY <2>1 DEF Job
  <2>4. Progress(j)' /\ Origin(j)'
    BY <2>1, <2>2, <2>3 DEF Progress, Origin
  <2> QED
    BY <2>1, <2>4, JobKept DEF JobsInv
<1>8. CASE UNCHANGED vars
  BY <1>8, JobKept DEF vars, JobsInv
<1> QED
  BY <1>1, <1>2, <1>3, <1>4, <1>5, <1>6, <1>7, <1>8 DEF Next, Proceed

-----------------------------------------------------------------------------
(* The evaluations.                                                         *)

\* A goroutine of a running evaluation moves, and stays started.
LEMMA MoveKeepsStages ==
    ASSUME StagesInv, NEW j \in Jobs, job[j].at \in {"queued", "calling", "fetched"},
           job'[j].at # "off", \A i \in Jobs \ {j} : job'[i] = job[i],
           UNCHANGED <<querier, context, ctxDone, verdict>>
    PROVE  StagesInv'
<1> SUFFICES ASSUME NEW e \in Evaluations PROVE Stage(e)'
  BY DEF StagesInv
<1>1. Stage(e) /\ JobsOf(e) \subseteq Jobs
  BY JobsOfAreJobs DEF StagesInv
<1>2. CASE j \notin JobsOf(e)
  BY <1>1, <1>2 DEF Stage, JobsOf
<1>3. CASE j \in JobsOf(e)
  <2>1. verdict[e] = "running" /\ querier # "nil"
    BY <1>3, ActiveIsRunning, JobsOfAreJobs
  <2> QED
    BY <1>1, <1>3, <2>1 DEF Stage, JobsOf
<1> QED
  BY <1>2, <1>3

LEMMA StagesStep == TypeOK /\ StagesInv /\ [Next]_vars => StagesInv'
<1> SUFFICES ASSUME TypeOK, StagesInv, [Next]_vars PROVE StagesInv'
  OBVIOUS
<1>1. ASSUME NEW d \in Evaluations, Begin(d) PROVE StagesInv'
  <2> SUFFICES ASSUME NEW e \in Evaluations PROVE Stage(e)'
    BY DEF StagesInv
  <2>1. Stage(e) /\ JobsOf(e) \subseteq Jobs /\ \A j \in JobsOf(e) : j[1] = e
    BY JobsOfAreJobs DEF StagesInv
  <2>2. CASE e # d
    <3>1. verdict'[e] = verdict[e] /\ ctxDone'[e] = ctxDone[e]
      BY <1>1, <2>2 DEF Begin, TypeOK
    <3>2. \A j \in JobsOf(e) : job'[j] = job[j]
      BY <1>1, <2>1, <2>2, JobsOfAreJobs DEF Begin
    <3> QED
      BY <1>1, <2>1, <3>1, <3>2 DEF Begin, Stage, JobsOf
  <2>3. CASE e = d /\ querier = "nil"
    <3>1. verdict'[e] = "not_configured" /\ ~ctxDone'[e] /\ job' = job
      BY <1>1, <2>3 DEF Begin, TypeOK
    <3> QED
      BY <1>1, <2>1, <2>3, <3>1 DEF Begin, Stage, JobsOf
  <2>4. CASE e = d /\ querier # "nil"
    <3>1. verdict'[e] = "running" /\ ~ctxDone'[e] /\ \A j \in JobsOf(e) : job'[j] = Queued
      BY <1>1, <2>1, <2>4 DEF Begin, TypeOK
    <3> QED
      BY <1>1, <2>4, <3>1 DEF Begin, Stage, JobsOf, Queued, Idle
  <2> QED
    BY <2>2, <2>3, <2>4
<1>2. ASSUME NEW d \in Evaluations, Cancel(d) PROVE StagesInv'
  <2> SUFFICES ASSUME NEW e \in Evaluations PROVE Stage(e)'
    BY DEF StagesInv
  <2> QED
    BY <1>2 DEF Cancel, NoticesDisconnect, TypeOK, StagesInv, Stage, JobsOf
<1>3. ASSUME NEW d \in Evaluations, Finish(d) PROVE StagesInv'
  <2> SUFFICES ASSUME NEW e \in Evaluations PROVE Stage(e)'
    BY DEF StagesInv
  <2>1. Stage(e)
    BY DEF StagesInv
  <2>2. CASE e # d
    <3>1. verdict'[e] = verdict[e]
      BY <1>3, <2>2 DEF Finish, TypeOK
    <3> QED
      BY <1>3, <2>1, <3>1 DEF Finish, Stage, JobsOf
  <2>3. CASE e = d
    <3>1. verdict'[e] \in {"report", "not_configured"} /\ querier # "nil"
      BY <1>3, <2>1, <2>3 DEF Finish, Stage, TypeOK
    <3> QED
      BY <1>3, <2>1, <2>3, <3>1 DEF Finish, AllStored, Stage, JobsOf
  <2> QED
    BY <2>2, <2>3
<1>4. ASSUME NEW j \in Jobs, Acquire(j) PROVE StagesInv'
  <2>1. job'[j].at = "calling" /\ \A i \in Jobs \ {j} : job'[i] = job[i]
    BY <1>4 DEF Acquire, TypeOK, Job
  <2> QED
    BY <1>4, <2>1, MoveKeepsStages DEF Acquire
<1>5. ASSUME NEW j \in Jobs, GiveUp(j) PROVE StagesInv'
  <2>1. job'[j].at # "off" /\ \A i \in Jobs \ {j} : job'[i] = job[i]
    BY <1>5, GotEffect, OutcomesAreTyped DEF GiveUp
  <2> QED
    BY <1>5, <2>1, MoveKeepsStages DEF GiveUp
<1>6. ASSUME NEW j \in Jobs, CallReturns(j) PROVE StagesInv'
  <2>1. job'[j].at # "off" /\ \A i \in Jobs \ {j} : job'[i] = job[i]
    BY <1>6, GotEffect, OutcomesAreTyped DEF CallReturns
  <2> QED
    BY <1>6, <2>1, MoveKeepsStages DEF CallReturns
<1>7. ASSUME NEW j \in Jobs, Store(j) PROVE StagesInv'
  <2>1. job'[j].at = "stored" /\ \A i \in Jobs \ {j} : job'[i] = job[i]
    BY <1>7 DEF Store, TypeOK, Job
  <2> QED
    BY <1>7, <2>1, MoveKeepsStages DEF Store
<1>8. CASE UNCHANGED vars
  BY <1>8 DEF vars, StagesInv, Stage, JobsOf
<1> QED
  BY <1>1, <1>2, <1>3, <1>4, <1>5, <1>6, <1>7, <1>8 DEF Next, Proceed

\* A stored "not_configured" comes from a call, so from a client without a URL.
LEMMA NotConfiguredIsNoClient ==
    ASSUME JobsInv, NEW e \in Evaluations, SomeNotConfigured(e)
    PROVE  querier # "configured"
<1>1. PICK j \in Jobs : results[j].err = "not_configured"
  BY JobsOfAreJobs DEF SomeNotConfigured
<1>2. Progress(j) /\ Origin(j)
  BY DEF JobsInv
<1>3. results[j] = Merged(job[j].range, job[j].instant)
  BY <1>1, <1>2 DEF Progress, Missing
<1>4. "not_configured" \in {job[j].range, job[j].instant}
  BY <1>1, <1>3 DEF Merged
<1> QED
  BY <1>2, <1>4 DEF Origin

LEMMA VerdictsStep == TypeOK /\ JobsInv /\ StagesInv /\ VerdictsInv /\ [Next]_vars => VerdictsInv'
<1> SUFFICES ASSUME TypeOK, JobsInv, StagesInv, VerdictsInv, [Next]_vars,
                    NEW e \in Evaluations
             PROVE  Verdict(e)'
  BY DEF VerdictsInv
<1>v. Verdict(e) /\ querier' = querier
  BY DEF VerdictsInv, Next, vars, Begin, Cancel, Finish, Acquire, GiveUp, Proceed, CallReturns, Store
\* Results other than those of e do not matter, nor those of e before it returns.
<1>k. ASSUME verdict'[e] = verdict[e], verdict[e] = "running" \/ \A j \in JobsOf(e) : results'[j] = results[j]
      PROVE  Verdict(e)'
  BY <1>v, <1>k DEF Verdict, SomeNotConfigured, JobsOf
<1>1. ASSUME NEW d \in Evaluations, Begin(d) PROVE Verdict(e)'
  <2>1. CASE e # d
    <3>1. verdict'[e] = verdict[e]
      BY <1>1, <2>1 DEF Begin, TypeOK
    <3>2. \A j \in JobsOf(e) : results'[j] = results[j]
      BY <1>1, <2>1, JobsOfAreJobs DEF Begin
    <3> QED
      BY <1>k, <3>1, <3>2
  <2>2. CASE e = d
    <3>1. \/ verdict'[e] = "not_configured" /\ querier = "nil"
          \/ verdict'[e] = "running"
      BY <1>1, <2>2 DEF Begin, TypeOK
    <3> QED
      BY <1>v, <3>1 DEF Verdict
  <2> QED
    BY <2>1, <2>2
<1>2. ASSUME NEW d \in Evaluations, Finish(d) PROVE Verdict(e)'
  <2>1. results' = results
    BY <1>2 DEF Finish
  <2>2. CASE e # d
    <3>1. verdict'[e] = verdict[e]
      BY <1>2, <2>2 DEF Finish, TypeOK
    <3> QED
      BY <1>k, <2>1, <3>1
  <2>3. CASE e = d
    <3>1. verdict'[e] = IF SomeNotConfigured(e) THEN "not_configured" ELSE "report"
      BY <1>2, <2>3 DEF Finish, TypeOK
    <3> QED
      BY <1>v, <2>1, <3>1, NotConfiguredIsNoClient DEF Verdict, SomeNotConfigured, JobsOf
  <2> QED
    BY <2>2, <2>3
<1>3. ASSUME NEW j \in Jobs, Store(j) PROVE Verdict(e)'
  <2>1. verdict' = verdict /\ \A i \in Jobs \ {j} : results'[i] = results[i]
    BY <1>3 DEF Store, TypeOK
  <2>2. verdict[j[1]] = "running"
    BY <1>3, ActiveIsRunning DEF Store
  <2> QED
    BY <1>k, <2>1, <2>2, JobsOfAreJobs
<1>4. ASSUME UNCHANGED <<results, verdict>> PROVE Verdict(e)'
  BY <1>4, <1>k
<1> QED
  BY <1>1, <1>2, <1>3, <1>4 DEF Next, Proceed, Cancel, Acquire, GiveUp, CallReturns, vars

-----------------------------------------------------------------------------
(* The theorems.                                                            *)

\* The types, the count of the slots, the goroutines, the stages and the
\* verdicts together are preserved by every step of every evaluation.
THEOREM PoolInductive == Spec => []PoolInv
<1>1. Init => PoolInv
  <2> SUFFICES ASSUME Init PROVE PoolInv
    OBVIOUS
  <2>1. JobsInv
    BY DEF Init, JobsInv, Progress, Origin, Idle, Missing
  <2>2. StagesInv /\ VerdictsInv
    BY JobsOfAreJobs DEF Init, StagesInv, Stage, VerdictsInv, Verdict, Idle
  <2> QED
    BY <2>1, <2>2, TypeInit, SlotsInit DEF PoolInv
<1>2. PoolInv /\ [Next]_vars => PoolInv'
  BY TypeStep, SlotsStep, JobsStep, StagesStep, VerdictsStep DEF PoolInv
<1> QED
  BY <1>1, <1>2, PTL DEF Spec

\* Every slot in use is held by a call in progress and the calls never exceed
\* the limit, on every error and cancellation path (service.go:361-379).
THEOREM SlotsNeverLeak == Spec => []SlotsAccountedFor
<1>1. PoolInv => SlotsAccountedFor
  BY DEF PoolInv
<1> QED
  BY <1>1, PoolInductive, PTL

\* An evaluation that has returned has no goroutine left (service.go:303-325).
THEOREM ReportsAreComplete == Spec => []ReportWaitsForAll
<1>1. PoolInv => ReportWaitsForAll
  <2> SUFFICES ASSUME PoolInv, NEW e \in Evaluations, verdict[e] \in {"report", "not_configured"},
                      querier # "nil"
               PROVE  \A j \in JobsOf(e) : job[j].at \in {"off", "stored"}
    BY DEF ReportWaitsForAll
  <2>1. Stage(e)
    BY DEF PoolInv, StagesInv
  <2> QED
    BY <2>1 DEF Stage
<1> QED
  BY <1>1, PoolInductive, PTL

\* A query of a report is errored exactly when one of its calls failed, with the
\* range call's error first, and valued exactly when the instant call gave a
\* value (service.go:311-323).
THEOREM ErrorsSurvive == Spec => []ErrorsAreKept
<1>1. PoolInv => ErrorsAreKept
  <2> SUFFICES ASSUME PoolInv, NEW e \in Evaluations, verdict[e] = "report", NEW j \in JobsOf(e)
               PROVE  /\ job[j].range # "none" /\ job[j].instant # "none"
                      /\ results[j] = Merged(job[j].range, job[j].instant)
    <3>1. \A r, i : Merged(r, i).valued <=> i = "value"
      BY DEF Merged
    <3>2. \A r, i : /\ Merged(r, i).err # "none" <=> r \in Failures \/ i \in Failures
                    /\ r \in Failures => Merged(r, i).err = r
      BY DEF Merged, Failures
    <3> QED
      BY <3>1, <3>2 DEF ErrorsAreKept
  <2>1. Stage(e) /\ Progress(j)
    BY JobsOfAreJobs DEF PoolInv, StagesInv, JobsInv
  <2>2. job[j].at = "stored"
    BY <2>1 DEF Stage
  <2> QED
    BY <2>1, <2>2 DEF Progress
<1> QED
  BY <1>1, PoolInductive, PTL

\* An evaluation without a usable Prometheus ends with ErrPrometheusNotConfigured
\* unless it was cancelled, and no other one does (service.go:295-297, 327-331).
THEOREM NotConfiguredIsAnError == Spec => []NotConfiguredIsNeverAReport
<1>1. PoolInv => NotConfiguredIsNeverAReport
  <2> SUFFICES ASSUME PoolInv, NEW e \in Evaluations, verdict[e] = "report", querier # "configured"
               PROVE  ctxDone[e]
    BY DEF NotConfiguredIsNeverAReport, PoolInv, VerdictsInv, Verdict, SomeNotConfigured
  <2>1. PICK j \in Jobs : j \in JobsOf(e) /\ j[1] = e
    BY JobsOfAreJobs
  <2>2. Stage(e) /\ Verdict(e) /\ Progress(j) /\ Origin(j)
    BY <2>1 DEF PoolInv, StagesInv, VerdictsInv, JobsInv
  <2>3. job[j].range # "none" /\ results[j] = Merged(job[j].range, job[j].instant)
    BY <2>1, <2>2 DEF Stage, Progress
  <2>4. results[j].err # "not_configured"
    BY <2>1, <2>2 DEF Verdict, SomeNotConfigured
  <2>5. job[j].range # "not_configured"
    BY <2>3, <2>4 DEF Merged, Failures
  <2> QED
    BY <2>1, <2>2, <2>3, <2>5 DEF Origin
<1> QED
  BY <1>1, PoolInductive, PTL

\* Nothing cuts an evaluation under the cache short (cache.go:76-79).
THEOREM DetachedRunsToTheEnd == Spec => []DetachedIsNeverCancelled
<1>1. PoolInv => DetachedIsNeverCancelled
  <2> SUFFICES ASSUME PoolInv, NEW j \in Jobs, context = "detached"
               PROVE  /\ results[j].err # "cancelled"
                      /\ job[j].range # "cancelled" /\ job[j].instant # "cancelled"
    BY DEF DetachedIsNeverCancelled
  <2>1. Progress(j) /\ Origin(j) /\ Stage(j[1])
    BY DEF PoolInv, JobsInv, StagesInv, Jobs
  <2>2. job[j].range # "cancelled" /\ job[j].instant # "cancelled"
    BY <2>1 DEF Origin, Stage
  <2> QED
    BY <2>1, <2>2 DEF Progress, Merged, Missing
<1> QED
  BY <1>1, PoolInductive, PTL

\* Behind EveryEvaluationReturns: an evaluation is over, or a goroutine of its own can go
\* on, or one waits for slots that are all held by calls in progress (service.go:361-379).
EvaluationsGoOn ==
    \A e \in Evaluations : verdict[e] = "running" =>
      \/ AllStored(e)
      \/ \E j \in JobsOf(e) :
           \/ job[j].at \in {"calling", "fetched"}
           \/ job[j].at = "queued" /\ (FreeSlot \/ Calling # {})

\* No goroutine holds a slot while it waits for another, so however many evaluations
\* share the slots, they never wait for one another in a circle.
THEOREM NoCircularWait == Spec => []EvaluationsGoOn
<1>1. PoolInv => EvaluationsGoOn
  <2> SUFFICES ASSUME PoolInv, NEW e \in Evaluations, verdict[e] = "running", ~AllStored(e)
               PROVE  \E j \in JobsOf(e) :
                        \/ job[j].at \in {"calling", "fetched"}
                        \/ job[j].at = "queued" /\ (FreeSlot \/ Calling # {})
    BY DEF EvaluationsGoOn
  <2>1. PICK j \in JobsOf(e) : job[j].at # "stored"
    BY DEF AllStored
  <2>2. j \in Jobs
    BY <2>1 DEF JobsOf, Jobs
  <2>3. job[j].at # "off"
    <3>1. querier # "nil"
      BY DEF PoolInv, StagesInv, Stage
    <3> QED
      BY <2>1, <3>1 DEF PoolInv, StagesInv, Stage
  <2>4. job[j].at \in {"queued", "calling", "fetched"}
    BY <2>1, <2>2, <2>3 DEF PoolInv, TypeOK, Job
  <2>5. FreeSlot \/ Calling # {}
    <3>1. sem \in 0..MaxConcurrent /\ sem = Cardinality(Calling) /\ MaxConcurrent \in Nat \ {0}
      BY PoolAssumption DEF PoolInv, TypeOK, SlotsAccountedFor, PoolAssumption
    <3>2. Calling = {} => sem = 0
      BY <3>1, FS_EmptySet
    <3> QED
      BY <3>1, <3>2 DEF FreeSlot
  <2> QED
    BY <2>4, <2>5
<1> QED
  BY <1>1, PoolInductive, PTL
=============================================================================
