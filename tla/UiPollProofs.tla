---------------------------- MODULE UiPollProofs ----------------------------
(* Proofs about UiPoll: what a page shows, for all selections and intervals. *)
EXTENDS UiPoll, TLAPS

\* The initial page.
LEMMA InitOK == Init => IInv
  BY UiAssumption DEF Init, IInv, TypeOK, Spaced, Recent, RunsCounted, Fetch

\* Every task of the browser keeps the types.
LEMMA TypePreserved == TypeOK /\ [Next]_vars => TypeOK'
<1> SUFFICES ASSUME TypeOK, [Next]_vars PROVE TypeOK'
  OBVIOUS
<1> USE UiAssumption DEF TypeOK, Fetch
<1>1. ASSUME NEW u \in Selections, Select(u) PROVE TypeOK'
  BY <1>1 DEF Select, page
<1>2. ASSUME NEW u \in Selections, Mount(u) PROVE TypeOK'
  BY <1>2 DEF Mount, Fresh
<1>3. CASE Unmount
  BY <1>3 DEF Unmount, page
<1>4. CASE TimePasses
  BY <1>4 DEF TimePasses, page
<1>5. CASE RunEffect
  <2>1. FetchOf(effect.run + 1) \in Fetch
    BY DEF FetchOf
  <2>2. effect' \in [run: Nat, alive: BOOLEAN, url: Selections, due: Nat]
    BY <1>5 DEF RunEffect
  <2>3. flying' \subseteq Fetch
    BY <1>5, <2>1 DEF RunEffect
  <2> QED
    BY <1>5, <2>2, <2>3 DEF RunEffect, page
<1>6. CASE TimerTick
  BY <1>6 DEF TimerTick, FetchOf, page
<1>7. ASSUME NEW f \in flying, Settle(f) PROVE TypeOK'
  BY <1>7 DEF Settle, Answer, Failure, page
<1>8. CASE UNCHANGED vars
  BY <1>8 DEF vars, page
<1> QED
  BY <1>1, <1>2, <1>3, <1>4, <1>5, <1>6, <1>7, <1>8 DEF Next

\* Only a run of the effect counts runs; its number is new.
LEMMA RunsPreserved == IInv /\ [Next]_vars => RunsCounted'
<1> SUFFICES ASSUME IInv, [Next]_vars PROVE RunsCounted'
  OBVIOUS
<1> USE DEF IInv, TypeOK, RunsCounted, Fetch
<1>1. ASSUME NEW u \in Selections, Select(u) PROVE RunsCounted'
  BY <1>1 DEF Select, page
<1>2. ASSUME NEW u \in Selections, Mount(u) PROVE RunsCounted'
  BY <1>2 DEF Mount, Fresh
<1>3. CASE Unmount
  BY <1>3 DEF Unmount, page
<1>4. CASE TimePasses
  BY <1>4 DEF TimePasses, page
<1>5. CASE RunEffect
  BY <1>5 DEF RunEffect, FetchOf, page
<1>6. CASE TimerTick
  BY <1>6 DEF TimerTick, FetchOf, page
<1>7. ASSUME NEW f \in flying, Settle(f) PROVE RunsCounted'
  BY <1>7 DEF Settle, Answer, Failure, page
<1>8. CASE UNCHANGED vars
  BY <1>8 DEF vars, page
<1> QED
  BY <1>1, <1>2, <1>3, <1>4, <1>5, <1>6, <1>7, <1>8 DEF Next

\* A step that fetches nothing and moves the clock at most forward.
LEMMA SpacedWhenFewer ==
  ASSUME IInv, TypeOK', Recent' \subseteq Recent, effect'.url = effect.url,
         effect'.due = effect.due, now <= now'
  PROVE  Spaced'
  BY DEF IInv, TypeOK, Spaced, Recent, Fetch

\* The fetches of one run of the effect are an interval apart: each one moves the
\* timer on.
LEMMA SpacedPreserved == IInv /\ [Next]_vars => Spaced'
<1> SUFFICES ASSUME IInv, [Next]_vars PROVE Spaced'
  OBVIOUS
<1>t. TypeOK'
  BY TypePreserved DEF IInv
<1>1. ASSUME NEW u \in Selections, Select(u) PROVE Spaced'
  BY <1>1, <1>t, SpacedWhenFewer DEF Select, page, Recent, IInv, TypeOK
<1>2. ASSUME NEW u \in Selections, Mount(u) PROVE Spaced'
  BY <1>2, <1>t, SpacedWhenFewer DEF Mount, Fresh, Recent, IInv, TypeOK
<1>3. CASE Unmount
  BY <1>3, <1>t, SpacedWhenFewer DEF Unmount, page, Recent, IInv, TypeOK
<1>4. CASE TimePasses
  BY <1>4, <1>t, SpacedWhenFewer DEF TimePasses, page, Recent, IInv, TypeOK
<1>5. CASE RunEffect
  <2>1. Recent' = {FetchOf(effect.run + 1)}
    BY <1>5 DEF RunEffect, FetchOf, page, Recent, IInv, TypeOK, RunsCounted, Fetch
  <2> QED
    BY <1>5, <2>1, UiAssumption DEF RunEffect, FetchOf, Spaced, IInv, TypeOK
<1>6. CASE TimerTick
  <2>1. Recent' \subseteq Recent \cup {FetchOf(effect.run)}
    BY <1>6 DEF TimerTick, page, Recent, IInv, TypeOK
  <2>2. effect'.url = effect.url /\ effect'.due = now + Interval /\ effect.due <= now
    BY <1>6 DEF TimerTick, Due, IInv, TypeOK
  <2>3. FetchOf(effect.run).url = effect.url /\ FetchOf(effect.run).at = now /\ now' = now
    BY <1>6 DEF TimerTick, FetchOf, IInv, RunsCounted
  <2>4. \A f \in Recent : f.at + Interval <= now /\ f.at \in Nat
    BY <2>2, UiAssumption DEF IInv, TypeOK, Spaced, Recent, Fetch
  <2> QED
    BY <2>1, <2>2, <2>3, <2>4, UiAssumption DEF IInv, TypeOK, Spaced
<1>7. ASSUME NEW f \in flying, Settle(f) PROVE Spaced'
  BY <1>7, <1>t, SpacedWhenFewer DEF Settle, Answer, Failure, page, Recent, IInv, TypeOK
<1>8. CASE UNCHANGED vars
  BY <1>8, <1>t, SpacedWhenFewer DEF vars, page, Recent, IInv, TypeOK
<1> QED
  BY <1>1, <1>2, <1>3, <1>4, <1>5, <1>6, <1>7, <1>8 DEF Next

\* The types, the spacing of the fetches and the count of the runs of poll.
THEOREM PageInvariant == Spec => []IInv
<1>1. IInv /\ [Next]_vars => IInv'
  BY TypePreserved, RunsPreserved, SpacedPreserved DEF IInv
<1> QED
  BY <1>1, InitOK, PTL DEF Spec

\* A step that shows something new is the answer of a fetch of the run that is alive.
LEMMA ShownIsRecent ==
  ASSUME IInv, [Next]_vars, data' # data, data' # None
  PROVE  \E f \in flying : Alive(f) /\ Answer(f) /\ data' = f
<1>1. ASSUME NEW f \in flying, Settle(f) PROVE Alive(f) /\ Answer(f) /\ data' = f
  BY <1>1 DEF Settle, Answer, Failure, page
<1>2. \E f \in flying : Settle(f)
  BY DEF Next, Select, Mount, Fresh, Unmount, TimePasses, RunEffect, TimerTick, page, vars
<1> QED
  BY <1>1, <1>2

\* Late answers of an earlier selection never return to the page (poll.svelte.ts:11-27).
THEOREM OnlyTheSelection == Spec => AnswersOfTheSelectionOnly
<1>1. IInv /\ [Next]_vars => (data' # data /\ data' # None
        => effect.alive /\ data'.url = effect.url /\ (~dirty => data'.url = selected))
  <2> SUFFICES ASSUME IInv, [Next]_vars, data' # data, data' # None
               PROVE effect.alive /\ data'.url = effect.url /\ (~dirty => data'.url = selected)
    OBVIOUS
  <2>1. PICK f \in flying : Alive(f) /\ Answer(f) /\ data' = f
    BY ShownIsRecent
  <2>2. f.url = effect.url
    BY <2>1 DEF Alive, IInv, Spaced, Recent
  <2> QED
    BY <2>1, <2>2 DEF Alive, IInv, TypeOK, RunsCounted
<1> QED
  BY <1>1, PageInvariant, PTL DEF Spec, AnswersOfTheSelectionOnly

\* An older answer replaces a newer one only if it took the interval or longer
\* (poll.svelte.ts:12-24).
THEOREM BackOnlyIfSlow == Spec => GoesBackOnlyIfSlow
<1>1. IInv /\ [Next]_vars => (data # None /\ data' # None /\ data'.run = data.run
        /\ data'.at < data.at => now >= data'.at + Interval)
  <2> SUFFICES ASSUME IInv, [Next]_vars, data # None, data' # None,
                      data'.run = data.run, data'.at < data.at
               PROVE now >= data'.at + Interval
    OBVIOUS
  <2>1. PICK f \in flying : Alive(f) /\ Answer(f) /\ data' = f
    BY ShownIsRecent DEF IInv, TypeOK, Fetch
  <2>2. f \in Recent /\ data \in Recent
    BY <2>1 DEF Alive, Recent
  <2>3. f.at + Interval <= data.at /\ data.at <= now
    BY <2>1, <2>2 DEF IInv, Spaced
  <2> QED
    BY <2>1, <2>3, UiAssumption DEF IInv, TypeOK, Fetch
<1> QED
  BY <1>1, PageInvariant, PTL DEF Spec, GoesBackOnlyIfSlow

\* Behind SelectionIsShown: a page that is on the screen has an effect to run, or its
\* last effect polls the URL that is selected now, with a timer that is due within the
\* interval.  No navigation and no remount leaves a page that fetches no more, or fetches
\* what it no longer shows (poll.svelte.ts:8-27).
PageKeepsPolling ==
    mounted /\ ~dirty =>
      effect.alive /\ effect.url = selected /\ effect.due <= now + Interval

\* The timer is never set further than the interval.
DueInTime == effect.due <= now + Interval

\* A page keeps polling what is selected, for all selections and intervals.
THEOREM PagePollsOn == Spec => []PageKeepsPolling
<1>1. Init => DueInTime
  BY UiAssumption DEF Init, DueInTime
<1>2. IInv /\ DueInTime /\ [Next]_vars => DueInTime'
  <2> SUFFICES ASSUME IInv, DueInTime, [Next]_vars PROVE DueInTime'
    OBVIOUS
  <2> USE UiAssumption DEF DueInTime
  <2>1. now \in Nat /\ effect \in [run: Nat, alive: BOOLEAN, url: Selections, due: Nat]
    BY DEF IInv, TypeOK
  <2>2. ASSUME NEW u \in Selections, Select(u) \/ Mount(u) PROVE DueInTime'
    BY <2>2 DEF Select, Mount
  <2>3. CASE Unmount
    BY <2>1, <2>3 DEF Unmount
  <2>4. CASE TimePasses
    BY <2>1, <2>4 DEF TimePasses
  <2>5. CASE RunEffect \/ TimerTick
    BY <2>1, <2>5 DEF RunEffect, TimerTick
  <2>6. ASSUME NEW f \in flying, Settle(f) PROVE DueInTime'
    BY <2>6 DEF Settle, Answer, Failure
  <2>7. CASE UNCHANGED vars
    BY <2>7 DEF vars
  <2> QED
    BY <2>2, <2>3, <2>4, <2>5, <2>6, <2>7 DEF Next
<1>3. IInv /\ DueInTime => PageKeepsPolling
  BY DEF IInv, RunsCounted, DueInTime, PageKeepsPolling
<1> QED
  BY <1>1, <1>2, <1>3, PageInvariant, PTL DEF Spec
=============================================================================
