------------------------------- MODULE UiPoll -------------------------------
(***************************************************************************)
(* web/src/lib/poll.svelte.ts: how a page of the browser keeps itself up   *)
(* to date, and what the service-metrics page makes of it.                 *)
(*                                                                         *)
(* poll runs an effect of Svelte: it fetches at once and on a timer, and   *)
(* it is cleaned up and run again when the URL changes.  A fetch is never  *)
(* aborted: what it brings is dropped if its effect has been cleaned up.   *)
(* The browser runs one task at a time, so a task is an action; an effect  *)
(* is run again in a microtask, before any timer and after the answers     *)
(* that were settled first.                                                *)
(***************************************************************************)
EXTENDS Integers

CONSTANTS
    Selections,  \* what a URL names: a workload and a window
    Interval,    \* intervalMs, in ticks
    None,        \* null
    MaxEffects,  \* runs of the effect (bounds the runs)
    MaxTime      \* the clock stops here (bounds the runs)

ASSUME UiAssumption ==
    /\ Interval \in Nat \ {0}
    /\ MaxEffects \in Nat \ {0} /\ MaxTime \in Nat

VARIABLES
    mounted,   \* the component is on the page
    selected,  \* what url() names now
    dirty,     \* the effect is to be run again
    effect,    \* its last run: a number, alive, its URL, when its timer fires next
    flying,    \* fetches without an answer
    data,      \* the fetch whose answer is shown, or None
    error,     \* the fetch whose failure is shown, or None
    loading,
    now

vars == <<mounted, selected, dirty, effect, flying, data, error, loading, now>>
page == <<data, error, loading>>

Fetch == [run: Nat, url: Selections, at: Nat]

Fresh ==
    /\ mounted' = TRUE /\ dirty' = TRUE
    /\ data' = None /\ error' = None /\ loading' = TRUE

Init ==
    /\ mounted = TRUE /\ selected \in Selections /\ dirty = TRUE
    /\ effect = [run |-> 0, alive |-> FALSE, url |-> selected, due |-> 0]
    /\ flying = {}
    /\ data = None /\ error = None /\ loading = TRUE
    /\ now = 0

-----------------------------------------------------------------------------
(* The user, and the time.                                                  *)

\* Another window or another page of the same route; the same one too, since the
\* store of the page is written on every navigation.
Select(u) ==
    /\ mounted /\ (dirty \/ effect.run < MaxEffects)
    /\ selected' = u /\ dirty' = TRUE
    /\ UNCHANGED <<mounted, effect, flying, page, now>>

\* The cleanup runs; nothing else of the component is left.
Unmount ==
    /\ mounted
    /\ mounted' = FALSE /\ dirty' = FALSE
    /\ effect' = [effect EXCEPT !.alive = FALSE]
    /\ UNCHANGED <<selected, flying, page, now>>

\* A new component, with a state of its own.
Mount(u) ==
    /\ ~mounted /\ effect.run < MaxEffects
    /\ selected' = u
    /\ Fresh
    /\ UNCHANGED <<effect, flying, now>>

TimePasses ==
    /\ ~dirty /\ now < MaxTime
    /\ now' = now + 1
    /\ UNCHANGED <<mounted, selected, dirty, effect, flying, page>>

-----------------------------------------------------------------------------
(* poll.                                                                    *)

\* (bug) the URL is resolved outside tick, and stays what it was
FetchOfOldUrl(run) == [run |-> run, url |-> effect.url, at |-> now]

FetchOf(run) == [run |-> run, url |-> selected, at |-> now]

\* The effect: the last run is cleaned up, tick is called and the timer set.
RunEffect ==
    /\ mounted /\ dirty
    /\ dirty' = FALSE
    /\ effect' = [run |-> effect.run + 1, alive |-> TRUE, url |-> selected, due |-> now + Interval]
    /\ flying' = flying \cup {FetchOf(effect.run + 1)}
    /\ UNCHANGED <<mounted, selected, page, now>>

\* (bug) the interval is given in the wrong unit
DueAtOnce == TRUE

\* The timer may be late, and then its next turn is counted from there.
Due == now >= effect.due

TimerTick ==
    /\ mounted /\ ~dirty /\ Due
    /\ effect' = [effect EXCEPT !.due = now + Interval]
    /\ flying' = flying \cup {FetchOf(effect.run)}
    /\ UNCHANGED <<mounted, selected, dirty, page, now>>

\* (bugs) there is no flag; there is one flag for all the runs of the effect
AliveAnyway(f) == mounted
AliveOnce(f) == effect.alive /\ f.run = effect.run /\ f.run = 1

\* alive, in the closure of the run that fetched f.
Alive(f) == effect.alive /\ f.run = effect.run

Answer(f) ==
    /\ f \in flying
    /\ flying' = flying \ {f}
    /\ IF Alive(f) THEN data' = f /\ error' = None /\ loading' = FALSE
       ELSE UNCHANGED page
    /\ UNCHANGED <<mounted, selected, dirty, effect, now>>

\* The network, a status that is not ok or a body that is no JSON: data is kept.
Failure(f) ==
    /\ f \in flying
    /\ flying' = flying \ {f}
    /\ IF Alive(f) THEN error' = f /\ loading' = FALSE /\ UNCHANGED data
       ELSE UNCHANGED page
    /\ UNCHANGED <<mounted, selected, dirty, effect, now>>

Settle(f) == Answer(f) \/ Failure(f)

Next ==
    \/ \E u \in Selections : Select(u) \/ Mount(u)
    \/ Unmount \/ TimePasses
    \/ RunEffect \/ TimerTick
    \/ \E f \in flying : Settle(f)

Spec == Init /\ [][Next]_vars

\* Svelte runs its effects, and the browser ends every fetch with an answer or a failure.
Fairness ==
    /\ WF_vars(RunEffect)
    /\ \A r \in 1..MaxEffects, u \in Selections, t \in 0..MaxTime :
         WF_vars(Settle([run |-> r, url |-> u, at |-> t]))

FairSpec == Spec /\ Fairness

-----------------------------------------------------------------------------
(* The service-metrics page: what its four branches show.                   *)

Screen ==
    IF data # None /\ data.url.window # selected.window THEN "loading"
    ELSE IF error # None THEN "unavailable"
    ELSE IF data = None THEN "loading"
    ELSE "report"

-----------------------------------------------------------------------------
(* Properties.                                                              *)

\* However late the answers of an earlier selection come, none of them returns to the
\* page after the effect has been run for the next one (poll.svelte.ts:11-27).
AnswersOfTheSelectionOnly ==
    [][data' # data /\ data' # None
         => effect.alive /\ data'.url = effect.url /\ (~dirty => data'.url = selected)]_vars

\* Fetches overlap, and an older answer may replace a newer one (poll.svelte.ts:12-24):
\* only if it took the timer's interval or longer.
GoesBackOnlyIfSlow ==
    [][data # None /\ data' # None /\ data'.run = data.run /\ data'.at < data.at
         => now >= data'.at + Interval]_vars

\* The page settles on every selection that stays: it shows the report of it, unless
\* the fetch failed (poll.svelte.ts:10-27, +page.svelte:97-106).
SelectionIsShown ==
    \A u \in Selections : mounted /\ selected = u ~>
      \/ ~mounted \/ selected # u
      \/ Screen = "report" /\ data.url = u
      \/ error # None /\ error.url = u

-----------------------------------------------------------------------------
(* The inductive invariant behind the action properties.                    *)

TypeOK ==
    /\ mounted \in BOOLEAN /\ dirty \in BOOLEAN /\ loading \in BOOLEAN
    /\ selected \in Selections
    /\ effect \in [run: Nat, alive: BOOLEAN, url: Selections, due: Nat]
    /\ flying \subseteq Fetch
    /\ data \in Fetch \cup {None} /\ error \in Fetch \cup {None}
    /\ now \in Nat

\* The fetches of the last run of the effect, answered ones included.
Recent == {f \in flying \cup ({data} \ {None}) : f.run = effect.run}

Spaced ==
    \A f \in Recent :
      /\ f.url = effect.url
      /\ f.at + Interval <= effect.due /\ f.at <= now
      /\ \A g \in Recent : f.at < g.at => f.at + Interval <= g.at

RunsCounted ==
    /\ \A f \in flying : f.run <= effect.run
    /\ data # None => data.run <= effect.run
    /\ effect.alive => mounted
    /\ mounted /\ ~dirty => effect.alive /\ effect.url = selected

IInv == TypeOK /\ Spaced /\ RunsCounted
=============================================================================
