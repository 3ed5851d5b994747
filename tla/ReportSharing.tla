--------------------------- MODULE ReportSharing ---------------------------
(***************************************************************************)
(* What the report cache of internal/servicehealth promises its callers,   *)
(* without the map, the lock, the eviction or the flights' channels:       *)
(*                                                                         *)
(*   - a key has at most one evaluation that is not yet retired;           *)
(*   - an evaluation is started only for a request that wants its key, and *)
(*     that request retires it;                                            *)
(*   - a request is answered by an evaluation of its key that was not yet  *)
(*     retired when the request came, or by a report younger than ttl;     *)
(*   - a request whose client is gone may be answered by the cancellation. *)
(***************************************************************************)
EXTENDS Integers

CONSTANTS Callers, Keys, Flights, None, TTLs

VARIABLES
    ttl,      \* how long a report may be reused; negative: nothing is shared
    now,      \* the time
    evals,    \* every evaluation: key, phase, owner, outcome, time of publication
    wants,    \* the key a caller's request is about, None between requests
    gone,     \* the client of the request has disconnected
    missed,   \* the evaluations that were over before the request came
    answer    \* the outcome and the evaluation of the last answer

vars == <<ttl, now, evals, wants, gone, missed, answer>>

Nothing == [outcome |-> "none", flight |-> None]
Retired == {f \in Flights : evals[f].phase = "retired"}
Current(k) == {f \in Flights : evals[f].phase \in {"running", "over"} /\ evals[f].key = k}

Init ==
    /\ ttl \in TTLs
    /\ now = 0
    /\ \E k \in Keys :
         evals = [f \in Flights |-> [key |-> k, phase |-> "none", owner |-> None,
                                     outcome |-> "none", publishedAt |-> -1]]
    /\ wants = [c \in Callers |-> None]
    /\ gone = [c \in Callers |-> FALSE]
    /\ missed = [c \in Callers |-> {}]
    /\ answer = [c \in Callers |-> Nothing]

Request(c, k) ==
    /\ wants[c] = None
    /\ wants' = [wants EXCEPT ![c] = k]
    /\ gone' = [gone EXCEPT ![c] = FALSE]
    /\ missed' = [missed EXCEPT ![c] = Retired]
    /\ answer' = [answer EXCEPT ![c] = Nothing]
    /\ UNCHANGED <<ttl, now, evals>>

Disconnect(c) ==
    /\ wants[c] # None
    /\ gone' = [gone EXCEPT ![c] = TRUE]
    /\ UNCHANGED <<ttl, now, evals, wants, missed, answer>>

Pass ==
    /\ now' = now + 1
    /\ UNCHANGED <<ttl, evals, wants, gone, missed, answer>>

Begin(c, f) ==
    /\ wants[c] # None
    /\ evals[f].phase = "none"
    /\ ttl >= 0 => Current(wants[c]) = {}
    /\ evals' = [evals EXCEPT ![f].key = wants[c], ![f].phase = "running", ![f].owner = c]
    /\ UNCHANGED <<ttl, now, wants, gone, missed, answer>>

End(f, o) ==
    /\ evals[f].phase = "running" /\ ttl >= 0
    /\ evals' = [evals EXCEPT ![f].phase = "over", ![f].outcome = o]
    /\ UNCHANGED <<ttl, now, wants, gone, missed, answer>>

Reply(c, o, f) ==
    /\ wants' = [wants EXCEPT ![c] = None]
    /\ answer' = [answer EXCEPT ![c] = [outcome |-> o, flight |-> f]]
    /\ UNCHANGED <<ttl, now, gone, missed>>

\* The owner of an evaluation publishes a report, not an error, and leaves.
Publish(c, f) ==
    /\ evals[f].phase = "over" /\ evals[f].owner = c
    /\ evals' = [evals EXCEPT ![f].phase = "retired", ![f].owner = None,
                              ![f].publishedAt = IF evals[f].outcome = "report" THEN now ELSE @]
    /\ Reply(c, evals[f].outcome, f)

\* Nothing shared: the owner's own evaluation, which its disconnection may abort.
Alone(c, f, o) ==
    /\ ttl < 0
    /\ evals[f].phase = "running" /\ evals[f].owner = c
    /\ o = "aborted" => gone[c]
    /\ evals' = [evals EXCEPT ![f].phase = "retired", ![f].owner = None, ![f].outcome = o]
    /\ Reply(c, o, f)

\* Shared: the evaluation was not yet retired when the request came.
Share(c, f) ==
    /\ wants[c] = evals[f].key
    /\ evals[f].phase \in {"over", "retired"}
    /\ f \notin missed[c]
    /\ Reply(c, evals[f].outcome, f)
    /\ UNCHANGED evals

\* Reused: a report of an age below ttl.
Reuse(c, f) ==
    /\ wants[c] = evals[f].key
    /\ evals[f].outcome = "report" /\ evals[f].publishedAt >= 0
    /\ now < evals[f].publishedAt + ttl
    /\ Reply(c, "report", f)
    /\ UNCHANGED evals

Cancel(c) ==
    /\ wants[c] # None
    /\ gone[c]
    /\ Reply(c, "cancelled", None)
    /\ UNCHANGED evals

Next ==
    \/ \E c \in Callers :
         \/ \E k \in Keys : Request(c, k)
         \/ Disconnect(c)
         \/ Cancel(c)
         \/ \E f \in Flights : Begin(c, f) \/ Publish(c, f) \/ Share(c, f) \/ Reuse(c, f)
    \/ \E f \in Flights, o \in {"report", "error"} : End(f, o)
    \/ \E c \in Callers, f \in Flights, o \in {"report", "error", "aborted"} : Alone(c, f, o)
    \/ Pass

Spec == Init /\ [][Next]_vars
=============================================================================
