----------------------------- MODULE MCScoring -----------------------------
(* Instance of Scoring for TLC: values below, on and above every threshold. *)
EXTENDS Scoring

Good(S) == {[err |-> FALSE, instant |-> v] : v \in S}
Broken(S) == {[err |-> TRUE, instant |-> v] : v \in S}

\* The chart's query may fail where the score's succeeded: an error with a value.
SomeInputs ==
    [errors          |-> Good({NoValue, 0, 1, 3, 5}) \cup Broken({NoValue}),
     errors_previous |-> Good({NoValue, 0, 2}) \cup Broken({NoValue, 0}),
     cpu             |-> Good({NoValue, 0, 2, 3}) \cup Broken({3}),
     memory          |-> Good({NoValue, 0, 3}) \cup Broken({NoValue}),
     waiting         |-> Good({NoValue, 0, 1, 2}) \cup Broken({NoValue, 1}),
     failed_phase    |-> Good({NoValue, 0, 1}) \cup Broken({NoValue})]

\* The defaults' shape, scaled: error 3/5, increase 2/4, cpu and memory 2/3, pods 1/2.
SomeDefaults ==
    [error    |-> [warning |-> 3, critical |-> 5],
     increase |-> [warning |-> 2, critical |-> 4],
     cpu      |-> [warning |-> 2, critical |-> 3],
     memory   |-> [warning |-> 2, critical |-> 3],
     pods     |-> [warning |-> 1, critical |-> 2]]

NothingSet == [p \in Pairs |-> [warning |-> Unset, critical |-> Unset]]

\* One half of a pair, or both: in order, equal, inverted by a default, zero,
\* negative or no number.
SomeSupplied ==
    {[NothingSet EXCEPT !["cpu"] = [warning |-> w, critical |-> c]] :
        w \in {Unset, Unparseable, 0, 3}, c \in {Unset, 0, -1, 3}}
      \cup {[NothingSet EXCEPT !["pods"] = [warning |-> 2, critical |-> Unset]]}
=============================================================================
