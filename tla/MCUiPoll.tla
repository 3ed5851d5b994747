------------------------------ MODULE MCUiPoll ------------------------------
(* Instance of UiPoll for TLC: two windows of one workload, one of another. *)
EXTENDS UiPoll

SomeSelections ==
    {[service |-> "web", window |-> "1h"], [service |-> "web", window |-> "7d"],
     [service |-> "db", window |-> "1h"]}
=============================================================================
