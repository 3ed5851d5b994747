-------------------------- MODULE MCEvaluationPool --------------------------
(* Instance of EvaluationPool for TLC. *)
EXTENDS EvaluationPool, TLC

\* Evaluations and queries are interchangeable.
PoolSymmetry == Permutations(Evaluations) \cup Permutations(Queries)
=============================================================================
