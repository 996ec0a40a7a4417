--------------------------- MODULE MCRunnerSpool ---------------------------
(* Model-checking instance of RunnerSpool. Replays are interchangeable.     *)
EXTENDS RunnerSpool, TLC

ReplaySymmetry == Permutations(Replays)
=============================================================================
