----------------------------- MODULE MCLifecycle -----------------------------
(* Instances of Lifecycle for TLC: workers are interchangeable. *)
EXTENDS Lifecycle, TLC

CONSTANTS w1, w2

TwoWorkers == {w1, w2}

WorkerSymmetry == Permutations(Workers)
=============================================================================
