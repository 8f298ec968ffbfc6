------------------------------ MODULE MCSystem ------------------------------
(* An instance of System for TLC: workers are interchangeable. *)
EXTENDS System, TLC

CONSTANTS w1, w2

TwoWorkers == {w1, w2}

WorkerSymmetry == Permutations(Workers)
=============================================================================
