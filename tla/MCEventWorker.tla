---------------------------- MODULE MCEventWorker ----------------------------
(***************************************************************************)
(* Small instances of EventWorker: two workers on two events, and one      *)
(* worker with the configured three attempts.                              *)
(***************************************************************************)
EXTENDS EventWorker, TLC

CONSTANTS w1, w2

Symmetry == Permutations(Worker)
=============================================================================
