---------------------------- MODULE MCRunQueue ----------------------------
(* TLC instances of RunQueue. *)
EXTENDS RunQueue, TLC

WorkerSymmetry == Permutations(Workers)
=============================================================================
