---------------------------- MODULE MCRechecks ----------------------------
(* TLC instances of Rechecks. *)
EXTENDS Rechecks, TLC

Symmetry == Permutations(Leads) \cup Permutations(Workers) \cup Permutations(Slots)
=============================================================================
