------------------------------ MODULE MCWatcher ------------------------------
(* Small instances of Watcher for TLC. *)
EXTENDS Watcher, TLC

Symmetry == Permutations(Roots) \cup Permutations(Errors)
=============================================================================
