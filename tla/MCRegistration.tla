--------------------------- MODULE MCRegistration ---------------------------
(* Small instances of Registration for TLC: two directories, the Exchange   *)
(* contains the second.                                                     *)
EXTENDS Registration, TLC

CONSTANTS d1, d2, e1
Inside == {<<e1, d2>>}
Interchangeable == Permutations(Procs) \cup Permutations(Ids)
=============================================================================
