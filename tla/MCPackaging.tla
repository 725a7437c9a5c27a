---------------------------- MODULE MCPackaging ----------------------------
(* An entrypoint and one more file, read in two pieces. *)
EXTENDS Packaging, TLC

Contents == Permutations(Chunks)
=============================================================================
