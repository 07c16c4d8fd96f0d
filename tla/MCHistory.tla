----------------------------- MODULE MCHistory -----------------------------
(* A small instance of History: a few interchangeable records. *)
EXTENDS History, TLC

RecordSymmetry == Permutations(Records)
=============================================================================
