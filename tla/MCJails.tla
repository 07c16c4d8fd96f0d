------------------------------ MODULE MCJails ------------------------------
(***************************************************************************)
(* Two jails and two people giving commands.                               *)
(***************************************************************************)
EXTENDS Jails, TLC

Symmetry == Permutations(Sessions) \cup Permutations(Jails)
=============================================================================
