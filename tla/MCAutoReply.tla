---------------------------- MODULE MCAutoReply ----------------------------
(***************************************************************************)
(* AutoReply with messages that are alike.                                 *)
(***************************************************************************)
EXTENDS AutoReply

MessageSymmetry == Permutations(Messages)
=============================================================================
