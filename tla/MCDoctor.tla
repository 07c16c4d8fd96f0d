------------------------------ MODULE MCDoctor ------------------------------
(* The doctor over the repository's services. *)
EXTENDS Doctor, ServiceTable
=============================================================================
