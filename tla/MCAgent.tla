------------------------------ MODULE MCAgent ------------------------------
(***************************************************************************)
(* A small instance of Agent: two callers over a tool that posts, one that *)
(* fetches and one that stops a service.                                   *)
(***************************************************************************)
EXTENDS Agent

MCEffect == [t \in Tools |-> Label(t)]

MCAddresses ==
  [h \in Hosts |-> CASE h = "site" -> {{"public"}}
                     [] h = "moving" -> {{"public"}, {"public", "loopback"}, {}}]
============================================================================
