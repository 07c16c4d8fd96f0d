------------------------------ MODULE Dataflow ------------------------------
(***************************************************************************)
(* What a workflow run promises, without a queue: a node produces its data *)
(* once, after everything it needs has; and a run that ends well leaves no *)
(* node that could still have produced.  "A node only runs after every one *)
(* of its sources has produced data" (engine.rs:5-6).                      *)
(***************************************************************************)
CONSTANT Names

VARIABLES
  needs,     \* [Names -> the names whose data a node consumes]
  wanted,    \* the nodes of this run
  produced,  \* the nodes that have produced
  verdict    \* "running", "success", or "stopped" by a failure or from outside

Ready == {n \in wanted \ produced : needs[n] \subseteq produced}

Init ==
  /\ needs \in [Names -> SUBSET Names]
  /\ wanted \in SUBSET Names
  /\ \E first \in wanted : produced = {first}
  /\ verdict = "running"

Produce ==
  /\ verdict = "running"
  /\ \E n \in Ready : produced' = produced \cup {n}
  /\ UNCHANGED <<needs, wanted, verdict>>

Succeed ==
  /\ verdict = "running"
  /\ Ready = {}
  /\ verdict' = "success"
  /\ UNCHANGED <<needs, wanted, produced>>

Stop ==
  /\ verdict = "running"
  /\ verdict' = "stopped"
  /\ UNCHANGED <<needs, wanted, produced>>

Next == Produce \/ Succeed \/ Stop

Spec == Init /\ [][Next]_<<needs, wanted, produced, verdict>>
=============================================================================
