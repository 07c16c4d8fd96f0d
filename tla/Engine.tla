------------------------------- MODULE Engine -------------------------------
(***************************************************************************)
(* The workflow engine of hajime-workflow: Engine::run, which walks a      *)
(* graph of nodes from a trigger with a queue and no topological sort.     *)
(*                                                                         *)
(* A graph keeps apart the wires `run` follows (main outputs, ports 0 to   *)
(* 3) and the others, which `targets` does not see and `sources` does: any *)
(* other connection type, and main ports from 4 up.  Items are left out;   *)
(* a node's data is that it has produced.  A connection may name a node    *)
(* the workflow does not have.                                             *)
(***************************************************************************)
EXTENDS Sequences, SequencesExt, Integers, FiniteSets

CONSTANTS
  Names,     \* node names, those of missing nodes included
  Start,     \* the trigger the run starts at
  Graphs,    \* the workflows to run
  MaxSteps   \* Engine.max_steps, 1000 in the code

\* What a node is: a node with an executor that reads or writes, one with no
\* executor for its kind, a disabled one, or a name no node has.
Kinds == {"read", "write", "unported", "disabled", "missing"}

ASSUME EngineAssumption ==
  /\ IsFiniteSet(Names)
  /\ Start \in Names
  /\ Graphs \subseteq [main : SUBSET (Names \X Names),
                       other : SUBSET (Names \X Names),
                       kind : [Names -> Kinds]]
  /\ \A g \in Graphs : g.kind[Start] # "missing"
  /\ MaxSteps \in Nat

VARIABLES
  graph,      \* the workflow
  shadow,     \* Mode::Shadow
  reachable,  \* names downstream of Start, Start included
  queue,      \* names waiting to be looked at
  done,       \* names that have produced
  ran,        \* names with a NodeRun
  steps,      \* iterations of the loop
  result,     \* "running", "success", "failure", or "dropped" with its task
  changed     \* nodes whose executor may have changed something outside

vars == <<graph, shadow, reachable, queue, done, ran, steps, result, changed>>

Targets(n) == {m \in Names : <<n, m>> \in graph.main}

\* Workflow::sources: every connection type and every port.
Sources(n) == {m \in Names : <<m, n>> \in graph.main \cup graph.other}

\* reachable_from: the least set that holds Start and the targets of its nodes.
ReachableFrom(g) ==
  {n \in Names : \A S \in SUBSET Names :
     /\ Start \in S
     /\ \A m \in S : \A k \in Names : <<m, k>> \in g.main => k \in S
     => n \in S}

\* The sources a node waits for.
Awaited(n) == Sources(n) \cap reachable

\* The queue with the targets of n not yet in it added at its end, in the
\* order of the connection table, which may be any.
Enqueued(n, q) ==
  {q \o more : more \in SetToSeqs({m \in Targets(n) : m \notin Range(q)})}

----------------------------------------------------------------------------
\* The state in which the loop starts: the trigger has produced the payload
\* without being executed.
Init ==
  /\ graph \in Graphs
  /\ shadow \in BOOLEAN
  /\ reachable = ReachableFrom(graph)
  /\ queue \in Enqueued(Start, <<>>)
  /\ done = {Start}
  /\ ran = {Start}
  /\ steps = 0
  /\ result = "running"
  /\ changed = {}

\* pop_front, and one more step.
Pop(n) ==
  /\ result = "running"
  /\ queue # <<>>
  /\ n = Head(queue)
  /\ steps < MaxSteps
  /\ steps' = steps + 1
  /\ UNCHANGED <<graph, shadow, reachable>>

\* A node that has produced already, or a name that no node has.
Skip(n) ==
  /\ Pop(n)
  /\ n \in done \/ graph.kind[n] = "missing"
  /\ queue' = Tail(queue)
  /\ UNCHANGED <<done, ran, result, changed>>

\* A node is taken as soon as one of its sources has produced.
Pending_One(n) ==
  /\ n \notin done
  /\ graph.kind[n] # "missing"
  /\ Awaited(n) \cap done # {}

\* The node is there, has not produced, and nothing it waits for is missing.
Pending(n) ==
  /\ n \notin done
  /\ graph.kind[n] # "missing"
  /\ Awaited(n) \subseteq done

\* Going round again is not counted as a step.
Requeue_Uncounted(n) ==
  /\ result = "running"
  /\ queue # <<>>
  /\ n = Head(queue)
  /\ steps < MaxSteps
  /\ n \notin done /\ graph.kind[n] # "missing" /\ ~Pending(n)
  /\ queue' = Append(Tail(queue), n)
  /\ UNCHANGED <<graph, shadow, reachable, done, ran, steps, result, changed>>

\* Some source has not produced: back to the end of the queue.
Requeue(n) ==
  /\ Pop(n)
  /\ n \notin done /\ graph.kind[n] # "missing" /\ ~Pending(n)
  /\ queue' = Append(Tail(queue), n)
  /\ UNCHANGED <<done, ran, result, changed>>

\* The node has produced.
Produce(n) ==
  /\ done' = done \cup {n}
  /\ queue' \in Enqueued(n, Tail(queue))
  /\ result' = result

\* A disabled node hands its input on and leaves no NodeRun.
PassDisabled(n) ==
  /\ Pop(n)
  /\ Pending(n)
  /\ graph.kind[n] = "disabled"
  /\ Produce(n)
  /\ UNCHANGED <<ran, changed>>

\* The rehearsal is given the live engine.
Held_Never(n) == FALSE

\* Mode::blocks: a shadow run holds back whatever does not only read.
Held(n) == shadow /\ graph.kind[n] = "write"

\* The executor is called: it may have changed something, whether it then
\* succeeds, fails half-way through its items, or is dropped.
Called(n) ==
  IF graph.kind[n] = "write" /\ ~Held(n)
  THEN changed' \in {changed, changed \cup {n}}
  ELSE changed' = changed

\* The node runs, or is held back, or has no executor and hands its input on.
ExecuteOk(n) ==
  /\ Pop(n)
  /\ Pending(n)
  /\ graph.kind[n] \in {"read", "write", "unported"}
  /\ Called(n)
  /\ ran' = ran \cup {n}
  /\ Produce(n)

\* A failed node is passed over.
ExecuteErr_GoesOn(n) ==
  /\ Pop(n)
  /\ Pending(n)
  /\ graph.kind[n] \in {"read", "write"} /\ ~Held(n)
  /\ Called(n)
  /\ ran' = ran \cup {n}
  /\ queue' = Tail(queue)
  /\ UNCHANGED <<done, result>>

\* The first node to fail ends the run.
ExecuteErr(n) ==
  /\ Pop(n)
  /\ Pending(n)
  /\ graph.kind[n] \in {"read", "write"} /\ ~Held(n)
  /\ Called(n)
  /\ ran' = ran \cup {n}
  /\ result' = "failure"
  /\ queue' = Tail(queue)
  /\ UNCHANGED done

\* The task of the run is dropped while an executor is awaited: the client of a
\* webhook or of a manual run goes away, or the process ends.
Drop(n) ==
  /\ Pop(n)
  /\ Pending(n)
  /\ graph.kind[n] \in {"read", "write"} /\ ~Held(n)
  /\ Called(n)
  /\ result' = "dropped"
  /\ queue' = Tail(queue)
  /\ UNCHANGED <<done, ran>>

\* The queue is empty.
Finish ==
  /\ result = "running"
  /\ queue = <<>>
  /\ result' = "success"
  /\ UNCHANGED <<graph, shadow, reachable, queue, done, ran, steps, changed>>

\* The step limit is passed: the loop is left, and the run is a success.
OutOfSteps ==
  /\ result = "running"
  /\ queue # <<>>
  /\ steps >= MaxSteps
  /\ queue' = Tail(queue)
  /\ steps' = steps + 1
  /\ result' = "success"
  /\ UNCHANGED <<graph, shadow, reachable, done, ran, changed>>

Step(n) ==
  \/ Skip(n) \/ Requeue(n) \/ PassDisabled(n)
  \/ ExecuteOk(n) \/ ExecuteErr(n) \/ Drop(n)

Next == (\E n \in Names : Step(n)) \/ Finish \/ OutOfSteps

\* One task runs the loop; every executor that reaches outside has a time limit
\* of its own (http, ssh, command), so an await ends.
Spec == Init /\ [][Next]_vars /\ WF_vars(Next)

----------------------------------------------------------------------------
(* Properties *)

\* Types; the queue holds no name twice, and what has produced is reachable.
TypeOK ==
  /\ graph \in Graphs
  /\ shadow \in BOOLEAN
  /\ reachable \subseteq Names
  /\ queue \in Seq(reachable)
  /\ IsInjective(queue)
  /\ done \subseteq reachable
  /\ ran \subseteq reachable
  /\ steps \in Nat
  /\ result \in {"running", "success", "failure", "dropped"}
  /\ changed \subseteq ran \/ result = "dropped"

Nodes == {n \in reachable : graph.kind[n] # "missing"}

\* What n consumes in this run: the data of every reachable name wired to it.
Needs(n) ==
  {m \in reachable : <<m, n>> \in graph.main \/ <<m, n>> \in graph.other}

\* What the graph lets a run do: the least set with the trigger and every node
\* of the run whose needs are all in it.
Runnable ==
  {n \in Nodes : \A S \in SUBSET Nodes :
     /\ Start \in S
     /\ \A m \in Nodes : Needs(m) \subseteq S => m \in S
     => n \in S}

\* Re-queueing does what a topological sort would: a run does no more than the
\* graph lets it, and one that empties its queue has done all of it, whatever
\* the order of the connection table; on a graph without cycles and dangling
\* names that is every node (Engine::run, "avoids a topological sort").
RunsTheRunnable ==
  /\ done \subseteq Runnable
  /\ result = "success" /\ steps <= MaxSteps => done = Runnable

\* A rehearsal shows what the real run would do: it is never stopped by a node
\* that writes, and changes nothing outside (Mode::Shadow, execute_node).
RehearsalIsHarmless ==
  shadow => /\ changed = {}
            /\ result = "failure" => \E n \in ran \ done : graph.kind[n] = "read"

\* The engine implements the run that needs no queue; with steps enough, a run
\* that the limit cuts off had no node left that could have run, either.
Run ==
  INSTANCE Dataflow WITH
    needs <- [n \in Names |-> Needs(n)],
    wanted <- Nodes,
    produced <- done,
    verdict <- IF result \in {"failure", "dropped"} THEN "stopped" ELSE result
IsDataflow == Run!Spec

\* Every run ends: a cycle is left by the step limit (Engine.max_steps).
Terminates == <>(result # "running")
=============================================================================
