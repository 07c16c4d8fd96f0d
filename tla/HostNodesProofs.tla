-------------------------- MODULE HostNodesProofs --------------------------
(***************************************************************************)
(* Proofs about Engine and about HostNodes, the nodes inside it.           *)
(*                                                                         *)
(* Of Engine: that its queue does what a topological sort would, on every  *)
(* graph, with any connection order and any step limit, and implements     *)
(* Dataflow.  Of HostNodes: that each of its steps is a step of Engine, so *)
(* that what is proved of Engine holds of it; and that the transcript is   *)
(* true and nothing is left behind in silence.  For any graphs, policies,  *)
(* paths and numbers of items.                                             *)
(***************************************************************************)
EXTENDS HostNodes, FiniteSetTheorems, TLAPS

----------------------------------------------------------------------------
(* Queues *)

\* Taking the first name off a queue.
LEMMA TailFacts ==
  ASSUME NEW S, NEW q \in Seq(S), q # <<>>
  PROVE  /\ Head(q) \in S
         /\ Tail(q) \in Seq(S)
         /\ Range(q) = {Head(q)} \cup Range(Tail(q))
         /\ IsInjective(q) => IsInjective(Tail(q)) /\ Head(q) \notin Range(Tail(q))
<1>1. Len(q) \in Nat /\ Len(q) > 0 /\ Head(q) = q[1] /\ DOMAIN q = 1..Len(q)
  OBVIOUS
<1>2. /\ Tail(q) \in Seq(S)
      /\ DOMAIN Tail(q) = 1..(Len(q) - 1)
      /\ \A i \in 1..(Len(q) - 1) : Tail(q)[i] = q[i + 1]
  BY <1>1
<1>3. Range(q) \subseteq {Head(q)} \cup Range(Tail(q))
  <2> SUFFICES ASSUME NEW i \in 1..Len(q), i # 1 PROVE q[i] \in Range(Tail(q))
    BY <1>1 DEF Range
  <2>1. i - 1 \in 1..(Len(q) - 1) /\ Tail(q)[i - 1] = q[i]
    BY <1>1, <1>2
  <2> QED BY <2>1, <1>2 DEF Range
<1>4. {Head(q)} \cup Range(Tail(q)) \subseteq Range(q)
  BY <1>1, <1>2 DEF Range
<1>5. ASSUME IsInjective(q) PROVE IsInjective(Tail(q)) /\ Head(q) \notin Range(Tail(q))
  <2>1. \A i \in 1..(Len(q) - 1) : i + 1 \in DOMAIN q /\ i + 1 # 1 /\ 1 \in DOMAIN q
    BY <1>1
  <2> QED BY <1>1, <1>2, <1>5, <2>1 DEF IsInjective, Range
<1> QED BY <1>1, <1>2, <1>3, <1>4, <1>5

\* Putting names at the end of a queue.
LEMMA ConcatFacts ==
  ASSUME NEW S, NEW q \in Seq(S), NEW r \in Seq(S)
  PROVE  /\ q \o r \in Seq(S)
         /\ Range(q \o r) = Range(q) \cup Range(r)
         /\ IsInjective(q) /\ IsInjective(r) /\ Range(q) \cap Range(r) = {} => IsInjective(q \o r)
<1> DEFINE w == q \o r
<1>1. /\ Len(q) \in Nat /\ Len(r) \in Nat
      /\ DOMAIN q = 1..Len(q) /\ DOMAIN r = 1..Len(r)
      /\ DOMAIN w = 1..(Len(q) + Len(r))
      /\ w \in Seq(S)
      /\ \A i \in 1..Len(q) : w[i] = q[i]
      /\ \A i \in 1..Len(r) : w[Len(q) + i] = r[i]
  OBVIOUS
<1>2. \A i \in DOMAIN w : i \in 1..Len(q) \/ (i - Len(q) \in 1..Len(r) /\ w[i] = r[i - Len(q)])
  <2> TAKE i \in DOMAIN w
  <2>0. i \in 1..(Len(q) + Len(r))
    BY <1>1
  <2>1. CASE i <= Len(q)
    BY <1>1, <2>0, <2>1
  <2>2. CASE ~(i <= Len(q))
    <3>1. i - Len(q) \in 1..Len(r) /\ Len(q) + (i - Len(q)) = i
      BY <1>1, <2>0, <2>2
    <3> QED BY <1>1, <3>1
  <2> QED BY <2>1, <2>2
<1>3. \A i \in 1..Len(r) : Len(q) + i \in DOMAIN w
  BY <1>1
<1>4. \A i \in 1..Len(q) : i \in DOMAIN w
  BY <1>1
<1> HIDE DEF w
<1>5. Range(w) = Range(q) \cup Range(r)
  <2>1. \A x \in Range(w) : x \in Range(q) \cup Range(r)
    <3> SUFFICES ASSUME NEW i \in DOMAIN w PROVE w[i] \in Range(q) \cup Range(r)
      BY DEF Range
    <3>1. CASE i \in 1..Len(q)
      BY <1>1, <3>1 DEF Range
    <3>2. CASE i - Len(q) \in 1..Len(r) /\ w[i] = r[i - Len(q)]
      BY <1>1, <3>2 DEF Range
    <3> QED BY <1>2, <3>1, <3>2
  <2>2. \A x \in Range(q) : x \in Range(w)
    BY <1>1, <1>4 DEF Range
  <2>3. \A x \in Range(r) : x \in Range(w)
    BY <1>1, <1>3 DEF Range
  <2> QED BY <2>1, <2>2, <2>3
<1>6. ASSUME IsInjective(q), IsInjective(r), Range(q) \cap Range(r) = {}
      PROVE  IsInjective(w)
  <2> SUFFICES ASSUME NEW i \in DOMAIN w, NEW j \in DOMAIN w, w[i] = w[j] PROVE i = j
    BY DEF IsInjective
  <2>1. \A a \in 1..Len(q) : \A b \in 1..Len(r) : q[a] # r[b]
    BY <1>1, <1>6 DEF Range
  <2>2. CASE i \in 1..Len(q) /\ j \in 1..Len(q)
    BY <1>1, <1>6, <2>2 DEF IsInjective
  <2>3. CASE i - Len(q) \in 1..Len(r) /\ w[i] = r[i - Len(q)] /\ j - Len(q) \in 1..Len(r) /\ w[j] = r[j - Len(q)]
    <3>1. i - Len(q) = j - Len(q)
      BY <1>1, <1>6, <2>3 DEF IsInjective
    <3> QED BY <1>1, <3>1
  <2> QED BY <1>1, <1>2, <2>1, <2>2, <2>3
<1> QED BY <1>1, <1>5, <1>6 DEF w

LEMMA AppendFacts ==
  ASSUME NEW S, NEW q \in Seq(S), NEW n \in S
  PROVE  /\ Append(q, n) \in Seq(S)
         /\ Range(Append(q, n)) = Range(q) \cup {n}
         /\ IsInjective(q) /\ n \notin Range(q) => IsInjective(Append(q, n))
<1> DEFINE r == <<n>>
<1>1. Append(q, n) = q \o r /\ r \in Seq(S)
  OBVIOUS
<1>2. Range(r) = {n} /\ IsInjective(r)
  BY DEF Range, IsInjective
<1> HIDE DEF r
<1>3. /\ q \o r \in Seq(S)
      /\ Range(q \o r) = Range(q) \cup Range(r)
      /\ IsInjective(q) /\ IsInjective(r) /\ Range(q) \cap Range(r) = {} => IsInjective(q \o r)
  BY <1>1, ConcatFacts
<1> QED BY <1>1, <1>2, <1>3

\* The orders of a finite set hold its members once each.
LEMMA SeqsOfSet ==
  ASSUME NEW S, IsFiniteSet(S), NEW f \in SetToSeqs(S)
  PROVE  f \in Seq(S) /\ Range(f) = S /\ IsInjective(f)
<1> DEFINE D == 1..Cardinality(S)
<1>1. Cardinality(S) \in Nat
  BY FS_CardinalityType
<1>2. f \in [D -> S] /\ IsInjective(f)
  BY DEF SetToSeqs, IsInjective
<1>3. Cardinality(D) = Cardinality(S)
  BY <1>1, FS_Interval
<1>4. f \in Injection(D, S)
  BY <1>2 DEF Injection
<1>5. f \in Surjection(D, S)
  BY <1>3, <1>4, FS_Injection
<1>6. Range(f) = S
  BY <1>5, <1>2 DEF Surjection, Range
<1>7. f \in Seq(S)
  BY <1>1, <1>2
<1> QED BY <1>2, <1>6, <1>7

\* The targets of a node are put in the queue, each once.
LEMMA EnqueuedFacts ==
  ASSUME NEW S \in SUBSET Names, NEW q \in Seq(S), NEW n \in Names, Targets(n) \subseteq S,
         NEW r \in Enqueued(n, q)
  PROVE  /\ r \in Seq(S)
         /\ Range(r) = Range(q) \cup Targets(n)
         /\ IsInjective(q) => IsInjective(r)
<1> DEFINE T == {m \in Targets(n) : m \notin Range(q)}
<1>1. IsFiniteSet(T)
  BY EngineAssumption, FS_Subset DEF Targets
<1>2. PICK more \in SetToSeqs(T) : r = q \o more
  BY DEF Enqueued
<1>3. more \in Seq(T) /\ Range(more) = T /\ IsInjective(more)
  BY <1>1, SeqsOfSet
<1>4. more \in Seq(S)
  BY <1>3
<1> QED BY <1>2, <1>3, <1>4, ConcatFacts

----------------------------------------------------------------------------
(* What the trigger reaches *)

Missing == {n \in Names : graph.kind[n] = "missing"}

\* The set the run computes once, at its start.
ReachInv == reachable = ReachableFrom(graph)

LEMMA ReachFacts ==
  ASSUME TypeOK, ReachInv
  PROVE  /\ Start \in reachable
         /\ \A n \in reachable : Targets(n) \subseteq reachable
         /\ \A n \in reachable \ {Start} : \E m \in reachable : n \in Targets(m)
<1>1. Start \in Names
  BY EngineAssumption
<1>2. Start \in reachable
  BY <1>1 DEF ReachInv, ReachableFrom
<1>3. ASSUME NEW n \in reachable, NEW k \in Targets(n) PROVE k \in reachable
  <2>1. n \in Names /\ k \in Names /\ <<n, k>> \in graph.main
    BY DEF TypeOK, Targets
  <2> SUFFICES ASSUME NEW S \in SUBSET Names, Start \in S,
                      \A m \in S : \A j \in Names : <<m, j>> \in graph.main => j \in S
               PROVE  k \in S
    BY <2>1 DEF ReachInv, ReachableFrom
  <2>2. n \in S
    BY DEF ReachInv, ReachableFrom
  <2> QED BY <2>1, <2>2
<1>4. ASSUME NEW n \in reachable \ {Start} PROVE \E m \in reachable : n \in Targets(m)
  <2> SUFFICES ASSUME \A m \in reachable : n \notin Targets(m) PROVE FALSE
    OBVIOUS
  <2> DEFINE S == reachable \ {n}
  <2>1. S \in SUBSET Names /\ Start \in S
    BY <1>2 DEF TypeOK
  <2>2. \A m \in S : \A j \in Names : <<m, j>> \in graph.main => j \in S
    BY <1>3 DEF Targets
  <2>3. n \in S
    BY <2>1, <2>2 DEF ReachInv, ReachableFrom
  <2> QED BY <2>3
<1> QED BY <1>2, <1>3, <1>4

----------------------------------------------------------------------------
(* The inductive invariant *)

\* Every target of a node that has produced has produced, waits in the queue or
\* is no node.
QueueInv == \A m \in done : Targets(m) \subseteq done \cup Range(queue) \cup Missing

SoundInv == Start \in done /\ done \subseteq Runnable

IInv ==
  /\ TypeOK /\ ReachInv /\ SoundInv
  /\ result = "running" => QueueInv
  /\ result = "success" /\ steps <= MaxSteps => done = Runnable

\* Types of the graph of a run.
LEMMA GraphType ==
  ASSUME TypeOK
  PROVE  /\ graph.main \subseteq Names \X Names
         /\ graph.kind \in [Names -> Kinds]
         /\ graph.kind[Start] # "missing"
         /\ \A n : Targets(n) \subseteq Names
BY EngineAssumption DEF TypeOK, Targets

\* A set of nodes that holds the trigger and every node whose needs it holds.
Closed(S) == Start \in S /\ \A m \in Nodes : Needs(m) \subseteq S => m \in S

\* The node taken from the queue may run: all it needs has produced.
LEMMA PendingIsRunnable ==
  ASSUME TypeOK, ReachInv, SoundInv, NEW n \in reachable, Pending(n)
  PROVE  n \in Runnable
<1>1. n \in Nodes
  BY DEF Nodes, Pending
<1>2. Needs(n) \subseteq done
  BY DEF Needs, Pending, Awaited, Sources, TypeOK
<1> SUFFICES ASSUME NEW S \in SUBSET Nodes, Start \in S,
                    \A m \in Nodes : Needs(m) \subseteq S => m \in S
             PROVE  n \in S
  BY <1>1 DEF Runnable
<1>3. done \subseteq S
  BY DEF SoundInv, Runnable
<1> QED BY <1>1, <1>2, <1>3

\* With nothing left in the queue, nothing is left that could run.
LEMMA EmptyQueueIsDone ==
  ASSUME TypeOK, ReachInv, SoundInv, QueueInv, queue = <<>>
  PROVE  done = Runnable
<1>1. Range(queue) = {}
  BY DEF Range
<1>2. done \in SUBSET Nodes
  BY DEF SoundInv, Runnable
<1>3. ASSUME NEW m \in Nodes, Needs(m) \subseteq done PROVE m \in done
  <2>1. CASE m = Start
    BY <2>1 DEF SoundInv
  <2>2. CASE m # Start
    <3>1. m \in reachable /\ m \notin Missing
      BY DEF Nodes, Missing
    <3>2. PICK k \in reachable : m \in Targets(k)
      BY <2>2, <3>1, ReachFacts
    <3>3. k \in done
      BY <1>3, <3>2 DEF Needs, Targets
    <3> QED BY <1>1, <3>1, <3>2, <3>3 DEF QueueInv
  <2> QED BY <2>1, <2>2
<1>4. Runnable \subseteq done
  BY <1>2, <1>3 DEF SoundInv, Runnable
<1> QED BY <1>4 DEF SoundInv

LEMMA IInvInit == Init => IInv
<1> SUFFICES ASSUME Init PROVE IInv
  OBVIOUS
<1>1. /\ graph \in Graphs /\ reachable \subseteq Names /\ ReachInv
      /\ Start \in Names /\ graph.kind[Start] # "missing"
  BY EngineAssumption DEF Init, ReachInv, ReachableFrom
<1>2. Start \in reachable
  BY <1>1 DEF ReachInv, ReachableFrom
<1>3. Targets(Start) \subseteq reachable
  <2> SUFFICES ASSUME NEW k \in Targets(Start) PROVE k \in reachable
    OBVIOUS
  <2> QED BY <1>1 DEF ReachInv, ReachableFrom, Targets
<1>4. <<>> \in Seq(reachable) /\ IsInjective(<<>>) /\ Range(<<>>) = {}
  BY DEF IsInjective, Range
<1>5. /\ queue \in Seq(reachable) /\ IsInjective(queue)
      /\ Range(queue) = Targets(Start)
  <2> DEFINE q == <<>>
  <2>1. q \in Seq(reachable) /\ IsInjective(q) /\ Range(q) = {} /\ queue \in Enqueued(Start, q)
    BY <1>4 DEF Init
  <2>a. reachable \subseteq Names /\ Start \in Names
    BY <1>1
  <2> HIDE DEF q
  <2>2. /\ queue \in Seq(reachable) /\ IsInjective(queue)
        /\ Range(queue) = Range(q) \cup Targets(Start)
    <3>1. q \in Seq(reachable) /\ IsInjective(q) /\ queue \in Enqueued(Start, q)
      BY <2>1
    <3> QED BY <1>3, <2>a, <3>1, EnqueuedFacts
  <2> QED BY <2>1, <2>2
<1>6. TypeOK
  <2>1. /\ shadow \in BOOLEAN /\ done = {Start} /\ ran = {Start} /\ steps = 0
        /\ result = "running" /\ changed = {}
    BY DEF Init
  <2> QED BY <1>1, <1>2, <1>5, <2>1 DEF TypeOK
<1>7. Start \in Nodes
  BY <1>1, <1>2 DEF Nodes
<1>8. Start \in Runnable
  BY <1>7 DEF Runnable
<1>9. SoundInv /\ QueueInv
  BY <1>5, <1>8 DEF Init, SoundInv, QueueInv
<1> QED BY <1>1, <1>6, <1>9 DEF Init, IInv

----------------------------------------------------------------------------
(* Steps *)

\* What every step that looks at the head of the queue does.
LEMMA PopFacts ==
  ASSUME IInv, NEW n, Pop(n)
  PROVE  /\ n \in reachable /\ n \in Names
         /\ Tail(queue) \in Seq(reachable)
         /\ IsInjective(Tail(queue))
         /\ Range(queue) = {n} \cup Range(Tail(queue))
         /\ n \notin Range(Tail(queue))
         /\ steps' \in Nat /\ steps' <= MaxSteps
         /\ UNCHANGED <<graph, shadow, reachable>>
         /\ QueueInv
<1>1. queue \in Seq(reachable) /\ queue # <<>> /\ IsInjective(queue)
  BY DEF IInv, TypeOK, Pop
<1>2. n = Head(queue)
  BY DEF Pop
<1>3. /\ n \in reachable
      /\ Tail(queue) \in Seq(reachable)
      /\ IsInjective(Tail(queue))
      /\ Range(queue) = {n} \cup Range(Tail(queue))
      /\ n \notin Range(Tail(queue))
  BY <1>1, <1>2, TailFacts
<1> QED BY <1>3, EngineAssumption DEF IInv, TypeOK, Pop

\* The graph does not change, so what it lets a run do does not either.
LEMMA RunnableStays ==
  ASSUME UNCHANGED <<graph, reachable>>
  PROVE  Runnable' = Runnable /\ Missing' = Missing /\ \A n : Targets(n)' = Targets(n)
BY DEF Runnable, Nodes, Needs, Missing, Targets

LEMMA SkipStep == ASSUME IInv, NEW n \in Names, Skip(n) PROVE IInv'
<1>1. Pop(n) /\ queue' = Tail(queue) /\ UNCHANGED <<done, ran, result, changed>>
      /\ (n \in done \/ n \in Missing) /\ result = "running"
  BY DEF Skip, Missing, Pop
<1>2. TypeOK'
  BY <1>1, PopFacts DEF IInv, TypeOK
<1>3. QueueInv'
  BY <1>1, PopFacts, RunnableStays DEF QueueInv
<1>4. ReachInv' /\ SoundInv'
  BY <1>1, PopFacts, RunnableStays DEF IInv, ReachInv, SoundInv
<1> QED BY <1>1, <1>2, <1>3, <1>4 DEF IInv

LEMMA RequeueStep == ASSUME IInv, NEW n \in Names, Requeue(n) PROVE IInv'
<1>1. Pop(n) /\ queue' = Append(Tail(queue), n) /\ UNCHANGED <<done, ran, result, changed>>
      /\ result = "running"
  BY DEF Requeue, Pop
<1>2. /\ queue' \in Seq(reachable)
      /\ IsInjective(queue')
      /\ Range(queue') = Range(queue)
  <2> DEFINE q == Tail(queue)
  <2>1. /\ q \in Seq(reachable) /\ IsInjective(q) /\ n \in reachable /\ n \notin Range(q)
        /\ Range(queue) = {n} \cup Range(q) /\ queue' = Append(q, n)
    BY <1>1, PopFacts
  <2> HIDE DEF q
  <2>2. /\ Append(q, n) \in Seq(reachable) /\ IsInjective(Append(q, n))
        /\ Range(Append(q, n)) = Range(q) \cup {n}
    BY <2>1, AppendFacts
  <2> QED BY <2>1, <2>2
<1>3. TypeOK'
  BY <1>1, <1>2, PopFacts DEF IInv, TypeOK
<1>4. QueueInv'
  BY <1>1, <1>2, PopFacts, RunnableStays DEF QueueInv
<1>5. ReachInv' /\ SoundInv'
  BY <1>1, PopFacts, RunnableStays DEF IInv, ReachInv, SoundInv
<1> QED BY <1>1, <1>3, <1>4, <1>5 DEF IInv

\* A node that may run produces.
LEMMA ProduceStep ==
  ASSUME IInv, NEW n \in Names, Pop(n), Pending(n), Produce(n),
         ran \subseteq ran', ran' \subseteq ran \cup {n}, changed' \subseteq ran'
  PROVE  IInv'
<1>0. TypeOK /\ ReachInv /\ SoundInv /\ result = "running" /\ result' = result
  BY DEF IInv, Pop, Produce
<1>1. n \in reachable /\ Targets(n) \subseteq reachable /\ reachable \subseteq Names
  BY <1>0, PopFacts, ReachFacts DEF TypeOK
<1>2. /\ queue' \in Seq(reachable)
      /\ Range(queue') = Range(Tail(queue)) \cup Targets(n)
      /\ IsInjective(queue')
  <2> DEFINE q == Tail(queue)
  <2>1. q \in Seq(reachable) /\ IsInjective(q) /\ queue' \in Enqueued(n, q)
    BY PopFacts DEF Produce
  <2> HIDE DEF q
  <2>2. /\ queue' \in Seq(reachable) /\ IsInjective(queue')
        /\ Range(queue') = Range(q) \cup Targets(n)
    BY <1>1, <2>1, EnqueuedFacts
  <2> QED BY <2>2 DEF q
<1>3. done' = done \cup {n} /\ n \in Runnable
  BY <1>0, <1>1, PendingIsRunnable DEF Produce
<1>4. TypeOK'
  BY <1>0, <1>1, <1>2, <1>3, PopFacts DEF TypeOK
<1>5. QueueInv'
  BY <1>2, <1>3, PopFacts, RunnableStays DEF QueueInv
<1>6. ReachInv' /\ SoundInv'
  BY <1>0, <1>3, PopFacts, RunnableStays DEF ReachInv, SoundInv
<1> QED BY <1>0, <1>4, <1>5, <1>6 DEF IInv

LEMMA PassDisabledStep == ASSUME IInv, NEW n \in Names, PassDisabled(n) PROVE IInv'
<1>1. changed \subseteq ran
  BY DEF IInv, TypeOK, PassDisabled, Pop
<1> QED BY <1>1, ProduceStep DEF PassDisabled

LEMMA ExecuteOkStep == ASSUME IInv, NEW n \in Names, ExecuteOk(n) PROVE IInv'
<1>1. changed \subseteq ran
  BY DEF IInv, TypeOK, ExecuteOk, Pop
<1>2. ran' = ran \cup {n} /\ changed' \subseteq changed \cup {n}
  BY DEF ExecuteOk, Called
<1> QED BY <1>1, <1>2, ProduceStep DEF ExecuteOk

\* A run that fails or is dropped looks at nothing any more.
LEMMA StopStep ==
  ASSUME IInv, NEW n \in Names, ExecuteErr(n) \/ Drop(n)
  PROVE  IInv'
<1>1. /\ Pop(n) /\ queue' = Tail(queue) /\ done' = done
      /\ result' \in {"failure", "dropped"}
      /\ ran' \in {ran, ran \cup {n}}
      /\ changed \subseteq ran
      /\ changed' \subseteq ran' \/ result' = "dropped"
      /\ changed' \subseteq changed \cup {n}
  BY DEF ExecuteErr, Drop, Called, Pop, IInv, TypeOK
<1>2. TypeOK'
  BY <1>1, PopFacts DEF IInv, TypeOK
<1>3. ReachInv' /\ SoundInv'
  BY <1>1, PopFacts, RunnableStays DEF IInv, ReachInv, SoundInv
<1> QED BY <1>1, <1>2, <1>3 DEF IInv

LEMMA FinishStep == ASSUME IInv, Finish PROVE IInv'
<1>1. done = Runnable
  BY EmptyQueueIsDone DEF IInv, Finish
<1>2. TypeOK'
  BY DEF IInv, TypeOK, Finish
<1>3. ReachInv' /\ SoundInv' /\ Runnable' = Runnable
  BY RunnableStays DEF IInv, ReachInv, SoundInv, Finish
<1> QED BY <1>1, <1>2, <1>3 DEF IInv, Finish

LEMMA OutOfStepsStep == ASSUME IInv, OutOfSteps PROVE IInv'
<1>1. queue \in Seq(reachable) /\ queue # <<>> /\ IsInjective(queue)
  BY DEF IInv, TypeOK, OutOfSteps
<1>2. Tail(queue) \in Seq(reachable) /\ IsInjective(Tail(queue))
  BY <1>1, TailFacts
<1>3. TypeOK'
  BY <1>2 DEF IInv, TypeOK, OutOfSteps
<1>4. ReachInv' /\ SoundInv'
  BY RunnableStays DEF IInv, ReachInv, SoundInv, OutOfSteps
<1>5. ~(steps' <= MaxSteps) /\ result' = "success"
  BY EngineAssumption DEF OutOfSteps, IInv, TypeOK
<1> QED BY <1>3, <1>4, <1>5 DEF IInv

LEMMA IInvStep == IInv /\ [Next]_vars => IInv'
<1> SUFFICES ASSUME IInv, [Next]_vars PROVE IInv'
  OBVIOUS
<1>1. ASSUME NEW n \in Names, Step(n) PROVE IInv'
  BY <1>1, SkipStep, RequeueStep, PassDisabledStep, ExecuteOkStep, StopStep DEF Step
<1>2. CASE Finish
  BY <1>2, FinishStep
<1>3. CASE OutOfSteps
  BY <1>3, OutOfStepsStep
<1>4. CASE UNCHANGED vars
  <2>1. UNCHANGED <<graph, reachable, done, queue, result, steps>>
    BY <1>4 DEF vars
  <2>2. TypeOK'
    BY <1>4 DEF vars, IInv, TypeOK
  <2>3. ReachInv' /\ SoundInv' /\ (QueueInv => QueueInv') /\ Runnable' = Runnable
    BY <2>1, RunnableStays DEF IInv, ReachInv, SoundInv, QueueInv
  <2> QED BY <2>1, <2>2, <2>3 DEF IInv
<1> QED BY <1>1, <1>2, <1>3, <1>4 DEF Next

LEMMA Invariance == Spec => []IInv
<1>1. Init => IInv
  BY IInvInit
<1>2. IInv /\ [Next]_vars => IInv'
  BY IInvStep
<1> QED BY <1>1, <1>2, PTL DEF Spec

\* Every variable of a run keeps its type, and the queue holds no name twice
\* (Engine::enqueue_targets).
THEOREM TypeCorrect == Spec => []TypeOK
<1>1. IInv => TypeOK
  BY DEF IInv
<1> QED BY <1>1, Invariance, PTL

\* On every graph, a run produces only at nodes whose needs have all produced,
\* and one that empties its queue has produced at all of those (Engine::run).
THEOREM QueueIsATopologicalSort == Spec => []RunsTheRunnable
<1>1. IInv => RunsTheRunnable
  BY DEF IInv, SoundInv, RunsTheRunnable
<1> QED BY <1>1, Invariance, PTL

LEMMA RehearsalStep == TypeOK /\ RehearsalIsHarmless /\ [Next]_vars => RehearsalIsHarmless'
<1> SUFFICES ASSUME TypeOK, RehearsalIsHarmless, [Next]_vars, shadow'
             PROVE  /\ changed' = {}
                    /\ result' = "failure" => \E n \in ran' \ done' : graph'.kind[n] = "read"
  BY DEF RehearsalIsHarmless
<1>1. ASSUME NEW n \in Names, Pop(n), Called(n) PROVE shadow /\ graph' = graph /\ changed' = {}
  BY <1>1 DEF Pop, Called, Held, RehearsalIsHarmless
<1>2. ASSUME NEW n \in Names, Pop(n), changed' = changed PROVE changed' = {}
  BY <1>2 DEF Pop, RehearsalIsHarmless
<1>3. ASSUME NEW n \in Names, Skip(n) \/ Requeue(n) \/ PassDisabled(n) \/ ExecuteOk(n) \/ Drop(n)
      PROVE  changed' = {} /\ result' # "failure"
  <2>1. CASE Skip(n) \/ Requeue(n)
    BY <1>2, <2>1 DEF Skip, Requeue, Pop
  <2>2. CASE PassDisabled(n) \/ ExecuteOk(n)
    BY <1>1, <1>2, <2>2 DEF PassDisabled, ExecuteOk, Produce, Pop
  <2>3. CASE Drop(n)
    BY <1>1, <2>3 DEF Drop
  <2> QED BY <1>3, <2>1, <2>2, <2>3
<1>4. ASSUME NEW n \in Names, ExecuteErr(n)
      PROVE  changed' = {} /\ n \in ran' \ done' /\ graph'.kind[n] = "read"
  <2>1. Pop(n) /\ Called(n) /\ Pending(n) /\ graph.kind[n] \in {"read", "write"} /\ ~Held(n)
    BY <1>4 DEF ExecuteErr
  <2>2. shadow /\ graph' = graph /\ changed' = {}
    BY <1>1, <2>1
  <2>3. n \in ran' \ done'
    BY <1>4, <2>1 DEF ExecuteErr, Pending
  <2> QED BY <2>1, <2>2, <2>3 DEF Held
<1>5. CASE Finish \/ OutOfSteps
  BY <1>5 DEF Finish, OutOfSteps, RehearsalIsHarmless
<1>6. CASE UNCHANGED vars
  BY <1>6 DEF vars, RehearsalIsHarmless
<1> QED BY <1>3, <1>4, <1>5, <1>6 DEF Next, Step

\* On every graph, a rehearsal changes nothing outside and is stopped by no node
\* that would (Mode::blocks, Engine::execute_node).
THEOREM RehearsalsAreHarmless == Spec => []RehearsalIsHarmless
<1>1. Init => RehearsalIsHarmless
  BY DEF Init, RehearsalIsHarmless
<1>2. TypeOK /\ RehearsalIsHarmless /\ [Next]_vars => RehearsalIsHarmless'
  BY RehearsalStep
<1> QED BY <1>1, <1>2, TypeCorrect, PTL DEF Spec

----------------------------------------------------------------------------
(* Rounds of the queue *)

\* The most names a queue holds, and the most steps a round of it takes.
Round == Cardinality(Names)

LEMMA RoundType == Round \in Nat
BY EngineAssumption, FS_CardinalityType DEF Round

LEMMA QueueIsShort ==
  ASSUME NEW S \in SUBSET Names, NEW q \in Seq(S), IsInjective(q)
  PROVE  Len(q) \in Nat /\ Len(q) <= Round
<1>1. Len(q) \in Nat /\ q \in [1..Len(q) -> Names]
  OBVIOUS
<1>2. q \in Injection(1..Len(q), Names)
  BY <1>1 DEF Injection, IsInjective
<1>3. Cardinality(1..Len(q)) = Len(q)
  BY <1>1, FS_Interval
<1> QED BY <1>1, <1>2, <1>3, EngineAssumption, FS_Injection DEF Round

\* From entry u + 1 on, the queue holds names that were put back since a node
\* last produced, so none of them may run.
TestedAfter(u) == \A i \in (u + 1)..Len(queue) : ~Pending(queue[i])

\* The steps taken so far and those left of the round are no more than a round
\* for each node that has produced, unless the round is over and nothing in the
\* queue may run.
RoundInv ==
  result = "running" =>
    \E u \in 0..Len(queue) :
      TestedAfter(u) /\ (u = 0 \/ steps + u <= Cardinality(done) * Round)

LEMMA DoneCount ==
  ASSUME TypeOK
  PROVE  /\ IsFiniteSet(done) /\ Cardinality(done) \in Nat
         /\ Cardinality(done) <= Round
<1>1. done \subseteq Names
  BY DEF TypeOK
<1> QED BY <1>1, EngineAssumption, FS_Subset, FS_CardinalityType DEF Round

\* A new round starts when a node has produced.
LEMMA NewRound ==
  ASSUME IInv, IInv', RoundInv, NEW n \in Names, Pop(n), Pending(n), Produce(n)
  PROVE  RoundInv'
<1>1. PICK u \in 0..Len(queue) :
        TestedAfter(u) /\ (u = 0 \/ steps + u <= Cardinality(done) * Round)
  BY DEF RoundInv, Pop
<1>2. queue \in Seq(reachable) /\ queue # <<>> /\ n = queue[1] /\ steps \in Nat /\ steps' = steps + 1
  BY DEF IInv, TypeOK, Pop
<1>3. u # 0
  BY <1>1, <1>2 DEF TestedAfter
<1>4. Len(queue') \in Nat /\ Len(queue') <= Round
  BY QueueIsShort DEF IInv, TypeOK
<1>5. Cardinality(done') = Cardinality(done) + 1 /\ Cardinality(done) \in Nat
  BY DoneCount, FS_AddElement DEF IInv, Produce, Pending
<1>6. (Cardinality(done) + 1) * Round = Cardinality(done) * Round + Round
  BY <1>5, RoundType
<1>7. Cardinality(done) * Round \in Nat
  BY <1>5, RoundType
<1>8. steps' + Len(queue') <= Cardinality(done') * Round
  <2> DEFINE all == Cardinality(done) * Round
  <2>1. steps + u <= all
    BY <1>1, <1>3
  <2> HIDE DEF all
  <2>2. steps + 1 + Len(queue') <= all + Round
    BY <1>2, <1>3, <1>4, <1>7, <2>1, RoundType DEF all
  <2> QED BY <1>2, <1>5, <1>6, <2>2 DEF all
<1>9. TestedAfter(Len(queue))'
  BY <1>4 DEF TestedAfter
<1> QED BY <1>4, <1>8, <1>9 DEF RoundInv

\* A name that is dropped from the queue, or put back at its end.
LEMMA SameRound ==
  ASSUME IInv, RoundInv, NEW n \in Names, Skip(n) \/ Requeue(n)
  PROVE  RoundInv'
<1>1. PICK u \in 0..Len(queue) :
        TestedAfter(u) /\ (u = 0 \/ steps + u <= Cardinality(done) * Round)
  BY DEF RoundInv, Skip, Requeue, Pop
<1>2. /\ queue \in Seq(reachable) /\ queue # <<>> /\ n = Head(queue)
      /\ steps \in Nat /\ steps' = steps + 1
      /\ UNCHANGED <<graph, reachable, done>>
      /\ \/ queue' = Tail(queue)
         \/ queue' = Append(Tail(queue), n) /\ ~Pending(n)
  BY DEF IInv, TypeOK, Skip, Requeue, Pop
<1>3. \A m : Pending(m)' <=> Pending(m)
  BY <1>2 DEF Pending, Awaited, Sources
<1> DEFINE v == IF u = 0 THEN 0 ELSE u - 1
<1>4. Len(queue) \in Nat /\ Len(queue) > 0 /\ u \in Nat
      /\ v \in Nat /\ u <= v + 1 /\ v <= Len(queue) - 1
  BY <1>2
<1>5. /\ Len(Tail(queue)) = Len(queue) - 1
      /\ \A i \in 1..(Len(queue) - 1) : Tail(queue)[i] = queue[i + 1]
  BY <1>2
<1>6. ASSUME NEW i \in (v + 1)..(Len(queue) - 1) PROVE ~Pending(Tail(queue)[i])
  <2>1. i \in 1..(Len(queue) - 1) /\ i + 1 \in (u + 1)..Len(queue)
    BY <1>4
  <2> QED BY <1>1, <1>5, <2>1 DEF TestedAfter
<1>7. /\ Len(queue') \in Nat /\ v \in 0..Len(queue')
      /\ \A i \in (v + 1)..Len(queue') : ~Pending(queue'[i])
  <2>1. CASE queue' = Tail(queue)
    <3>1. Len(queue') = Len(queue) - 1
      BY <1>5, <2>1
    <3> HIDE DEF v
    <3> QED BY <1>4, <1>6, <2>1, <3>1
  <2>2. CASE queue' = Append(Tail(queue), n) /\ ~Pending(n)
    <3>1. /\ Len(queue') = Len(queue) /\ queue'[Len(queue)] = n
          /\ \A i \in 1..(Len(queue) - 1) : queue'[i] = Tail(queue)[i]
      BY <1>2, <1>4, <2>2
    <3>2. ASSUME NEW i \in (v + 1)..Len(queue) PROVE ~Pending(queue'[i])
      <4>1. CASE i = Len(queue)
        BY <2>2, <3>1, <4>1
      <4>2. CASE i # Len(queue)
        <5>1. i \in (v + 1)..(Len(queue) - 1) /\ i \in 1..(Len(queue) - 1)
          BY <1>4, <4>2
        <5> QED BY <1>6, <3>1, <5>1
      <4> QED BY <4>1, <4>2
    <3> HIDE DEF v
    <3> QED BY <1>4, <3>1, <3>2
  <2> QED BY <1>2, <2>1, <2>2
<1>8. TestedAfter(v)'
  BY <1>3, <1>7 DEF TestedAfter
<1>9. v = 0 \/ steps' + v <= Cardinality(done') * Round
  BY <1>1, <1>2, <1>4
<1> HIDE DEF v
<1> QED BY <1>7, <1>8, <1>9 DEF RoundInv

LEMMA RoundInit == Init => RoundInv
<1> SUFFICES ASSUME Init PROVE RoundInv
  OBVIOUS
<1>1. TypeOK
  BY IInvInit DEF IInv
<1>2. Len(queue) \in Nat /\ Len(queue) <= Round
  BY <1>1, QueueIsShort DEF TypeOK
<1>3. Cardinality(done) = 1 /\ steps = 0
  BY FS_Singleton DEF Init
<1>4. TestedAfter(Len(queue))
  BY <1>2 DEF TestedAfter
<1> QED BY <1>2, <1>3, <1>4, RoundType DEF RoundInv

LEMMA RoundStep == IInv /\ IInv' /\ RoundInv /\ [Next]_vars => RoundInv'
<1> SUFFICES ASSUME IInv, IInv', RoundInv, [Next]_vars PROVE RoundInv'
  OBVIOUS
<1>1. ASSUME NEW n \in Names, Step(n) PROVE RoundInv'
  <2>1. CASE Skip(n) \/ Requeue(n)
    BY <2>1, SameRound
  <2>2. CASE PassDisabled(n) \/ ExecuteOk(n)
    BY <2>2, NewRound DEF PassDisabled, ExecuteOk
  <2>3. CASE ExecuteErr(n) \/ Drop(n)
    BY <2>3 DEF ExecuteErr, Drop, RoundInv
  <2> QED BY <1>1, <2>1, <2>2, <2>3 DEF Step
<1>2. CASE Finish \/ OutOfSteps
  BY <1>2 DEF Finish, OutOfSteps, RoundInv
<1>3. CASE UNCHANGED vars
  <2>1. UNCHANGED <<graph, reachable, done, queue, result, steps>>
    BY <1>3 DEF vars
  <2> QED BY <2>1 DEF RoundInv, TestedAfter, Pending, Awaited, Sources
<1> QED BY <1>1, <1>2, <1>3 DEF Next

----------------------------------------------------------------------------
(* The refinement *)

\* A round of the queue for each node is steps enough.
StepsEnough == MaxSteps >= Round * Round

\* A node that needs nothing more waits in the queue, and may run.
LEMMA ReadyWaits ==
  ASSUME IInv, QueueInv, NEW n \in Nodes \ done, Needs(n) \subseteq done
  PROVE  n \in Range(queue) /\ Pending(n)
<1>1. n \in reachable /\ n \notin Missing /\ n # Start
  BY DEF Nodes, Missing, IInv, SoundInv
<1>2. PICK k \in reachable : n \in Targets(k)
  BY <1>1, ReachFacts DEF IInv
<1>3. k \in done
  BY <1>2 DEF Needs, Targets
<1>4. n \in Range(queue)
  BY <1>1, <1>2, <1>3 DEF QueueInv
<1>5. Awaited(n) \subseteq done
  BY DEF Awaited, Sources, Needs
<1> QED BY <1>4, <1>5 DEF Pending, Nodes

\* With steps enough, a run cut off by the limit has nothing left that may run.
LEMMA CutOffIsDone ==
  ASSUME IInv, RoundInv, StepsEnough, OutOfSteps, NEW n \in Nodes \ done
  PROVE  ~(Needs(n) \subseteq done)
<1> SUFFICES ASSUME Needs(n) \subseteq done PROVE FALSE
  OBVIOUS
<1>1. QueueInv /\ queue \in Seq(reachable)
  BY DEF IInv, TypeOK, OutOfSteps
<1>2. PICK u \in 0..Len(queue) :
        TestedAfter(u) /\ (u = 0 \/ steps + u <= Cardinality(done) * Round)
  BY DEF RoundInv, OutOfSteps
<1>3. PICK i \in 1..Len(queue) : queue[i] = n
  BY <1>1, ReadyWaits DEF Range
<1>4. u # 0
  BY <1>1, <1>2, <1>3, ReadyWaits DEF TestedAfter
<1>5. Cardinality(done) * Round <= Round * Round
  BY DoneCount, RoundType DEF IInv
<1>6. Cardinality(done) * Round \in Nat /\ Round * Round \in Nat
  BY DoneCount, RoundType DEF IInv
<1>7. steps >= Round * Round /\ steps \in Nat
  BY <1>6, EngineAssumption DEF OutOfSteps, StepsEnough, IInv, TypeOK
<1> DEFINE d == Cardinality(done) * Round
           a == Round * Round
<1>8. steps + u <= d /\ d <= a /\ d \in Nat /\ a \in Nat /\ steps >= a /\ steps \in Nat
      /\ u \in Nat /\ u # 0
  BY <1>1, <1>2, <1>4, <1>5, <1>6, <1>7
<1> HIDE DEF d, a
<1> QED BY <1>8

\* The verdict of the run, as the refinement mapping of Run gives it.
Verdict == IF result \in {"failure", "dropped"} THEN "stopped" ELSE result
NeedsOf == [n \in Names |-> Needs(n)]

LEMMA DataflowInit == Init => Run!Init
<1> SUFFICES ASSUME Init PROVE Run!Init
  OBVIOUS
<1>1. IInv
  BY IInvInit
<1>2. NeedsOf \in [Names -> SUBSET Names]
  BY <1>1 DEF NeedsOf, Needs, IInv, TypeOK
<1>3. Nodes \in SUBSET Names /\ Start \in Nodes
  BY <1>1 DEF Nodes, IInv, TypeOK, SoundInv, Runnable
<1>4. done = {Start} /\ Verdict = "running"
  BY DEF Init, Verdict
<1> QED BY <1>2, <1>3, <1>4 DEF Run!Init, NeedsOf, Verdict

LEMMA DataflowStep ==
  ASSUME IInv, RoundInv, StepsEnough, [Next]_vars
  PROVE  Run!Next \/ UNCHANGED <<NeedsOf, Nodes, done, Verdict>>
<1>1. /\ UNCHANGED <<graph, reachable>> => UNCHANGED <<NeedsOf, Nodes>>
      /\ UNCHANGED <<graph, reachable>>
  BY DEF NeedsOf, Needs, Nodes, Next, Step, Skip, Requeue, PassDisabled, ExecuteOk,
         ExecuteErr, Drop, Finish, OutOfSteps, Pop, vars
<1>2. \A n \in Nodes : NeedsOf[n] = Needs(n)
  BY DEF NeedsOf, Nodes, IInv, TypeOK
<1>3. Run!Ready = {n \in Nodes \ done : NeedsOf[n] \subseteq done}
  BY DEF Run!Ready, NeedsOf
<1>4. ASSUME NEW n \in Names, Pop(n), Pending(n), Produce(n) PROVE Run!Produce
  <2>1. n \in Nodes \ done /\ Needs(n) \subseteq done
    BY <1>4, PopFacts DEF Nodes, Pending, Needs, Awaited, Sources, IInv, TypeOK
  <2>2. n \in Run!Ready
    BY <1>2, <1>3, <2>1
  <2>3. Verdict = "running" /\ Verdict' = "running" /\ done' = done \cup {n}
    BY <1>4 DEF Pop, Produce, Verdict
  <2> QED BY <1>1, <2>2, <2>3 DEF Run!Produce, NeedsOf, Verdict
<1>5. ASSUME NEW n \in Names, Skip(n) \/ Requeue(n)
      PROVE  UNCHANGED <<NeedsOf, Nodes, done, Verdict>>
  BY <1>1, <1>5 DEF Skip, Requeue, Verdict
<1>6. ASSUME NEW n \in Names, ExecuteErr(n) \/ Drop(n) PROVE Run!Stop
  BY <1>1, <1>6 DEF ExecuteErr, Drop, Pop, Run!Stop, NeedsOf
<1>7. CASE Finish \/ OutOfSteps
  <2>1. \A n \in Nodes \ done : ~(Needs(n) \subseteq done)
    <3>1. CASE Finish
      <4>1. QueueInv /\ Range(queue) = {}
        BY <3>1 DEF Finish, IInv, Range
      <4> QED BY <4>1, ReadyWaits
    <3> QED BY <1>7, <3>1, CutOffIsDone
  <2>2. Run!Ready = {}
    BY <1>2, <1>3, <2>1
  <2>3. result = "running" /\ result' = "success" /\ done' = done
    BY <1>7 DEF Finish, OutOfSteps
  <2> QED BY <1>1, <2>2, <2>3 DEF Run!Succeed, Run!Next, NeedsOf
<1>8. CASE UNCHANGED vars
  BY <1>1, <1>8 DEF vars, Verdict
<1> QED
  BY <1>4, <1>5, <1>6, <1>7, <1>8 DEF Next, Step, PassDisabled, ExecuteOk, Run!Next

LEMMA StepsImplementDataflow ==
  ASSUME StepsEnough
  PROVE  Init /\ [][Next]_vars => IsDataflow
<1>1. Init => IInv /\ RoundInv /\ Run!Init
  BY IInvInit, DataflowInit, RoundInit
<1>2. IInv /\ RoundInv /\ [Next]_vars =>
        [Run!Next]_<<NeedsOf, Nodes, done, Verdict>>
  BY DataflowStep
<1>3. IInv /\ RoundInv /\ [Next]_vars => IInv' /\ RoundInv'
  BY IInvStep, RoundStep
<1> QED BY <1>1, <1>2, <1>3, PTL DEF IsDataflow, Run!Spec, NeedsOf, Verdict

\* With a round of the queue for each node within the step limit, the queue
\* implements the run that needs none: a node produces once, after everything it
\* needs has, and a run that ends well leaves no node that could have produced,
\* the runs that the limit cuts off included (Engine::run, max_steps).
THEOREM QueueImplementsDataflow ==
  ASSUME StepsEnough
  PROVE  Spec => IsDataflow
BY StepsImplementDataflow, PTL DEF Spec

----------------------------------------------------------------------------
(* HostNodes implements Engine *)

\* The two ways an await ends an item.
LEMMA AnswerRefines ==
  ASSUME NEW n \in Names, NEW words, Answer(n, words)
  PROVE  ExecuteOk(n) \/ UNCHANGED vars
BY DEF Answer

LEMMA AwaitRefines ==
  ASSUME NEW n \in Names, Await(n)
  PROVE  ExecuteOk(n) \/ ExecuteErr(n) \/ Drop(n) \/ UNCHANGED vars
<1>1. CASE Unfit(n)
  BY <1>1 DEF Unfit, Fail
<1>2. CASE RunCommand(n)
  BY <1>2 DEF RunCommand, Fail, Waits
<1>3. CASE CommandEnds(n)
  BY <1>3, AnswerRefines DEF CommandEnds
<1>4. CASE CommandTimesOut(n)
  BY <1>4 DEF CommandTimesOut, Fail
<1>5. CASE SshExec(n)
  BY <1>5 DEF SshExec, Fail, Waits
<1>6. CASE SshStatus(n)
  BY <1>6 DEF SshStatus
<1>7. CASE SshCloses(n)
  BY <1>7, AnswerRefines DEF SshCloses
<1>8. CASE OpenFile(n)
  BY <1>8 DEF OpenFile, Fail, Waits
<1>9. CASE FileEnds(n)
  BY <1>9, AnswerRefines DEF FileEnds, Fail
<1>10. CASE SendRequest(n)
  BY <1>10 DEF SendRequest, Waits
<1>11. CASE RequestEnds(n)
  BY <1>11, AnswerRefines DEF RequestEnds, Fail
<1>12. CASE HostDrop(n)
  BY <1>12 DEF HostDrop
<1> QED BY <1>1, <1>2, <1>3, <1>4, <1>5, <1>6, <1>7, <1>8, <1>9, <1>10, <1>11, <1>12 DEF Await

LEMMA HostStepRefines == [HostNext]_allVars => [Next]_vars
<1> SUFFICES ASSUME [HostNext]_allVars PROVE [Next]_vars
  OBVIOUS
<1>1. ASSUME NEW n \in Names, Enter(n) PROVE UNCHANGED vars
  BY <1>1 DEF Enter
<1>2. ASSUME NEW n \in Names, Await(n) PROVE [Next]_vars
  BY <1>2, AwaitRefines DEF Next, Step
<1>3. ASSUME NEW n \in Names, PlainStep(n) PROVE [Next]_vars
  BY <1>3 DEF PlainStep, Next, Step
<1>4. CASE HostFinish
  BY <1>4 DEF HostFinish, Next
<1>5. ASSUME NEW n \in Names, NEW i \in Items, WorkEnds(n, i) PROVE UNCHANGED vars
  BY <1>5 DEF WorkEnds
<1>6. CASE UNCHANGED allVars
  BY <1>6 DEF allVars
<1> QED BY <1>1, <1>2, <1>3, <1>4, <1>5, <1>6 DEF HostNext, HostStep

LEMMA HostInitRefines == HostInit => Init
BY DEF HostInit

LEMMA EngineInvariance == HostSpec => []IInv
<1>1. HostInit => IInv
  BY HostInitRefines, IInvInit
<1>2. IInv /\ [HostNext]_allVars => IInv'
  BY HostStepRefines, IInvStep
<1> QED BY <1>1, <1>2, PTL DEF HostSpec

\* The engine with its host nodes, item by item, takes only the steps that the
\* engine takes of them in one: Engine's own safety carries over.
THEOREM HostImplementsEngine == HostSpec => Init /\ [][Next]_vars
<1>1. HostInit => Init
  BY HostInitRefines
<1>2. [HostNext]_allVars => [Next]_vars
  BY HostStepRefines
<1> QED BY <1>1, <1>2, PTL DEF HostSpec

\* Whatever the nodes do outside, with steps enough a run is one of the run that
\* needs no queue (Engine::run, max_steps).
THEOREM HostImplementsDataflow ==
  ASSUME StepsEnough
  PROVE  HostSpec => IsDataflow
BY StepsImplementDataflow, HostImplementsEngine, PTL

\* Whatever the nodes do outside, a run does no more than the graph lets it, and
\* one that empties its queue has done all of it (Engine::run).
THEOREM HostRunsTheRunnable == HostSpec => []RunsTheRunnable
<1>1. IInv => RunsTheRunnable
  BY DEF IInv, SoundInv, RunsTheRunnable
<1> QED BY <1>1, EngineInvariance, PTL

\* Whatever the nodes do outside, a rehearsal changes nothing, and no node that
\* would stops it (Engine::execute_node).
THEOREM HostRehearsalsAreHarmless == HostSpec => []RehearsalIsHarmless
<1>1. HostInit => RehearsalIsHarmless
  BY HostInitRefines DEF Init, RehearsalIsHarmless
<1>2. TypeOK /\ RehearsalIsHarmless /\ [HostNext]_allVars => RehearsalIsHarmless'
  BY HostStepRefines, RehearsalStep
<1>3. IInv => TypeOK
  BY DEF IInv
<1> QED BY <1>1, <1>2, <1>3, EngineInvariance, PTL DEF HostSpec

----------------------------------------------------------------------------
(* How many items a node is given *)

Counted(n) == {item \in Awaited(n) \X Items : item[2] <= count[item[1]]}

LEMMA GivenType ==
  ASSUME NEW n
  PROVE  Given(n) \in 0..MaxItems /\ Passes(n) \in 1..MaxItems
<1>1. MaxItems \in Nat \ {0}
  BY HostAssumption
<1>2. Awaited(n) \subseteq Names /\ IsFiniteSet(Names)
  BY EngineAssumption DEF Awaited, Sources
<1>3. IsFiniteSet(Awaited(n))
  BY <1>2, FS_Subset
<1>4. IsFiniteSet(Items)
  <2>1. 1 \in Int /\ MaxItems \in Int
    BY <1>1
  <2> QED BY <2>1, FS_Interval DEF Items
<1>5. IsFiniteSet(Awaited(n) \X Items)
  BY <1>3, <1>4, FS_Product
<1>6. Counted(n) \in SUBSET (Awaited(n) \X Items)
  BY DEF Counted
<1>7. IsFiniteSet(Counted(n))
  BY <1>5, <1>6, FS_Subset
<1>8. Cardinality(Counted(n)) \in Nat
  BY <1>7, FS_CardinalityType
<1>9. Given(n) = IF Cardinality(Counted(n)) > MaxItems THEN MaxItems
                ELSE Cardinality(Counted(n))
  BY DEF Given, Counted
<1> QED BY <1>1, <1>8, <1>9 DEF Passes

\* A node whose sources have produced is given the same items from then on.
LEMMA GivenStays ==
  ASSUME NEW n, Awaited(n)' = Awaited(n),
         \A k \in Awaited(n) : count'[k] = count[k]
  PROVE  Given(n)' = Given(n) /\ Passes(n)' = Passes(n)
<1>1. Counted(n)' = Counted(n)
  <2>1. \A item \in Awaited(n) \X Items : count'[item[1]] = count[item[1]]
    OBVIOUS
  <2>2. Counted(n)' = {item \in Awaited(n) \X Items : item[2] <= count'[item[1]]}
    BY DEF Counted, Items
  <2> QED BY <2>1, <2>2 DEF Counted
<1>2. Given(n)' = Given(n)
  BY <1>1 DEF Given, Counted
<1> QED BY <1>2 DEF Passes

----------------------------------------------------------------------------
(* What a step leaves alone *)

\* What a run never changes, and what follows from it for each node.
Fixed == <<graph, shadow, reachable, executor, policy>>

LEMMA FixedFacts ==
  ASSUME NEW n, UNCHANGED Fixed
  PROVE  /\ Awaited(n)' = Awaited(n) /\ Needs(n)' = Needs(n)
         /\ Acts(n)' = Acts(n) /\ Loops(n)' = Loops(n) /\ Permitted(n)' = Permitted(n)
<1>1. /\ graph' = graph /\ shadow' = shadow /\ reachable' = reachable
      /\ executor' = executor /\ policy' = policy
  BY DEF Fixed
<1> QED BY <1>1 DEF Awaited, Sources, Needs, Acts, Loops, Held, Permitted

\* The engine's part of a step.
LEMMA EngineSteps ==
  ASSUME NEW n \in Names, ExecuteOk(n) \/ ExecuteErr(n) \/ Drop(n)
  PROVE  /\ UNCHANGED <<graph, shadow, reachable>> /\ result = "running"
         /\ n \notin done /\ Awaited(n) \subseteq done
         /\ ExecuteOk(n) => done' = done \cup {n} /\ result' = "running"
         /\ ExecuteErr(n) => done' = done /\ result' = "failure"
         /\ Drop(n) => done' = done /\ result' = "dropped"
BY DEF ExecuteOk, ExecuteErr, Drop, Pop, Pending, Produce

----------------------------------------------------------------------------
(* The inductive invariant *)

\* The kinds of the graph are those of the executors.
CaseInv ==
  \A n \in Names : graph.kind[n] \in {"read", "write"} => graph.kind[n] = Effect(executor[n])

\* What has produced, produced after its sources.
DoneInv == \A n \in done \ {Start} : Awaited(n) \subseteq done

\* The await of n's executor at item i: the items before it have answered, and
\* nothing was begun for those after it.
AwaitOf(n, i) ==
  /\ at.phase \in {"prepare", "wait"}
  /\ result = "running"
  /\ n \notin done /\ Awaited(n) \subseteq done
  /\ Loops(n)
  /\ i \in 1..Passes(n)
  /\ \A j \in Items : j < i => said[n][j] # "nothing"
  /\ \A j \in Items : j >= i => said[n][j] = "nothing"
  /\ \A j \in Items : j > i => work[n][j] = "none"
  /\ at.phase = "prepare" => work[n][i] = "none" /\ ~at.code
  /\ at.phase = "wait" => /\ Permitted(n)
                          /\ at.code => work[n][i] = "ended"
                          /\ executor[n] = "writeFile" => work[n][i] # "none"

AwaitInv == at = Idle \/ AwaitOf(at.node, at.item)

\* Work under way is awaited, or the run ended at it, or its answer leaves open
\* whether it ended.
Covered(n, i) ==
  \/ at.node = n /\ at.item = i /\ at.phase = "wait"
  \/ n \notin done /\ result \in {"failure", "dropped"}
     /\ why \in {"timeout", "lost", "dropped"}
  \/ MayGoOn(n, i)

\* Work that was begun was for a node that changes something, that was let to,
\* and for an item whose turn it was.
BegunInv(n, i) ==
  work[n][i] # "none" =>
    /\ Acts(n) /\ Loops(n) /\ Permitted(n)
    /\ Awaited(n) \subseteq done
    /\ i <= Passes(n)
    /\ \A j \in 1..(i - 1) : said[n][j] # "nothing"
    /\ n \in done => said[n][i] # "nothing"
    /\ work[n][i] = "begun" => Covered(n, i)

SaidInv(n, i) ==
  /\ said[n][i] \in {"code", "body"} /\ Acts(n) =>
       work[n][i] = "ended" \/ executor[n] = "httpPost"
  /\ n \in done \ {Start} /\ Loops(n) /\ i <= Passes(n) => said[n][i] # "nothing"

\* Nothing was done or said for a node whose turn has not come.
FreshInv(n, i) ==
  result = "running" /\ n \notin done /\ (at = Idle \/ at.node # n)
    => work[n][i] = "none" /\ said[n][i] = "nothing"

ItemInv(n, i) == BegunInv(n, i) /\ SaidInv(n, i) /\ FreshInv(n, i)

TouchInv == \A path \in touched : Inside(path, policy.roots)

HInv ==
  /\ HostTypeOK /\ CaseInv /\ DoneInv /\ AwaitInv /\ TouchInv
  /\ Start \in done
  /\ \A n \in Names : \A i \in Items : ItemInv(n, i)

\* What the invariant says of a node that acts: it changes something, and is not
\* rehearsed.
LEMMA ActsForReal ==
  ASSUME HInv, NEW n \in Names, Acts(n), Loops(n)
  PROVE  ~shadow
<1>1. graph.kind[n] = "write"
  BY DEF HInv, CaseInv, Loops, Acts, Effect
<1> QED BY <1>1 DEF Loops, Held

LEMMA HInvTranscript == ASSUME TypeOK, HInv PROVE TranscriptIsTrue
<1> SUFFICES ASSUME NEW n \in Names, NEW i \in Items
             PROVE  /\ work[n][i] # "none" =>
                         /\ Needs(n) \subseteq done
                         /\ i <= Passes(n)
                         /\ \A j \in 1..(i - 1) : said[n][j] # "nothing"
                         /\ n \in done => said[n][i] # "nothing"
                    /\ said[n][i] \in {"code", "body"} /\ Acts(n) =>
                         work[n][i] = "ended" \/ executor[n] = "httpPost"
                    /\ n \in done \ {Start} /\ Loops(n) /\ i <= Passes(n)
                         => said[n][i] # "nothing"
  BY DEF TranscriptIsTrue
<1>1. BegunInv(n, i) /\ SaidInv(n, i)
  BY DEF HInv, ItemInv
<1>2. Needs(n) \subseteq Awaited(n)
  BY SMT DEF Needs, Awaited, Sources, TypeOK
<1> QED BY <1>1, <1>2 DEF BegunInv, SaidInv

LEMMA HInvNothingBehind == ASSUME HInv PROVE NothingBehindTheRun
<1>1. ASSUME NEW n \in Names, NEW i \in Items, work[n][i] # "none"
      PROVE  /\ Permitted(n) /\ ~shadow
             /\ work[n][i] = "begun" => Covered(n, i)
  <2>1. BegunInv(n, i)
    BY DEF HInv, ItemInv
  <2> QED BY <1>1, <2>1, ActsForReal DEF BegunInv
<1>2. TouchInv
  BY DEF HInv
<1> QED BY <1>1, <1>2 DEF NothingBehindTheRun, Covered, TouchInv

----------------------------------------------------------------------------
(* Steps *)

LEMMA HInvInit == HostInit => HInv
<1> SUFFICES ASSUME HostInit PROVE HInv
  OBVIOUS
<1>0. MaxItems \in Nat \ {0}
  BY HostAssumption
<1>1. PICK c \in Cases : graph = c.graph /\ executor = c.executor
  BY DEF HostInit
<1>2. executor \in [Names -> Registered] /\ CaseInv
  BY <1>1, HostAssumption DEF CaseInv
<1>3. PICK k \in Items : count = [n \in Names |-> IF n = Start THEN k ELSE 0]
  BY DEF HostInit
<1>4. count \in [Names -> 0..MaxItems]
  BY <1>0, <1>3 DEF Items
<1>5. HostTypeOK
  BY <1>0, <1>2, <1>4, EngineAssumption DEF HostInit, HostTypeOK, Idle
<1>6. done = {Start} /\ at = Idle /\ touched = {}
  BY DEF HostInit, Init
<1>7. \A n \in Names : \A i \in Items : work[n][i] = "none" /\ said[n][i] = "nothing"
  BY DEF HostInit
<1>8. ASSUME NEW n \in Names, NEW i \in Items PROVE ItemInv(n, i)
  BY <1>6, <1>7 DEF ItemInv, BegunInv, SaidInv, FreshInv
<1> QED BY <1>2, <1>5, <1>6, <1>8 DEF HInv, DoneInv, AwaitInv, TouchInv

\* As long as nothing is produced, every node is given what it was.
LEMMA PassesStay ==
  ASSUME NEW n, UNCHANGED Fixed, UNCHANGED count
  PROVE  Given(n)' = Given(n) /\ Passes(n)' = Passes(n)
BY FixedFacts, GivenStays

\* The node at the await, and the item.
LEMMA AtFacts ==
  ASSUME HInv, at.phase \in {"prepare", "wait"}
  PROVE  /\ at.node \in Names /\ at.item \in Items /\ at # Idle
         /\ AwaitOf(at.node, at.item)
         /\ at.code \in BOOLEAN
<1>1. at # Idle
  BY DEF Idle
<1>2. AwaitOf(at.node, at.item)
  BY <1>1 DEF HInv, AwaitInv
<1>3. at.item \in Items
  BY <1>2, GivenType, HostAssumption DEF AwaitOf, Items
<1> QED BY <1>1, <1>2, <1>3 DEF HInv, HostTypeOK

\* The invariant of an item that the step leaves alone.
LEMMA Frame ==
  ASSUME HInv, UNCHANGED Fixed, NEW m \in Names, NEW j \in Items,
         Awaited(m) \subseteq done => Passes(m)' = Passes(m),
         work'[m][j] = work[m][j],
         \A k \in Items : k <= j => said'[m][k] = said[m][k],
         done \subseteq done', m \in done' => m \in done,
         Covered(m, j) => Covered(m, j)',
         result' = "running" /\ (at' = Idle \/ at'.node # m)
           => result = "running" /\ (at = Idle \/ at.node # m)
  PROVE  ItemInv(m, j)'
<1>1. ItemInv(m, j)
  BY DEF HInv
<1>2. /\ Awaited(m)' = Awaited(m) /\ Acts(m)' = Acts(m) /\ Loops(m)' = Loops(m)
      /\ Permitted(m)' = Permitted(m)
  BY FixedFacts
<1>3. /\ j \in Int /\ j >= 1 /\ \A k \in 1..(j - 1) : k \in Items /\ k <= j
  BY HostAssumption DEF Items
<1>4. said'[m][j] = said[m][j] /\ \A k \in 1..(j - 1) : said'[m][k] = said[m][k]
  BY <1>3
<1>5. BegunInv(m, j)'
  <2> SUFFICES ASSUME work'[m][j] # "none"
      PROVE /\ Acts(m)' /\ Loops(m)' /\ Permitted(m)'
            /\ Awaited(m)' \subseteq done'
            /\ j <= Passes(m)'
            /\ \A k \in 1..(j - 1) : said'[m][k] # "nothing"
            /\ m \in done' => said'[m][j] # "nothing"
            /\ work'[m][j] = "begun" => Covered(m, j)'
    BY DEF BegunInv, Items
  <2>1. /\ Acts(m) /\ Loops(m) /\ Permitted(m)
        /\ Awaited(m) \subseteq done
        /\ j <= Passes(m)
        /\ \A k \in 1..(j - 1) : said[m][k] # "nothing"
        /\ m \in done => said[m][j] # "nothing"
        /\ work[m][j] = "begun" => Covered(m, j)
    BY <1>1 DEF ItemInv, BegunInv
  <2> QED BY <1>2, <1>4, <2>1
<1>6. SaidInv(m, j)'
  <2>1. m \in done \ {Start} => Awaited(m) \subseteq done
    BY DEF HInv, DoneInv
  <2> QED BY <1>1, <1>2, <1>4, <2>1 DEF ItemInv, SaidInv, Fixed
<1>7. FreshInv(m, j)'
  BY <1>1, <1>4 DEF ItemInv, FreshInv
<1> QED BY <1>5, <1>6, <1>7 DEF ItemInv

LEMMA HInvNext ==
  ASSUME HostTypeOK', CaseInv' /\ DoneInv' /\ TouchInv' /\ (Start \in done)', AwaitInv',
         \A m \in Names : \A j \in Items : ItemInv(m, j)'
  PROVE  HInv'
BY DEF HInv, Items

LEMMA EnterStep == ASSUME HInv, NEW n \in Names, Enter(n) PROVE HInv'
<1>1. /\ UNCHANGED <<vars, executor, policy, count, work, said, why, touched>>
      /\ at = Idle /\ result = "running" /\ Pending(n) /\ Loops(n)
      /\ at' = [node |-> n, item |-> 1, phase |-> "prepare", code |-> FALSE]
  BY DEF Enter
<1>2. UNCHANGED <<graph, shadow, reachable, done, result>> /\ UNCHANGED Fixed
  BY <1>1 DEF vars, Fixed
<1>3. \A m : /\ Awaited(m)' = Awaited(m) /\ Acts(m)' = Acts(m) /\ Loops(m)' = Loops(m)
             /\ Permitted(m)' = Permitted(m) /\ Passes(m)' = Passes(m)
  BY <1>1, <1>2, FixedFacts, PassesStay
<1>4. MaxItems \in Nat /\ 1 \in Items
  BY HostAssumption DEF Items
<1>5. HostTypeOK'
  BY <1>1, <1>2, <1>4 DEF HInv, HostTypeOK, Items
<1>6. AwaitOf(n, 1)'
  <2>1. n \notin done /\ Awaited(n) \subseteq done
    BY <1>1 DEF Pending
  <2>2. \A j \in Items : work[n][j] = "none" /\ said[n][j] = "nothing"
    BY <1>1, <2>1 DEF HInv, ItemInv, FreshInv
  <2>3. 1 \in 1..Passes(n) /\ \A j \in Items : ~(j < 1)
    BY GivenType, <1>4 DEF Items
  <2>4. at'.phase = "prepare" /\ ~at'.code
    BY <1>1
  <2>5. \A j \in Items : work'[n][j] = "none" /\ said'[n][j] = "nothing"
    BY <1>1, <2>2
  <2>6. n \notin done' /\ Awaited(n)' \subseteq done' /\ Loops(n)' /\ 1 \in 1..Passes(n)'
        /\ result' = "running"
    BY <1>1, <1>2, <1>3, <2>1, <2>3
  <2>7. Items' = Items
    BY DEF Items
  <2> QED BY <1>4, <2>3, <2>4, <2>5, <2>6, <2>7 DEF AwaitOf
<1>7. ASSUME NEW m \in Names, NEW i \in Items PROVE ItemInv(m, i)'
  <2>1. Covered(m, i) => Covered(m, i)'
    BY <1>1, <1>2 DEF Covered, MayGoOn, Idle
  <2> QED BY <1>1, <1>2, <1>3, <2>1, Frame
<1>8. CaseInv' /\ DoneInv' /\ TouchInv' /\ (Start \in done)'
  BY <1>1, <1>2, <1>3 DEF HInv, CaseInv, DoneInv, TouchInv, Inside
<1> QED BY <1>1, <1>5, <1>6, <1>7, <1>8 DEF HInv, AwaitInv, Items

\* The await at item i as the step finds it.
LEMMA AwaitFound ==
  ASSUME HInv, NEW n \in Names, NEW i \in Items, at.node = n, at.item = i,
         at.phase \in {"prepare", "wait"}
  PROVE  /\ AwaitOf(n, i) /\ at # Idle
         /\ n \notin done /\ Awaited(n) \subseteq done /\ Loops(n) /\ i <= Passes(n)
         /\ i \in Int /\ i >= 1
         /\ said[n][i] = "nothing"
         /\ \A k \in 1..(i - 1) : k \in Items /\ k < i /\ said[n][k] # "nothing"
         /\ at.phase = "prepare" => work[n][i] = "none" /\ ~at.code
         /\ at.phase = "wait" => Permitted(n)
<1>1. AwaitOf(n, i) /\ at # Idle
  BY AtFacts
<1>2. i \in Int /\ i >= 1 /\ \A k \in 1..(i - 1) : k \in Items /\ k < i
  BY HostAssumption DEF Items
<1>3. i <= Passes(n)
  BY <1>1, GivenType DEF AwaitOf
<1>4. said[n][i] = "nothing"
  BY <1>1, <1>2 DEF AwaitOf
<1> QED BY <1>1, <1>2, <1>3, <1>4 DEF AwaitOf

\* An item is prepared and its work begins, or is only waited for.
LEMMA WaitsStep ==
  ASSUME HInv, NEW n \in Names, NEW i \in Items, i = at.item, Preparing(n), Permitted(n),
         NEW begun \in {"none", "begun"}, Waits(n, begun),
         begun = "begun" => Acts(n), executor[n] = "writeFile" => begun = "begun",
         \A path \in touched' : path \in touched \/ (path \in Paths /\ Inside(path, policy.roots))
  PROVE  HInv'
<1>1. at.node = n /\ at.item = i /\ at.phase = "prepare"
  BY DEF Preparing
<1>2. /\ UNCHANGED <<vars, executor, policy, count, said, why>>
      /\ at' = [at EXCEPT !.phase = "wait"]
      /\ work' = [work EXCEPT ![n][i] = begun]
  BY DEF Waits
<1>3. UNCHANGED <<graph, shadow, reachable, done, result>> /\ UNCHANGED Fixed
  BY <1>2 DEF vars, Fixed
<1>4. \A m : /\ Awaited(m)' = Awaited(m) /\ Acts(m)' = Acts(m) /\ Loops(m)' = Loops(m)
             /\ Permitted(m)' = Permitted(m) /\ Passes(m)' = Passes(m)
  BY <1>2, <1>3, FixedFacts, PassesStay
<1>5. at'.node = n /\ at'.item = i /\ at'.phase = "wait" /\ at'.code = at.code
  BY <1>1, <1>2 DEF HInv, HostTypeOK
<1>6. work \in [Names -> [Items -> {"none", "begun", "ended"}]]
  BY DEF HInv, HostTypeOK
<1>7. \A m \in Names : \A j \in Items :
        work'[m][j] = IF m = n /\ j = i THEN begun ELSE work[m][j]
  BY <1>2, <1>6
<1>8. HostTypeOK'
  <2>1. work' \in [Names -> [Items -> {"none", "begun", "ended"}]]
    BY <1>2, <1>6
  <2>2. at' \in [node : Names, item : 0..MaxItems, phase : {"idle", "prepare", "wait"},
                 code : BOOLEAN]
    BY <1>2 DEF HInv, HostTypeOK
  <2> QED BY <1>2, <2>1, <2>2 DEF HInv, HostTypeOK, Items
<1>9. AwaitOf(n, i)'
  <2>1. AwaitOf(n, i) /\ i \in Int
    BY <1>1, AwaitFound
  <2>2. \A j \in Items : j > i => work'[n][j] = work[n][j]
    BY <1>7, <2>1 DEF Items
  <2>3. ~at'.code
    BY <1>1, <1>5, <2>1 DEF AwaitOf
  <2>4. executor'[n] = "writeFile" => work'[n][i] # "none"
    BY <1>2, <1>7
  <2>5. Items' = Items
    BY DEF Items
  <2> QED BY <1>2, <1>3, <1>4, <1>5, <2>1, <2>2, <2>3, <2>4, <2>5 DEF AwaitOf
<1>10. ASSUME NEW m \in Names, NEW j \in Items PROVE ItemInv(m, j)'
  <2>1. CASE m = n /\ j = i
    <3>1. /\ n \notin done /\ Awaited(n) \subseteq done /\ Loops(n) /\ i <= Passes(n)
          /\ said[n][i] = "nothing"
          /\ \A k \in 1..(i - 1) : k \in Items /\ k < i /\ said[n][k] # "nothing"
      BY <1>1, AwaitFound
    <3>2. Covered(n, i)'
      BY <1>5 DEF Covered, MayGoOn
    <3>3. work'[n][i] = begun
      BY <1>7
    <3>4. BegunInv(n, i)'
      BY <1>2, <1>3, <1>4, <3>1, <3>2, <3>3 DEF BegunInv
    <3>5. SaidInv(n, i)'
      BY <1>2, <1>3, <3>1 DEF SaidInv
    <3>6. FreshInv(n, i)'
      BY <1>5 DEF FreshInv, Idle
    <3> QED BY <2>1, <3>4, <3>5, <3>6 DEF ItemInv
  <2>2. CASE ~(m = n /\ j = i)
    <3>1. work'[m][j] = work[m][j]
      BY <1>7, <2>2
    <3>2. Covered(m, j) => Covered(m, j)'
      BY <1>1, <1>2, <1>3, <1>5, <2>2 DEF Covered, MayGoOn
    <3>3. at # Idle /\ at' # Idle
      BY <1>1, <1>5 DEF Idle
    <3> QED BY <1>1, <1>2, <1>3, <1>4, <1>5, <3>1, <3>2, <3>3, Frame
  <2> QED BY <2>1, <2>2
<1>11. CaseInv' /\ DoneInv' /\ TouchInv' /\ (Start \in done)'
  BY <1>2, <1>3, <1>4 DEF HInv, CaseInv, DoneInv, TouchInv, Inside
<1> QED BY <1>5, <1>8, <1>9, <1>10, <1>11 DEF HInv, AwaitInv, Items

\* The exit code of the ssh item has come.
LEMMA SshStatusStep == ASSUME HInv, NEW n \in Names, SshStatus(n) PROVE HInv'
<1>1. /\ at.node = n /\ at.phase = "wait" /\ executor[n] = "ssh" /\ work[n][at.item] = "ended"
      /\ at' = [at EXCEPT !.code = TRUE]
      /\ UNCHANGED <<vars, executor, policy, count, work, said, why, touched>>
  BY DEF SshStatus, Waiting, WorkOf
<1>2. UNCHANGED <<graph, shadow, reachable, done, result>> /\ UNCHANGED Fixed
  BY <1>1 DEF vars, Fixed
<1>3. \A m : /\ Awaited(m)' = Awaited(m) /\ Acts(m)' = Acts(m) /\ Loops(m)' = Loops(m)
             /\ Permitted(m)' = Permitted(m) /\ Passes(m)' = Passes(m)
  BY <1>1, <1>2, FixedFacts, PassesStay
<1>4. at'.node = n /\ at'.item = at.item /\ at'.phase = "wait"
  BY <1>1 DEF HInv, HostTypeOK
<1>5. HostTypeOK'
  <2>1. at' \in [node : Names, item : 0..MaxItems, phase : {"idle", "prepare", "wait"},
                 code : BOOLEAN]
    BY <1>1 DEF HInv, HostTypeOK
  <2> QED BY <1>1, <2>1 DEF HInv, HostTypeOK, Items
<1>6. AwaitOf(at.node, at.item)
  BY <1>1, AtFacts
<1>7. AwaitInv'
  <2>1. Items' = Items
    BY DEF Items
  <2>2. at'.node = at.node /\ at'.item = at.item /\ at'.phase = "wait" /\ at.node = n
    BY <1>1, <1>4
  <2>3. AwaitOf(at.node, at.item)'
    BY <1>1, <1>2, <1>3, <1>6, <2>1, <2>2 DEF AwaitOf
  <2> QED BY <2>3 DEF AwaitInv
<1>8. ASSUME NEW m \in Names, NEW j \in Items PROVE ItemInv(m, j)'
  <2>1. Covered(m, j) => Covered(m, j)'
    BY <1>1, <1>2, <1>4 DEF Covered, MayGoOn
  <2>2. at # Idle /\ at' # Idle
    BY <1>1, <1>4 DEF Idle
  <2> QED BY <1>1, <1>2, <1>3, <1>4, <2>1, <2>2, Frame
<1>9. CaseInv' /\ DoneInv' /\ TouchInv' /\ (Start \in done)'
  BY <1>1, <1>2, <1>3 DEF HInv, CaseInv, DoneInv, TouchInv, Inside
<1> QED BY <1>5, <1>7, <1>8, <1>9, HInvNext

\* Work begun outside ends there.
LEMMA WorkEndsStep ==
  ASSUME HInv, NEW n \in Names, NEW i \in Items, WorkEnds(n, i) PROVE HInv'
<1>1. /\ work[n][i] = "begun" /\ work' = [work EXCEPT ![n][i] = "ended"]
      /\ UNCHANGED <<vars, executor, policy, count, at, said, why, touched>>
  BY DEF WorkEnds
<1>2. UNCHANGED <<graph, shadow, reachable, done, result>> /\ UNCHANGED Fixed
  BY <1>1 DEF vars, Fixed
<1>3. \A m : /\ Awaited(m)' = Awaited(m) /\ Acts(m)' = Acts(m) /\ Loops(m)' = Loops(m)
             /\ Permitted(m)' = Permitted(m) /\ Passes(m)' = Passes(m)
  BY <1>1, <1>2, FixedFacts, PassesStay
<1>4. work \in [Names -> [Items -> {"none", "begun", "ended"}]]
  BY DEF HInv, HostTypeOK
<1>5. \A m \in Names : \A j \in Items :
        work'[m][j] = IF m = n /\ j = i THEN "ended" ELSE work[m][j]
  BY <1>1, <1>4
<1>6. HostTypeOK'
  <2>1. work' \in [Names -> [Items -> {"none", "begun", "ended"}]]
    BY <1>1, <1>4
  <2> QED BY <1>1, <2>1 DEF HInv, HostTypeOK, Items
<1>7. \A m \in Names : \A j \in Items :
        /\ work'[m][j] = "none" <=> work[m][j] = "none"
        /\ work[m][j] = "ended" => work'[m][j] = "ended"
  BY <1>1, <1>5
<1>8. AwaitInv'
  <2>1. CASE at = Idle
    BY <1>1, <2>1 DEF AwaitInv, Idle
  <2>2. CASE at # Idle
    <3>1. AwaitOf(at.node, at.item) /\ at.phase \in {"prepare", "wait"}
      BY <2>2 DEF HInv, AwaitInv, AwaitOf
    <3>2. at.node \in Names /\ at.item \in Items
      BY <3>1, AtFacts
    <3>3. Items' = Items
      BY DEF Items
    <3>4. AwaitOf(at.node, at.item)'
      BY <1>1, <1>2, <1>3, <1>7, <3>1, <3>2, <3>3 DEF AwaitOf
    <3> QED BY <3>4 DEF AwaitInv
  <2> QED BY <2>1, <2>2
<1>9. ASSUME NEW m \in Names, NEW j \in Items PROVE ItemInv(m, j)'
  <2>1. Covered(m, j) => Covered(m, j)'
    BY <1>1, <1>2 DEF Covered, MayGoOn
  <2>2. CASE m = n /\ j = i
    <3>1. ItemInv(n, i)
      BY DEF HInv
    <3>2. work'[n][i] = "ended"
      BY <1>5
    <3>3. BegunInv(n, i)'
      BY <1>1, <1>2, <1>3, <3>1, <3>2 DEF ItemInv, BegunInv
    <3>4. SaidInv(n, i)'
      BY <1>1, <1>2, <1>3, <3>1, <3>2 DEF ItemInv, SaidInv
    <3>5. FreshInv(n, i)'
      BY <1>1, <1>2, <3>1 DEF ItemInv, FreshInv, Idle
    <3> QED BY <2>2, <3>3, <3>4, <3>5 DEF ItemInv
  <2>3. CASE ~(m = n /\ j = i)
    <3>1. work'[m][j] = work[m][j]
      BY <1>5, <2>3
    <3>2. at' = Idle <=> at = Idle
      BY <1>1 DEF Idle
    <3> QED BY <1>1, <1>2, <1>3, <2>1, <3>1, <3>2, Frame
  <2> QED BY <2>2, <2>3
<1>10. CaseInv' /\ DoneInv' /\ TouchInv' /\ (Start \in done)'
  BY <1>1, <1>2, <1>3 DEF HInv, CaseInv, DoneInv, TouchInv, Inside
<1> QED BY <1>6, <1>8, <1>9, <1>10, HInvNext

\* The node ends at an item, failed or dropped.
LEMMA StoppedStep ==
  ASSUME HInv, NEW n \in Names, NEW i \in Items, i = at.item, n = at.node,
         at.phase \in {"prepare", "wait"}, ExecuteErr(n) \/ Drop(n),
         NEW reason \in {"parameter", "refused", "timeout", "lost", "io", "dropped"},
         work[n][i] = "begun" => reason \in {"timeout", "lost", "dropped"},
         at' = Idle, why' = reason,
         UNCHANGED <<executor, policy, count, work, said, touched>>
  PROVE  HInv'
<1>1. /\ UNCHANGED <<graph, shadow, reachable>> /\ result = "running" /\ done' = done
      /\ result' \in {"failure", "dropped"}
  BY EngineSteps
<1>2. UNCHANGED Fixed
  BY <1>1 DEF Fixed
<1>3. \A m : /\ Awaited(m)' = Awaited(m) /\ Acts(m)' = Acts(m) /\ Loops(m)' = Loops(m)
             /\ Permitted(m)' = Permitted(m) /\ Passes(m)' = Passes(m)
  BY <1>2, FixedFacts, PassesStay
<1>4. HostTypeOK'
  <2>1. Idle \in [node : Names, item : 0..MaxItems, phase : {"idle", "prepare", "wait"},
                  code : BOOLEAN]
    BY EngineAssumption, HostAssumption DEF Idle
  <2> QED BY <2>1 DEF HInv, HostTypeOK, Items
<1>5. ASSUME NEW m \in Names, NEW j \in Items PROVE ItemInv(m, j)'
  <2>1. CASE m = n /\ j = i /\ work[n][i] = "begun"
    <3>1. ItemInv(n, i) /\ n \notin done
      BY AwaitFound DEF HInv
    <3>2. Covered(n, i)'
      BY <1>1, <2>1, <3>1 DEF Covered, MayGoOn
    <3>3. BegunInv(n, i)'
      BY <1>1, <1>3, <3>1, <3>2 DEF ItemInv, BegunInv
    <3>4. SaidInv(n, i)'
      BY <1>1, <1>3, <3>1 DEF ItemInv, SaidInv
    <3>5. FreshInv(n, i)'
      BY <1>1 DEF FreshInv
    <3> QED BY <2>1, <3>3, <3>4, <3>5 DEF ItemInv
  <2>2. CASE m = n /\ j = i /\ work[n][i] # "begun"
    <3>1. ItemInv(n, i)
      BY DEF HInv
    <3>2. BegunInv(n, i)'
      BY <1>1, <1>3, <2>2, <3>1 DEF ItemInv, BegunInv
    <3>3. SaidInv(n, i)'
      BY <1>1, <1>3, <3>1 DEF ItemInv, SaidInv
    <3>4. FreshInv(n, i)'
      BY <1>1 DEF FreshInv
    <3> QED BY <2>2, <3>2, <3>3, <3>4 DEF ItemInv
  <2>3. CASE ~(m = n /\ j = i)
    <3>1. Covered(m, j) => Covered(m, j)'
      BY <1>1, <2>3 DEF Covered, MayGoOn
    <3> QED BY <1>1, <1>2, <1>3, <3>1, Frame
  <2> QED BY <2>1, <2>2, <2>3
<1>6. CaseInv' /\ DoneInv' /\ TouchInv' /\ (Start \in done)'
  BY <1>1, <1>3 DEF HInv, CaseInv, DoneInv, TouchInv, Inside
<1>7. AwaitInv'
  BY DEF AwaitInv, Idle
<1> QED BY <1>4, <1>5, <1>6, <1>7, HInvNext

\* An item has its answer.
LEMMA AnswerStep ==
  ASSUME HInv, NEW n \in Names, NEW i \in Items, i = at.item, Waiting(n),
         NEW words \in {"code", "unknown", "body"}, Answer(n, words),
         words \in {"code", "body"} /\ Acts(n) =>
           work[n][i] = "ended" \/ executor[n] = "httpPost",
         work[n][i] = "begun" => \/ executor[n] = "ssh" /\ words = "unknown"
                                 \/ executor[n] = "httpPost" /\ words = "body"
  PROVE  HInv'
<1>1. /\ at.node = n /\ at.phase = "wait"
      /\ said' = [said EXCEPT ![n][i] = words]
      /\ UNCHANGED <<executor, policy, work, why, touched>>
  BY DEF Answer, Waiting
<1>2. \/ /\ i < Passes(n) /\ UNCHANGED <<vars, count>>
         /\ at' = [at EXCEPT !.item = i + 1, !.phase = "prepare", !.code = FALSE]
      \/ /\ ~(i < Passes(n)) /\ ExecuteOk(n) /\ at' = Idle
         /\ count' = [count EXCEPT ![n] = Passes(n)]
  BY DEF Answer
<1>3. UNCHANGED <<graph, shadow, reachable>> /\ UNCHANGED Fixed
  <2>1. CASE UNCHANGED vars
    BY <1>1, <2>1 DEF vars, Fixed
  <2>2. CASE ExecuteOk(n)
    BY <1>1, <2>2, EngineSteps DEF Fixed
  <2> QED BY <1>2, <2>1, <2>2
<1>4. \A m : /\ Awaited(m)' = Awaited(m) /\ Acts(m)' = Acts(m) /\ Loops(m)' = Loops(m)
             /\ Permitted(m)' = Permitted(m)
  BY <1>3, FixedFacts
<1>5. /\ AwaitOf(n, i) /\ at # Idle
      /\ n \notin done /\ Awaited(n) \subseteq done /\ Loops(n) /\ i <= Passes(n)
      /\ i \in Int /\ i >= 1
      /\ \A k \in 1..(i - 1) : k \in Items /\ k < i /\ said[n][k] # "nothing"
  BY <1>1, AwaitFound
<1>6. /\ said \in [Names -> [Items -> {"nothing", "code", "unknown", "body"}]]
      /\ count \in [Names -> 0..MaxItems]
  BY DEF HInv, HostTypeOK
<1>7. \A m \in Names : \A j \in Items :
        said'[m][j] = IF m = n /\ j = i THEN words ELSE said[m][j]
  BY <1>1, <1>6
<1>8. ASSUME NEW m, Awaited(m) \subseteq done PROVE Passes(m)' = Passes(m)
  <2>1. \A k \in Awaited(m) : count'[k] = count[k]
    <3>1. Awaited(m) \subseteq Names
      BY DEF Awaited, Sources
    <3> QED BY <1>2, <1>5, <1>6, <1>8, <3>1
  <2> QED BY <1>4, <2>1, GivenStays
<1>9. done \subseteq done' /\ (\A m : m \in done' => m \in done \/ m = n) /\ Start \in done'
      /\ (result' = result)
  <2>1. CASE UNCHANGED vars
    BY <2>1 DEF vars, HInv
  <2>2. CASE ExecuteOk(n)
    BY <2>2, EngineSteps DEF HInv
  <2> QED BY <1>2, <2>1, <2>2
<1>10. n \in done' => at' = Idle /\ ~(i < Passes(n))
  BY <1>2, <1>5 DEF vars
<1>11. HostTypeOK'
  <2>1. said' \in [Names -> [Items -> {"nothing", "code", "unknown", "body"}]]
    BY <1>1, <1>6
  <2>2. Passes(n) \in 1..MaxItems /\ MaxItems \in Nat
    BY GivenType, HostAssumption
  <2>3. count' \in [Names -> 0..MaxItems]
    BY <1>2, <1>6, <2>2
  <2>4. at' \in [node : Names, item : 0..MaxItems, phase : {"idle", "prepare", "wait"},
                 code : BOOLEAN]
    <3>1. CASE at' = Idle
      BY <3>1, EngineAssumption, <2>2 DEF Idle
    <3>2. CASE i < Passes(n) /\ at' = [at EXCEPT !.item = i + 1, !.phase = "prepare", !.code = FALSE]
      <4>1. i + 1 \in 0..MaxItems
        BY <1>5, <2>2, <3>2
      <4> QED BY <3>2, <4>1 DEF HInv, HostTypeOK
    <3> QED BY <1>2, <3>1, <3>2
  <2> QED BY <1>1, <2>1, <2>3, <2>4 DEF HInv, HostTypeOK, Items
<1>12. AwaitInv'
  <2>1. CASE at' = Idle
    BY <2>1 DEF AwaitInv, Idle
  <2>2. CASE i < Passes(n) /\ UNCHANGED <<vars, count>>
             /\ at' = [at EXCEPT !.item = i + 1, !.phase = "prepare", !.code = FALSE]
    <3>1. at'.node = n /\ at'.item = i + 1 /\ at'.phase = "prepare" /\ ~at'.code
      BY <1>1, <2>2 DEF HInv, HostTypeOK
    <3>2. Passes(n) \in 1..MaxItems /\ MaxItems \in Nat
      BY GivenType, HostAssumption
    <3>3. i + 1 \in 1..Passes(n) /\ i + 1 \in Items
      BY <1>5, <2>2, <3>2 DEF Items
    <3>4. Passes(n)' = Passes(n)
      BY <1>5, <1>8
    <3>5. /\ \A j \in Items : j < i + 1 => said'[n][j] # "nothing"
          /\ \A j \in Items : j >= i + 1 => said'[n][j] = "nothing"
      BY <1>5, <1>7 DEF AwaitOf, Items
    <3>6. /\ \A j \in Items : j > i + 1 => work'[n][j] = "none"
          /\ work'[n][i + 1] = "none"
      BY <1>1, <1>5, <3>3 DEF AwaitOf, Items
    <3>7. n \notin done' /\ Awaited(n)' \subseteq done' /\ Loops(n)'
      BY <1>4, <1>5, <2>2 DEF vars
    <3>8. Items' = Items
      BY DEF Items
    <3>9. result' = "running"
      BY <1>5, <1>9 DEF AwaitOf
    <3>10. AwaitOf(n, i + 1)'
      BY <3>1, <3>3, <3>4, <3>5, <3>6, <3>7, <3>8, <3>9 DEF AwaitOf
    <3> QED BY <3>1, <3>10 DEF AwaitInv, AwaitOf, Items
  <2> QED BY <1>2, <2>1, <2>2
<1>13. ASSUME NEW m \in Names, NEW j \in Items PROVE ItemInv(m, j)'
  <2>0. ItemInv(m, j) /\ j \in Int /\ j >= 1 /\ \A k \in 1..(j - 1) : k \in Items /\ k < j
    BY HostAssumption DEF HInv, Items
  <2>1. CASE m = n
    <3>1. Passes(n)' = Passes(n)
      BY <1>5, <1>8
    <3>2. CASE j <= i
      <4>1. \A k \in 1..j : said'[n][k] # "nothing"
        <5>1. \A k \in 1..j : k = i \/ k \in 1..(i - 1)
          BY <1>5, <2>0, <3>2
        <5> QED BY <1>5, <1>7, <5>1
      <4>2. said'[n][j] # "nothing" /\ \A k \in 1..(j - 1) : said'[n][k] # "nothing"
        BY <2>0, <4>1
      <4>3. work[n][j] = "begun" => MayGoOn(n, j)'
        <5>1. CASE j = i
          BY <1>1, <1>7, <5>1 DEF MayGoOn
        <5>2. CASE j # i
          <6>1. work[n][j] = "begun" => Covered(n, j)
            BY <2>0, <2>1 DEF ItemInv, BegunInv
          <6>2. said'[n][j] = said[n][j]
            BY <1>7, <5>2
          <6>3. Covered(n, j) => MayGoOn(n, j)
            <7>1. result = "running"
              BY <1>5 DEF AwaitOf
            <7> QED BY <1>5, <5>2, <7>1 DEF Covered, MayGoOn
          <6> QED BY <1>1, <6>1, <6>2, <6>3 DEF MayGoOn
        <5> QED BY <5>1, <5>2
      <4>4. BegunInv(n, j)'
        BY <1>1, <1>4, <1>5, <1>9, <2>0, <2>1, <3>1, <4>2, <4>3 DEF ItemInv, BegunInv, Covered, MayGoOn
      <4>5. SaidInv(n, j)'
        <5>1. said'[n][j] \in {"code", "body"} /\ Acts(n) =>
                work[n][j] = "ended" \/ executor[n] = "httpPost"
          BY <1>7, <2>0, <2>1 DEF ItemInv, SaidInv
        <5> QED BY <1>1, <1>4, <4>2, <5>1 DEF SaidInv
      <4>6. FreshInv(n, j)'
        <5>1. n \notin done' => at' # Idle /\ at'.node = n
          <6>1. CASE ExecuteOk(n)
            BY <6>1, EngineSteps
          <6>2. CASE at' = [at EXCEPT !.item = i + 1, !.phase = "prepare", !.code = FALSE]
            <7>1. at'.node = n /\ at'.phase = "prepare"
              BY <1>1, <6>2 DEF HInv, HostTypeOK
            <7> QED BY <7>1 DEF Idle
          <6> QED BY <1>2, <6>1, <6>2
        <5> QED BY <5>1 DEF FreshInv
      <4> QED BY <2>1, <4>4, <4>5, <4>6 DEF ItemInv
    <3>3. CASE ~(j <= i)
      <4>1. work'[n][j] = "none" /\ said'[n][j] = "nothing"
        BY <1>1, <1>5, <1>7, <2>0, <3>3 DEF AwaitOf
      <4>2. n \in done' => ~(j <= Passes(n))
        BY <1>5, <1>10, <2>0, <3>3, GivenType
      <4> QED BY <2>1, <3>1, <4>1, <4>2 DEF ItemInv, BegunInv, SaidInv, FreshInv
    <3> QED BY <3>2, <3>3
  <2>2. CASE m # n
    <3>1. Covered(m, j) => Covered(m, j)'
      <4>1. m \in done' => m \in done
        BY <1>9, <2>2
      <4>2. said'[m][j] = said[m][j]
        BY <1>7, <2>2
      <4> QED BY <1>1, <1>9, <2>2, <4>1, <4>2 DEF Covered, MayGoOn
    <3>2. \A k \in Items : k <= j => said'[m][k] = said[m][k]
      BY <1>7, <2>2
    <3>3. work'[m][j] = work[m][j] /\ (m \in done' => m \in done) /\ at.node # m /\ result' = result
      BY <1>1, <1>9, <2>2
    <3> QED BY <1>3, <1>8, <1>9, <3>1, <3>2, <3>3, Frame
  <2> QED BY <2>1, <2>2
<1>14. CaseInv' /\ DoneInv' /\ TouchInv'
  <2>1. DoneInv'
    BY <1>4, <1>5, <1>9 DEF HInv, DoneInv
  <2> QED BY <1>1, <1>3, <2>1 DEF HInv, CaseInv, TouchInv, Inside
<1> QED BY <1>9, <1>11, <1>12, <1>13, <1>14, HInvNext

LEMMA FailStep ==
  ASSUME HInv, NEW n \in Names, Preparing(n) \/ Waiting(n),
         NEW reason \in {"parameter", "refused", "timeout", "lost", "io"}, Fail(n, reason),
         Waiting(n) /\ work[n][at.item] = "begun" => reason \in {"timeout", "lost"}
  PROVE  HInv'
<1>1. at.node = n /\ at.phase \in {"prepare", "wait"}
  BY DEF Preparing, Waiting
<1>2. PICK i \in Items : i = at.item
  BY <1>1, AtFacts
<1>3. work[n][i] = "begun" => reason \in {"timeout", "lost"}
  BY <1>1, <1>2, AwaitFound DEF Waiting
<1>4. /\ ExecuteErr(n) /\ at' = Idle /\ why' = reason
      /\ UNCHANGED <<executor, policy, count, work, said, touched>>
  BY DEF Fail
<1> QED BY <1>1, <1>2, <1>3, <1>4, StoppedStep

\* The steps of an await, one by one.
LEMMA AwaitStep == ASSUME HInv, NEW n \in Names, Await(n) PROVE HInv'
<1>1. ASSUME Preparing(n)
      PROVE  at.item \in Items /\ n = at.node
  BY <1>1, AtFacts DEF Preparing
<1>2. ASSUME Waiting(n)
      PROVE  /\ at.item \in Items /\ n = at.node
             /\ at.code => work[n][at.item] = "ended"
             /\ executor[n] = "writeFile" => work[n][at.item] # "none"
             /\ work[n][at.item] \in {"none", "begun", "ended"}
             /\ work[n][at.item] = "begun" => Acts(n)
  <2>1. at.item \in Items /\ n = at.node /\ AwaitOf(n, at.item) /\ at.phase = "wait"
    BY <1>2, AtFacts DEF Waiting
  <2>2. BegunInv(n, at.item)
    BY <2>1 DEF HInv, ItemInv
  <2>3. work[n][at.item] \in {"none", "begun", "ended"}
    BY <2>1 DEF HInv, HostTypeOK
  <2> QED BY <2>1, <2>2, <2>3 DEF AwaitOf, BegunInv
<1>3. CASE Unfit(n)
  BY <1>3, FailStep DEF Unfit, Preparing, Waiting
<1>4. CASE RunCommand(n)
  <2>1. CASE Waits(n, "begun") /\ touched' = touched
    BY <1>1, <1>4, <2>1, WaitsStep DEF RunCommand, Acts
  <2>2. CASE Fail(n, "io")
    BY <1>4, <2>2, FailStep DEF RunCommand, Preparing, Waiting
  <2> QED BY <1>4, <2>1, <2>2 DEF RunCommand
<1>5. CASE CommandEnds(n)
  <2>1. PICK words \in {"code", "unknown"} : Answer(n, words)
    BY <1>5 DEF CommandEnds
  <2>2. Waiting(n) /\ work[n][at.item] = "ended"
    BY <1>5 DEF CommandEnds, WorkOf
  <2> QED BY <1>2, <2>1, <2>2, AnswerStep
<1>6. CASE CommandTimesOut(n)
  BY <1>6, FailStep DEF CommandTimesOut
<1>7. CASE SshExec(n)
  <2>1. CASE (\E begun \in {"none", "begun"} : Waits(n, begun)) /\ touched' = touched
    BY <1>1, <1>7, <2>1, WaitsStep DEF SshExec, Acts
  <2>2. CASE Fail(n, "lost")
    BY <1>7, <2>2, FailStep DEF SshExec
  <2> QED BY <1>7, <2>1, <2>2 DEF SshExec
<1>8. CASE SshStatus(n)
  BY <1>8, SshStatusStep
<1>9. CASE SshCloses(n)
  <2>1. Waiting(n) /\ executor[n] = "ssh" /\ Answer(n, IF at.code THEN "code" ELSE "unknown")
    BY <1>9 DEF SshCloses
  <2>2. CASE at.code
    BY <1>2, <2>1, <2>2, AnswerStep
  <2>3. CASE ~at.code
    BY <1>2, <2>1, <2>3, AnswerStep
  <2> QED BY <2>2, <2>3
<1>10. CASE OpenFile(n)
  <2>1. PICK path \in Paths :
          IF Inside(path, policy.roots)
          THEN /\ Waits(n, IF executor[n] = "writeFile" THEN "begun" ELSE "none")
               /\ touched' = touched \cup {path}
          ELSE Fail(n, "refused")
    BY <1>10 DEF OpenFile
  <2>2. Preparing(n) /\ executor[n] \in {"readFile", "writeFile"}
    BY <1>10 DEF OpenFile
  <2>3. CASE Inside(path, policy.roots)
    <3>1. Permitted(n)
      BY <2>2 DEF Permitted
    <3>2. PICK begun \in {"none", "begun"} :
            begun = IF executor[n] = "writeFile" THEN "begun" ELSE "none"
      OBVIOUS
    <3>3. /\ begun = "begun" => Acts(n)
          /\ executor[n] = "writeFile" => begun = "begun"
      BY <3>2 DEF Acts
    <3> QED BY <1>1, <2>1, <2>2, <2>3, <3>1, <3>2, <3>3, WaitsStep
  <2>4. CASE ~Inside(path, policy.roots)
    BY <2>1, <2>2, <2>4, FailStep DEF Preparing, Waiting
  <2> QED BY <2>3, <2>4
<1>11. CASE FileEnds(n)
  <2>1. Waiting(n) /\ executor[n] \in {"readFile", "writeFile"} /\ work[n][at.item] # "begun"
    BY <1>11 DEF FileEnds, WorkOf
  <2>2. CASE Answer(n, "body")
    <3>1. Acts(n) => work[n][at.item] = "ended"
      BY <1>2, <2>1 DEF Acts
    <3> QED BY <1>2, <2>1, <2>2, <3>1, AnswerStep
  <2>3. CASE Fail(n, "io")
    BY <2>1, <2>3, FailStep
  <2> QED BY <1>11, <2>2, <2>3 DEF FileEnds
<1>12. CASE SendRequest(n)
  <2>1. Preparing(n) /\ executor[n] \in {"httpGet", "httpPost"} /\ touched' = touched
    BY <1>12 DEF SendRequest
  <2>2. PICK begun \in {"none", "begun"} :
          Waits(n, begun) /\ (begun = "begun" => executor[n] = "httpPost")
    BY <1>12 DEF SendRequest
  <2>3. Permitted(n) /\ (begun = "begun" => Acts(n)) /\ executor[n] # "writeFile"
    BY <2>1, <2>2 DEF Permitted, Acts
  <2> QED BY <1>1, <2>1, <2>2, <2>3, WaitsStep
<1>13. CASE RequestEnds(n)
  <2>1. Waiting(n) /\ executor[n] \in {"httpGet", "httpPost"}
    BY <1>13 DEF RequestEnds
  <2>2. CASE Answer(n, "body")
    <3>1. Acts(n) => executor[n] = "httpPost"
      BY <2>1 DEF Acts
    <3> QED BY <1>2, <2>1, <2>2, <3>1, AnswerStep
  <2>3. CASE Fail(n, "lost")
    BY <2>1, <2>3, FailStep
  <2> QED BY <1>13, <2>2, <2>3 DEF RequestEnds
<1>14. CASE HostDrop(n)
  <2>1. /\ at.node = n /\ at # Idle /\ Drop(n) /\ at' = Idle /\ why' = "dropped"
        /\ UNCHANGED <<executor, policy, count, work, said, touched>>
    BY <1>14 DEF HostDrop
  <2>2. at.phase \in {"prepare", "wait"}
    BY <2>1 DEF HInv, AwaitInv, AwaitOf
  <2>3. at.item \in Items
    BY <2>2, AtFacts
  <2> QED BY <2>1, <2>2, <2>3, StoppedStep
<1> QED BY <1>3, <1>4, <1>5, <1>6, <1>7, <1>8, <1>9, <1>10, <1>11, <1>12, <1>13, <1>14 DEF Await

\* The steps of the engine between two awaits: a node that does not loop may
\* produce, or the run ends.
LEMMA IdleStep ==
  ASSUME HInv, at = Idle, UNCHANGED Fixed, UNCHANGED <<at, work, said, touched>>,
         HostTypeOK', done \subseteq done',
         \A m \in done' \ done : Awaited(m) \subseteq done /\ ~Loops(m) /\ result' = "running",
         result' # result => result = "running",
         why' # why => result = "running",
         result' = "running" => result = "running",
         \A m \in Names : m \in done => count'[m] = count[m]
  PROVE  HInv'
<1>1. \A m : /\ Awaited(m)' = Awaited(m) /\ Acts(m)' = Acts(m) /\ Loops(m)' = Loops(m)
             /\ Permitted(m)' = Permitted(m)
  BY FixedFacts
<1>2. ASSUME NEW m, Awaited(m) \subseteq done PROVE Passes(m)' = Passes(m)
  <2>1. Awaited(m) \subseteq Names
    BY DEF Awaited, Sources
  <2> QED BY <1>1, <1>2, <2>1, GivenStays
<1>3. ASSUME NEW m \in Names, NEW j \in Items PROVE ItemInv(m, j)'
  <2>1. CASE m \in done' \ done
    <3>1. ItemInv(m, j)
      BY DEF HInv
    <3>2. work[m][j] = "none" /\ said[m][j] = "nothing"
      BY <2>1, <3>1 DEF ItemInv, FreshInv
    <3>3. BegunInv(m, j)'
      BY <3>2 DEF BegunInv
    <3>4. SaidInv(m, j)'
      BY <1>1, <2>1, <3>2 DEF SaidInv
    <3>5. FreshInv(m, j)'
      BY <3>2 DEF FreshInv
    <3> QED BY <3>3, <3>4, <3>5 DEF ItemInv
  <2>2. CASE m \in done' => m \in done
    <3>1. Covered(m, j) => Covered(m, j)'
      BY <2>2 DEF Covered, MayGoOn, Idle, Fixed
    <3> QED BY <1>2, <2>2, <3>1, Frame
  <2> QED BY <2>1, <2>2
<1>4. CaseInv' /\ DoneInv' /\ TouchInv' /\ (Start \in done)'
  <2>1. DoneInv'
    BY <1>1 DEF HInv, DoneInv
  <2>2. CaseInv' /\ TouchInv'
    BY DEF HInv, CaseInv, TouchInv, Inside, Fixed
  <2> QED BY <2>1, <2>2 DEF HInv
<1>5. AwaitInv'
  BY DEF AwaitInv, Idle
<1> QED BY <1>3, <1>4, <1>5, HInvNext

LEMMA PlainSteps == ASSUME HInv, NEW n \in Names, PlainStep(n) PROVE HInv'
<1>1. at = Idle /\ UNCHANGED <<executor, policy, at, work, said, touched>>
  BY DEF PlainStep
<1>2. CASE (Skip(n) \/ Requeue(n)) /\ UNCHANGED <<count, why>>
  <2>1. UNCHANGED <<graph, shadow, reachable, done, result>>
    BY <1>2 DEF Skip, Requeue, Pop
  <2>2. HostTypeOK'
    BY <1>1, <1>2 DEF HInv, HostTypeOK, Items
  <2>3. UNCHANGED Fixed
    BY <1>1, <2>1 DEF Fixed
  <2> QED BY <1>1, <1>2, <2>1, <2>2, <2>3, IdleStep
<1>3. CASE ~Loops(n) /\ (PassDisabled(n) \/ ExecuteOk(n)) /\ why' = why
           /\ \E k \in Yields(n) : count' = [count EXCEPT ![n] = k]
  <2>1. /\ UNCHANGED <<graph, shadow, reachable>> /\ result = "running" /\ result' = "running"
        /\ n \notin done /\ Awaited(n) \subseteq done /\ done' = done \cup {n}
    BY <1>3 DEF PassDisabled, ExecuteOk, Pop, Pending, Produce
  <2>2. UNCHANGED Fixed
    BY <1>1, <2>1 DEF Fixed
  <2>3. Yields(n) \subseteq 0..MaxItems
    <3>1. MaxItems \in Nat \ {0} /\ Given(n) \in 0..MaxItems
      BY HostAssumption, GivenType
    <3> QED BY <3>1 DEF Yields, ScriptItems, FeedItems, ReplyItems
  <2>4. count \in [Names -> 0..MaxItems]
    BY DEF HInv, HostTypeOK
  <2>5. PICK k \in 0..MaxItems : count' = [count EXCEPT ![n] = k]
    BY <1>3, <2>3
  <2>6. count' \in [Names -> 0..MaxItems] /\ \A m \in Names : m \in done => count'[m] = count[m]
    BY <2>1, <2>4, <2>5
  <2>7. HostTypeOK'
    BY <1>1, <1>3, <2>6 DEF HInv, HostTypeOK, Items
  <2> QED BY <1>1, <1>3, <2>1, <2>2, <2>6, <2>7, IdleStep
<1>4. CASE /\ (ExecuteErr(n) /\ why' = "node") \/ (Drop(n) /\ why' = "dropped")
           /\ count' = count
  <2>1. /\ UNCHANGED <<graph, shadow, reachable>> /\ result = "running" /\ done' = done
        /\ result' \in {"failure", "dropped"}
    BY <1>4, EngineSteps
  <2>2. UNCHANGED Fixed
    BY <1>1, <2>1 DEF Fixed
  <2>3. HostTypeOK'
    BY <1>1, <1>4 DEF HInv, HostTypeOK, Items
  <2> QED BY <1>1, <1>4, <2>1, <2>2, <2>3, IdleStep
<1>5. \/ (Skip(n) \/ Requeue(n)) /\ UNCHANGED <<count, why>>
      \/ /\ ~Loops(n) /\ (PassDisabled(n) \/ ExecuteOk(n)) /\ why' = why
         /\ \E k \in Yields(n) : count' = [count EXCEPT ![n] = k]
      \/ ExecuteErr(n) /\ why' = "node" /\ count' = count
      \/ Drop(n) /\ why' = "dropped" /\ count' = count
  BY Zenon DEF PlainStep
<1> QED BY <1>2, <1>3, <1>4, <1>5

LEMMA HostFinishStep == ASSUME HInv, HostFinish PROVE HInv'
<1>1. at = Idle /\ UNCHANGED <<executor, policy, count, at, work, said, why, touched>>
  BY DEF HostFinish, hostVars
<1>2. UNCHANGED <<graph, shadow, reachable, done>> /\ result = "running" /\ result' = "success"
  BY DEF HostFinish, Finish, OutOfSteps
<1>3. UNCHANGED Fixed
  BY <1>1, <1>2 DEF Fixed
<1>4. HostTypeOK'
  BY <1>1 DEF HInv, HostTypeOK, Items
<1> QED BY <1>1, <1>2, <1>3, <1>4, IdleStep

LEMMA StutterStep == ASSUME HInv, UNCHANGED allVars PROVE HInv'
<1>1. /\ UNCHANGED <<graph, shadow, reachable, done, result>>
      /\ UNCHANGED <<executor, policy, count, at, work, said, why, touched>>
  BY DEF allVars, vars, hostVars
<1>2. UNCHANGED Fixed
  BY <1>1 DEF Fixed
<1>3. \A m : /\ Awaited(m)' = Awaited(m) /\ Acts(m)' = Acts(m) /\ Loops(m)' = Loops(m)
             /\ Permitted(m)' = Permitted(m) /\ Passes(m)' = Passes(m)
  BY <1>1, <1>2, FixedFacts, PassesStay
<1>4. HostTypeOK'
  BY <1>1 DEF HInv, HostTypeOK, Items
<1>5. ASSUME NEW m \in Names, NEW j \in Items PROVE ItemInv(m, j)'
  <2>1. Covered(m, j) => Covered(m, j)'
    BY <1>1 DEF Covered, MayGoOn
  <2> QED BY <1>1, <1>2, <1>3, <2>1, Frame DEF Idle
<1>6. CaseInv' /\ DoneInv' /\ TouchInv' /\ (Start \in done)'
  BY <1>1, <1>3 DEF HInv, CaseInv, DoneInv, TouchInv, Inside
<1>7. AwaitInv'
  <2>1. Items' = Items
    BY DEF Items
  <2> QED BY <1>1, <1>3, <2>1 DEF HInv, AwaitInv, AwaitOf, Idle
<1> QED BY <1>4, <1>5, <1>6, <1>7, HInvNext

LEMMA HInvStep == HInv /\ [HostNext]_allVars => HInv'
<1> SUFFICES ASSUME HInv, [HostNext]_allVars PROVE HInv'
  OBVIOUS
<1>1. ASSUME NEW n \in Names, Enter(n) PROVE HInv'
  BY <1>1, EnterStep
<1>2. ASSUME NEW n \in Names, Await(n) PROVE HInv'
  BY <1>2, AwaitStep
<1>3. ASSUME NEW n \in Names, PlainStep(n) PROVE HInv'
  BY <1>3, PlainSteps
<1>4. CASE HostFinish
  BY <1>4, HostFinishStep
<1>5. ASSUME NEW n \in Names, NEW i \in Items, WorkEnds(n, i) PROVE HInv'
  BY <1>5, WorkEndsStep
<1>6. CASE UNCHANGED allVars
  BY <1>6, StutterStep
<1> QED BY <1>1, <1>2, <1>3, <1>4, <1>5, <1>6 DEF HostNext, HostStep

LEMMA HostInvariance == HostSpec => []HInv
<1>1. HostInit => HInv
  BY HInvInit
<1>2. HInv /\ [HostNext]_allVars => HInv'
  BY HInvStep
<1> QED BY <1>1, <1>2, PTL DEF HostSpec

\* The variables of the nodes hold what the code's do.
THEOREM HostTypeCorrect == HostSpec => []HostTypeOK
<1>1. HInv => HostTypeOK
  BY DEF HInv
<1> QED BY <1>1, HostInvariance, PTL

\* Whatever is lost, cut off or refused on the way, the transcript is true to
\* what happened outside (run_one, request_once, ReadWriteFile::execute).
THEOREM HostTranscriptIsTrue == HostSpec => []TranscriptIsTrue
<1>1. IInv => TypeOK
  BY DEF IInv
<1>2. TypeOK /\ HInv => TranscriptIsTrue
  BY HInvTranscript
<1> QED BY <1>1, <1>2, EngineInvariance, HostInvariance, PTL

\* Nothing is under way outside that the run does not await or account for, and
\* nothing was begun that was not permitted (Policy, Mode::Shadow).
THEOREM HostNothingBehind == HostSpec => []NothingBehindTheRun
<1>1. HInv => NothingBehindTheRun
  BY HInvNothingBehind
<1> QED BY <1>1, HostInvariance, PTL
============================================================================
