---------------------------- MODULE AgentProofs ----------------------------
(***************************************************************************)
(* Proofs about Gateway and about Agent, the tools behind it.              *)
(*                                                                         *)
(* Of Gateway: how far concurrent callers overrun its budgets and its      *)
(* circuit breaker, and which calls the audit log accounts for.  Of Agent: *)
(* that each of its steps is a step of Gateway, so that what is proved of  *)
(* Gateway holds of it; that a dry run is dry; and that the audit log      *)
(* brackets the posts there are.  For any number of callers, any tools,    *)
(* budgets, platforms and networks.                                        *)
(***************************************************************************)
EXTENDS Agent, FiniteSetTheorems, TLAPS

----------------------------------------------------------------------------
(* Gateway: the budgets and the circuit breaker *)

N == Cardinality(Callers)

\* Callers that passed the check and have not counted yet, of any tool.
Passed == {c \in Callers : stage[c] = "passed"}

\* Callers that passed the check together may all count: the last one to pass
\* found a call left in the budget.
RunInv == total + Cardinality(Passed) < PerRun + N

\* The same of the budget of one tool.
ToolInvOf(t) ==
  /\ perTool[t] + Cardinality(At({"passed"}, t)) < PerTool + N
  /\ reached[t] <= perTool[t]

\* Every call that passed the check or is out at its provider may fail.
BreakerInvOf(t) == failures[t] + Cardinality(At({"passed", "sent"}, t)) < Threshold + N

\* A budget of zero lets nobody pass, and a tool that is only rehearsed is
\* never sent to its provider.
PassInv ==
  \A c \in Callers :
    /\ stage[c] = "passed" => PerRun > 0 /\ PerTool > 0
    /\ stage[c] \in {"sent", "settled"} => ~Rehearses(tool[c])

ShadowInv == \A t \in Tools : Rehearses(t) => failures[t] = 0

IInv ==
  /\ TypeOK /\ PassInv /\ ShadowInv /\ RunInv
  /\ \A t \in Tools : ToolInvOf(t) /\ BreakerInvOf(t)

----------------------------------------------------------------------------
(* Counting callers *)

LEMMA CallersCount == N \in Nat /\ N > 0 /\ IsFiniteSet(Callers)
BY GatewayAssumption, FS_CardinalityType, FS_EmptySet DEF N

\* What one caller's step does to the size of a set of callers.
LEMMA Counting ==
  ASSUME NEW A \in SUBSET Callers, NEW B \in SUBSET Callers, NEW c \in Callers,
         A \ {c} = B \ {c}
  PROVE  /\ Cardinality(A) \in Nat
         /\ Cardinality(B) \in Nat
         /\ Cardinality(A) <= N
         /\ Cardinality(B) <= N
         /\ Cardinality(B) + (IF c \in A THEN 1 ELSE 0)
              = Cardinality(A) + (IF c \in B THEN 1 ELSE 0)
<1>1. IsFiniteSet(A) /\ IsFiniteSet(B) /\ Cardinality(A) <= N /\ Cardinality(B) <= N
  BY CallersCount, FS_Subset DEF N
<1>2. Cardinality(A) \in Nat /\ Cardinality(B) \in Nat
  BY <1>1, FS_CardinalityType
<1>3. /\ Cardinality(A \ {c}) = IF c \in A THEN Cardinality(A) - 1 ELSE Cardinality(A)
      /\ Cardinality(B \ {c}) = IF c \in B THEN Cardinality(B) - 1 ELSE Cardinality(B)
  BY <1>1, FS_RemoveElement
<1> QED BY <1>1, <1>2, <1>3

\* A step of caller c alone, in what the sets of callers read.
StepOf(c) == \A d \in Callers \ {c} : stage'[d] = stage[d] /\ tool'[d] = tool[d]

LEMMA PassedCount ==
  ASSUME NEW c \in Callers, StepOf(c)
  PROVE  /\ Cardinality(Passed) \in Nat
         /\ Cardinality(Passed)' \in Nat
         /\ Cardinality(Passed)' <= N
         /\ Cardinality(Passed)' + (IF stage[c] = "passed" THEN 1 ELSE 0)
              = Cardinality(Passed) + (IF stage'[c] = "passed" THEN 1 ELSE 0)
<1> DEFINE A == Passed
           B == Passed'
<1>1. A \in SUBSET Callers /\ B \in SUBSET Callers /\ A \ {c} = B \ {c}
  BY DEF Passed, StepOf
<1>2. (c \in A <=> stage[c] = "passed") /\ (c \in B <=> stage'[c] = "passed")
  BY DEF Passed
<1> HIDE DEF A, B
<1>3. /\ Cardinality(A) \in Nat /\ Cardinality(B) \in Nat /\ Cardinality(B) <= N
      /\ Cardinality(B) + (IF c \in A THEN 1 ELSE 0)
           = Cardinality(A) + (IF c \in B THEN 1 ELSE 0)
  BY <1>1, Counting
<1> QED BY <1>2, <1>3 DEF A, B

LEMMA AtCount ==
  ASSUME NEW c \in Callers, StepOf(c), NEW stages, NEW t \in Tools
  PROVE  /\ Cardinality(At(stages, t)) \in Nat
         /\ Cardinality(At(stages, t))' \in Nat
         /\ Cardinality(At(stages, t))' <= N
         /\ Cardinality(At(stages, t))' + (IF stage[c] \in stages /\ tool[c] = t THEN 1 ELSE 0)
              = Cardinality(At(stages, t)) + (IF stage'[c] \in stages /\ tool'[c] = t THEN 1 ELSE 0)
<1> DEFINE A == At(stages, t)
           B == At(stages, t)'
<1>1. A \in SUBSET Callers /\ B \in SUBSET Callers /\ A \ {c} = B \ {c}
  BY DEF At, StepOf
<1>2. /\ c \in A <=> stage[c] \in stages /\ tool[c] = t
      /\ c \in B <=> stage'[c] \in stages /\ tool'[c] = t
  BY DEF At
<1> HIDE DEF A, B
<1>3. /\ Cardinality(A) \in Nat /\ Cardinality(B) \in Nat /\ Cardinality(B) <= N
      /\ Cardinality(B) + (IF c \in A THEN 1 ELSE 0)
           = Cardinality(A) + (IF c \in B THEN 1 ELSE 0)
  BY <1>1, Counting
<1> QED BY <1>2, <1>3 DEF A, B

----------------------------------------------------------------------------
(* Types *)

LEMMA TypeInit == Init => TypeOK
BY GatewayAssumption DEF Init, TypeOK, Kinds

LEMMA TypeStep == TypeOK /\ [Next]_vars => TypeOK'
<1> SUFFICES ASSUME TypeOK, [Next]_vars PROVE TypeOK'
  OBVIOUS
<1> USE GatewayAssumption
<1>1. ASSUME NEW c \in Callers, NEW t \in Tools, Check(c, t) PROVE TypeOK'
  <2>1. asked' \in [Tools -> Nat]
    BY <1>1 DEF TypeOK, Check
  <2>2. CASE Refused(t)
    <3>1. audit' \in [Tools -> [Kinds -> Nat]]
      <4>1. audit[t] \in [Kinds -> Nat] /\ "refused" \in Kinds
        BY DEF TypeOK, Kinds
      <4>2. [audit[t] EXCEPT !["refused"] = @ + 1] \in [Kinds -> Nat]
        BY <4>1
      <4> QED BY <1>1, <2>2, <4>1, <4>2 DEF TypeOK, Check, Recorded
    <3> QED BY <1>1, <2>1, <2>2, <3>1 DEF TypeOK, Check
  <2>3. CASE ~Refused(t)
    <3>1. /\ stage' = [stage EXCEPT ![c] = "passed"] /\ tool' = [tool EXCEPT ![c] = t]
          /\ UNCHANGED <<audit, dryRun, perTool, total, failures, outcome, runs, dropped, reached>>
      BY <1>1, <2>3 DEF Check
    <3>2. /\ stage' \in [Callers -> {"idle", "passed", "rehearsing", "sent", "settled"}]
          /\ tool' \in [Callers -> Tools \cup {None}]
      BY <3>1 DEF TypeOK
    <3>3. \A d \in Callers : stage'[d] = "idle" <=> tool'[d] = None
      BY <3>1 DEF TypeOK
    <3> QED BY <2>1, <3>1, <3>2, <3>3 DEF TypeOK
  <2> QED BY <2>2, <2>3
<1>2. ASSUME NEW c \in Callers, Count(c) PROVE TypeOK'
  <2>1. tool[c] \in Tools
    BY <1>2 DEF TypeOK, Count
  <2>2. perTool' \in [Tools -> Nat] /\ total' \in Nat
    BY <1>2, <2>1 DEF TypeOK, Count
  <2>3. reached' \in [Tools -> Nat]
    BY <1>2, <2>1 DEF TypeOK, Count
  <2>4. /\ stage' \in [Callers -> {"idle", "passed", "rehearsing", "sent", "settled"}]
        /\ \A d \in Callers : stage'[d] = "idle" <=> tool'[d] = None
    BY <1>2, <2>1 DEF TypeOK, Count
  <2> QED BY <1>2, <2>2, <2>3, <2>4 DEF TypeOK, Count
<1>3. ASSUME NEW c \in Callers, Rehearse(c) PROVE TypeOK'
  <2>1. tool[c] \in Tools
    BY <1>3 DEF TypeOK, Rehearse
  <2>2. audit' \in [Tools -> [Kinds -> Nat]]
    BY <1>3, <2>1 DEF TypeOK, Rehearse, Recorded, Kinds
  <2> QED BY <1>3, <2>1, <2>2 DEF TypeOK, Rehearse, Return
<1>4. ASSUME NEW c \in Callers, Settle(c) PROVE TypeOK'
  BY <1>4 DEF TypeOK, Settle, Kinds
<1>5. ASSUME NEW c \in Callers, Record(c) PROVE TypeOK'
  <2>1. tool[c] \in Tools /\ outcome[c] \in Kinds
    BY <1>5 DEF TypeOK, Record, Kinds
  <2>2. audit' \in [Tools -> [Kinds -> Nat]]
    <3>1. audit[tool[c]] \in [Kinds -> Nat]
      BY <2>1 DEF TypeOK
    <3>2. [audit[tool[c]] EXCEPT ![outcome[c]] = @ + 1] \in [Kinds -> Nat]
      BY <2>1, <3>1
    <3> QED BY <1>5, <2>1, <3>2 DEF TypeOK, Record, Recorded
  <2> QED BY <1>5, <2>1, <2>2 DEF TypeOK, Record, Return
<1>6. ASSUME NEW c \in Callers, Drop(c) PROVE TypeOK'
  BY <1>6 DEF TypeOK, Drop, Return, Kinds
<1>7. ASSUME BeginRun PROVE TypeOK'
  BY <1>7 DEF TypeOK, BeginRun, Kinds
<1>8. CASE UNCHANGED vars
  BY <1>8 DEF TypeOK, vars
<1> QED BY <1>1, <1>2, <1>3, <1>4, <1>5, <1>6, <1>7, <1>8 DEF Next

\* Every variable of the gateway keeps its type, and a caller names a tool
\* exactly while its call is under way (Gateway::call).
THEOREM TypeCorrect == Spec => []TypeOK
<1>1. Init => TypeOK
  BY TypeInit
<1>2. TypeOK /\ [Next]_vars => TypeOK'
  BY TypeStep
<1> QED BY <1>1, <1>2, PTL DEF Spec

----------------------------------------------------------------------------
(* The budgets and the circuit breaker *)

LEMMA ThresholdType == Threshold \in Nat /\ Threshold > 0
BY GatewayAssumption DEF Threshold

LEMMA IInvInit == Init => IInv
<1> SUFFICES ASSUME Init PROVE IInv
  OBVIOUS
<1>1. Passed = {} /\ \A S \in SUBSET {"passed", "sent"} : \A t \in Tools : At(S, t) = {}
  BY DEF Init, Passed, At
<1>2. Cardinality(Passed) = 0 /\ \A t \in Tools :
        Cardinality(At({"passed"}, t)) = 0 /\ Cardinality(At({"passed", "sent"}, t)) = 0
  BY <1>1, FS_EmptySet
<1> QED
  BY <1>2, TypeInit, CallersCount, ThresholdType, GatewayAssumption
  DEF Init, IInv, PassInv, ShadowInv, RunInv, ToolInvOf, BreakerInvOf

\* A step that leaves every call where it is.
LEMMA StillSame ==
  ASSUME UNCHANGED <<stage, tool>>
  PROVE  /\ Passed' = Passed
         /\ \A S : \A t \in Tools : At(S, t)' = At(S, t)
BY DEF Passed, At

LEMMA SimpleStep ==
  ASSUME IInv, [Next]_vars
  PROVE  TypeOK' /\ PassInv' /\ ShadowInv'
<1> USE GatewayAssumption
<1>0. TypeOK'
  BY TypeStep DEF IInv
<1>1. ASSUME NEW c \in Callers, NEW t \in Tools, Check(c, t) PROVE PassInv' /\ ShadowInv'
  BY <1>1 DEF IInv, TypeOK, PassInv, ShadowInv, Check, Refused, Rehearses
<1>2. ASSUME NEW c \in Callers, Count(c) PROVE PassInv' /\ ShadowInv'
  BY <1>2 DEF IInv, TypeOK, PassInv, ShadowInv, Count, Rehearses
<1>3. ASSUME NEW c \in Callers, Rehearse(c) PROVE PassInv' /\ ShadowInv'
  BY <1>3 DEF IInv, TypeOK, PassInv, ShadowInv, Rehearse, Return, Rehearses
<1>4. ASSUME NEW c \in Callers, Settle(c) PROVE PassInv' /\ ShadowInv'
  BY <1>4 DEF IInv, TypeOK, PassInv, ShadowInv, Settle, Rehearses
<1>5. ASSUME NEW c \in Callers, Record(c) PROVE PassInv' /\ ShadowInv'
  BY <1>5 DEF IInv, TypeOK, PassInv, ShadowInv, Record, Return, Rehearses
<1>6. ASSUME NEW c \in Callers, Drop(c) PROVE PassInv' /\ ShadowInv'
  BY <1>6 DEF IInv, TypeOK, PassInv, ShadowInv, Drop, Return, Rehearses
<1>7. ASSUME BeginRun PROVE PassInv' /\ ShadowInv'
  BY <1>7 DEF IInv, TypeOK, PassInv, ShadowInv, BeginRun, Rehearses
<1>8. CASE UNCHANGED vars
  <2>1. UNCHANGED <<dryRun, stage, tool, failures>>
    BY <1>8 DEF vars
  <2>2. dryRun \in BOOLEAN /\ PassInv /\ ShadowInv
    BY DEF IInv, TypeOK
  <2>3. PassInv'
    BY <2>1, <2>2 DEF PassInv, Rehearses
  <2>4. ShadowInv'
    BY <2>1, <2>2 DEF ShadowInv, Rehearses
  <2> QED BY <1>0, <2>3, <2>4
<1> QED BY <1>0, <1>1, <1>2, <1>3, <1>4, <1>5, <1>6, <1>7, <1>8 DEF Next

Bounded == RunInv /\ \A t \in Tools : ToolInvOf(t) /\ BreakerInvOf(t)

LEMMA CheckKeeps ==
  ASSUME IInv, NEW c \in Callers, NEW u \in Tools, Check(c, u)
  PROVE  Bounded'
<1> USE GatewayAssumption
<1>1. CASE Refused(u)
  <2>1. UNCHANGED <<stage, tool, total, perTool, reached, failures>>
    BY <1>1 DEF Check
  <2>2. Passed' = Passed /\ \A S : \A t \in Tools : At(S, t)' = At(S, t)
    BY <2>1, StillSame
  <2> QED BY <2>1, <2>2 DEF IInv, Bounded, RunInv, ToolInvOf, BreakerInvOf
<1>2. CASE ~Refused(u)
  <2>1. /\ stage[c] = "idle" /\ stage'[c] = "passed" /\ tool'[c] = u
        /\ tool[c] = None
        /\ StepOf(c)
        /\ UNCHANGED <<total, perTool, reached, failures>>
    BY <1>2 DEF Check, IInv, TypeOK, StepOf
  <2>2. total < PerRun /\ perTool[u] < PerTool /\ failures[u] < Threshold
    BY <1>2 DEF Refused, Open, Threshold, IInv, TypeOK
  <2>3. RunInv'
    BY <2>1, <2>2, PassedCount, CallersCount DEF RunInv, IInv, TypeOK
  <2>4. ASSUME NEW t \in Tools PROVE ToolInvOf(t)'
    BY <2>1, <2>2, AtCount, CallersCount DEF ToolInvOf, IInv, TypeOK
  <2>5. ASSUME NEW t \in Tools PROVE BreakerInvOf(t)'
    BY <2>1, <2>2, AtCount, CallersCount, ThresholdType DEF BreakerInvOf, IInv, TypeOK
  <2> QED BY <2>3, <2>4, <2>5 DEF Bounded
<1> QED BY <1>1, <1>2

LEMMA CountKeeps ==
  ASSUME IInv, NEW c \in Callers, Count(c)
  PROVE  Bounded'
<1> USE GatewayAssumption
<1> DEFINE u == tool[c]
<1>0. [Next]_vars
  BY DEF Next
<1>1. /\ stage[c] = "passed" /\ stage'[c] \in {"rehearsing", "sent"}
      /\ u \in Tools /\ tool'[c] = u
      /\ StepOf(c)
      /\ UNCHANGED failures
  BY DEF Count, IInv, TypeOK, StepOf
<1>2. /\ total' = total + 1
      /\ \A t \in Tools : perTool'[t] = IF t = u THEN perTool[t] + 1 ELSE perTool[t]
      /\ \A t \in Tools : reached'[t] <= IF t = u THEN reached[t] + 1 ELSE reached[t]
  <2>1. /\ perTool' = [perTool EXCEPT ![u] = @ + 1]
        /\ reached' \in {reached, [reached EXCEPT ![u] = @ + 1]}
        /\ perTool \in [Tools -> Nat] /\ reached \in [Tools -> Nat]
        /\ total' = total + 1
    BY DEF Count, IInv, TypeOK
  <2> HIDE DEF u
  <2> QED BY <1>1, <2>1
<1> HIDE DEF u
<1>3. RunInv'
  <2>1. /\ Cardinality(Passed) \in Nat /\ Cardinality(Passed)' \in Nat
        /\ Cardinality(Passed)' + 1 = Cardinality(Passed)
    BY <1>1, PassedCount
  <2>2. total \in Nat /\ total + Cardinality(Passed) < PerRun + N
    BY DEF IInv, TypeOK, RunInv
  <2>3. total' + Cardinality(Passed)' = total + Cardinality(Passed)
    BY <1>2, <2>1, <2>2
  <2> QED BY <2>2, <2>3 DEF RunInv
<1>4. ASSUME NEW t \in Tools PROVE ToolInvOf(t)'
  <2>1. ToolInvOf(t) /\ reached[t] \in Nat /\ perTool[t] \in Nat
    BY DEF IInv, TypeOK
  <2>2. reached'[t] \in Nat
    BY <1>0, SimpleStep DEF TypeOK
  <2>3. Cardinality(At({"passed"}, t)) \in Nat /\ Cardinality(At({"passed"}, t))' \in Nat
    BY <1>1, AtCount
  <2>4. Cardinality(At({"passed"}, t))' + (IF t = u THEN 1 ELSE 0)
          = Cardinality(At({"passed"}, t))
    BY <1>1, <2>3, AtCount DEF u
  <2> QED BY <1>2, <2>1, <2>2, <2>3, <2>4, CallersCount DEF ToolInvOf
<1>5. ASSUME NEW t \in Tools PROVE BreakerInvOf(t)'
  BY <1>1, AtCount, CallersCount, ThresholdType DEF BreakerInvOf, IInv, TypeOK, u
<1> QED BY <1>3, <1>4, <1>5 DEF Bounded

\* A call that ends spends nothing more, and fails no more.
LEMMA EndKeeps ==
  ASSUME IInv, NEW c \in Callers, Rehearse(c) \/ Record(c) \/ Drop(c)
  PROVE  Bounded'
<1> USE GatewayAssumption
<1>1. /\ stage[c] # "passed" /\ stage'[c] = "idle"
      /\ StepOf(c)
      /\ UNCHANGED <<total, perTool, reached, failures>>
  BY DEF Rehearse, Record, Drop, Return, IInv, TypeOK, StepOf
<1>2. RunInv'
  BY <1>1, PassedCount, CallersCount DEF RunInv, IInv, TypeOK
<1>3. ASSUME NEW t \in Tools PROVE ToolInvOf(t)'
  BY <1>1, AtCount, CallersCount DEF ToolInvOf, IInv, TypeOK
<1>4. ASSUME NEW t \in Tools PROVE BreakerInvOf(t)'
  BY <1>1, AtCount, CallersCount, ThresholdType DEF BreakerInvOf, IInv, TypeOK
<1> QED BY <1>2, <1>3, <1>4 DEF Bounded

LEMMA SettleKeeps ==
  ASSUME IInv, NEW c \in Callers, Settle(c)
  PROVE  Bounded'
<1> USE GatewayAssumption
<1> DEFINE u == tool[c]
<1>1. /\ stage[c] = "sent" /\ stage'[c] = "settled"
      /\ u \in Tools /\ tool'[c] = u
      /\ StepOf(c)
      /\ UNCHANGED <<total, perTool, reached>>
  BY DEF Settle, IInv, TypeOK, StepOf
<1>2. \A t \in Tools :
        failures'[t] = IF t = u THEN failures'[t] ELSE failures[t]
  BY <1>1 DEF Settle, IInv, TypeOK
<1>3. failures'[u] = 0 \/ failures'[u] = failures[u] + 1
  BY <1>1 DEF Settle, IInv, TypeOK
<1> HIDE DEF u
<1>4. RunInv'
  BY <1>1, PassedCount, CallersCount DEF RunInv, IInv, TypeOK
<1>5. ASSUME NEW t \in Tools PROVE ToolInvOf(t)'
  BY <1>1, AtCount, CallersCount DEF ToolInvOf, IInv, TypeOK
<1>6. ASSUME NEW t \in Tools PROVE BreakerInvOf(t)'
  <2>1. CASE t = u
    BY <1>1, <1>3, <2>1, AtCount, CallersCount, ThresholdType
    DEF BreakerInvOf, IInv, TypeOK, u
  <2>2. CASE t # u
    BY <1>1, <1>2, <2>2, AtCount, CallersCount, ThresholdType
    DEF BreakerInvOf, IInv, TypeOK, u
  <2> QED BY <2>1, <2>2
<1> QED BY <1>4, <1>5, <1>6 DEF Bounded

LEMMA BeginRunKeeps ==
  ASSUME IInv, BeginRun
  PROVE  Bounded'
<1> USE GatewayAssumption
<1>1. /\ UNCHANGED <<stage, tool, failures>>
      /\ total' = 0
      /\ \A t \in Tools : perTool'[t] = 0 /\ reached'[t] = 0
  BY DEF BeginRun
<1>2. Passed' = Passed /\ \A S : \A t \in Tools : At(S, t)' = At(S, t)
  BY <1>1, StillSame
<1>3. RunInv'
  <2>1. CASE PerRun = 0
    <3>1. Passed = {}
      BY <2>1 DEF Passed, IInv, PassInv
    <3> QED BY <1>1, <1>2, <2>1, <3>1, FS_EmptySet, CallersCount DEF RunInv
  <2>2. CASE PerRun > 0
    <3>1. Passed \in SUBSET Callers
      BY DEF Passed
    <3>2. Cardinality(Passed) \in Nat /\ Cardinality(Passed) <= N
      BY <3>1, CallersCount, FS_Subset, FS_CardinalityType DEF N
    <3> QED BY <1>1, <1>2, <2>2, <3>2, CallersCount DEF RunInv
  <2> QED BY <2>1, <2>2
<1>4. ASSUME NEW t \in Tools PROVE ToolInvOf(t)'
  <2>1. CASE PerTool = 0
    <3>1. At({"passed"}, t) = {}
      BY <2>1 DEF At, IInv, PassInv
    <3>2. Cardinality(At({"passed"}, t)') = 0
      BY <1>2, <3>1, FS_EmptySet
    <3> QED BY <1>1, <2>1, <3>2, CallersCount DEF ToolInvOf
  <2>2. CASE PerTool > 0
    <3>1. At({"passed"}, t) \in SUBSET Callers
      BY DEF At
    <3>2. Cardinality(At({"passed"}, t)) \in Nat /\ Cardinality(At({"passed"}, t)) <= N
      BY <3>1, CallersCount, FS_Subset, FS_CardinalityType DEF N
    <3> QED BY <1>1, <1>2, <2>2, <3>2, CallersCount DEF ToolInvOf
  <2> QED BY <2>1, <2>2
<1>5. ASSUME NEW t \in Tools PROVE BreakerInvOf(t)'
  BY <1>1, <1>2 DEF BreakerInvOf, IInv
<1> QED BY <1>3, <1>4, <1>5 DEF Bounded

LEMMA IInvStep == IInv /\ [Next]_vars => IInv'
<1> SUFFICES ASSUME IInv, [Next]_vars PROVE IInv'
  OBVIOUS
<1>1. TypeOK' /\ PassInv' /\ ShadowInv'
  BY SimpleStep
<1>2. CASE Next
  <2>1. Bounded'
    BY <1>2, CheckKeeps, CountKeeps, EndKeeps, SettleKeeps, BeginRunKeeps DEF Next
  <2> QED BY <1>1, <2>1 DEF Bounded, IInv
<1>3. CASE UNCHANGED vars
  <2>1. UNCHANGED <<stage, tool, total, perTool, reached, failures>>
    BY <1>3 DEF vars
  <2> QED BY <1>1, <2>1, StillSame DEF IInv, RunInv, ToolInvOf, BreakerInvOf
<1> QED BY <1>2, <1>3

LEMMA Invariance == Spec => []IInv
<1>1. Init => IInv
  BY IInvInit
<1>2. IInv /\ [Next]_vars => IInv'
  BY IInvStep
<1> QED BY <1>1, <1>2, PTL DEF Spec

LEMMA CountsOfSets ==
  /\ Cardinality(Passed) \in Nat
  /\ \A S : \A t \in Tools : Cardinality(At(S, t)) \in Nat
<1>1. Passed \in SUBSET Callers /\ \A S : \A t \in Tools : At(S, t) \in SUBSET Callers
  BY DEF Passed, At
<1> QED BY <1>1, CallersCount, FS_Subset, FS_CardinalityType

\* However many callers share the gateway, they overrun a run's budget and a
\* tool's by fewer calls than there are callers (Gateway::call, "Count before
\* running").
THEOREM OverrunIsBounded == Spec => []OverrunBounded
<1>1. IInv => OverrunBounded
  BY CountsOfSets, CallersCount, GatewayAssumption
  DEF IInv, TypeOK, RunInv, ToolInvOf, OverrunBounded, N
<1> QED BY <1>1, Invariance, PTL

\* A tool that only fails is given fewer calls past its threshold than there
\* are callers, over any number of runs, and a rehearsed tool never fails
\* (Gateway::call, the circuit breaker).
THEOREM BreakerIsBounded == Spec => []BreakerBounded
<1>1. IInv => BreakerBounded
  BY CountsOfSets, CallersCount, ThresholdType
  DEF IInv, TypeOK, ShadowInv, BreakerInvOf, BreakerBounded, N
<1> QED BY <1>1, Invariance, PTL

----------------------------------------------------------------------------
(* The audit log *)

Busy == {"passed", "rehearsing", "sent", "settled"}

Entries(t) == audit[t]["refused"] + audit[t]["rehearsed"] + audit[t]["ok"]
              + audit[t]["failed"]

LEMMA AuditType ==
  ASSUME TypeOK
  PROVE  /\ \A t \in Tools : \A k \in Kinds : audit[t][k] \in Nat
         /\ \A t \in Tools : asked[t] \in Nat /\ dropped[t] \in Nat
BY DEF TypeOK

\* record adds one entry, of that tool and kind.
LEMMA OneEntry ==
  ASSUME TypeOK, NEW u \in Tools, NEW k \in Kinds, Recorded(u, k)
  PROVE  \A t \in Tools :
           /\ Entries(t)' = Entries(t) + (IF t = u THEN 1 ELSE 0)
           /\ k \in {"refused", "rehearsed"} \/ t # u =>
                /\ audit'[t]["ok"] = audit[t]["ok"]
                /\ audit'[t]["failed"] = audit[t]["failed"]
<1> TAKE t \in Tools
<1>1. \A j \in Kinds : audit[t][j] \in Nat
  BY AuditType
<1>2. \A j \in Kinds :
        audit'[t][j] = IF t = u /\ j = k THEN audit[t][j] + 1 ELSE audit[t][j]
  BY DEF TypeOK, Recorded
<1>3. k \in {"refused", "rehearsed", "ok", "failed"}
  BY DEF Kinds
<1>4. /\ audit'[t]["refused"] = IF t = u /\ k = "refused" THEN audit[t]["refused"] + 1 ELSE audit[t]["refused"]
      /\ audit'[t]["rehearsed"] = IF t = u /\ k = "rehearsed" THEN audit[t]["rehearsed"] + 1 ELSE audit[t]["rehearsed"]
      /\ audit'[t]["ok"] = IF t = u /\ k = "ok" THEN audit[t]["ok"] + 1 ELSE audit[t]["ok"]
      /\ audit'[t]["failed"] = IF t = u /\ k = "failed" THEN audit[t]["failed"] + 1 ELSE audit[t]["failed"]
      /\ audit[t]["refused"] \in Nat /\ audit[t]["rehearsed"] \in Nat
      /\ audit[t]["ok"] \in Nat /\ audit[t]["failed"] \in Nat
  BY <1>1, <1>2 DEF Kinds
<1> QED BY <1>3, <1>4 DEF Entries

\* The sum of the property, over the calls of one tool.
Balanced(t) ==
  /\ asked[t] = Entries(t) + dropped[t] + Cardinality(At(Busy, t))
  /\ Rehearses(t) => audit[t]["ok"] = 0 /\ audit[t]["failed"] = 0 /\ dropped[t] = 0

ReceiptInv == \A t \in Tools : Balanced(t)

LEMMA EntriesType == TypeOK => \A t \in Tools : Entries(t) \in Nat
<1> SUFFICES ASSUME TypeOK, NEW t \in Tools PROVE Entries(t) \in Nat
  OBVIOUS
<1>1. /\ audit[t]["refused"] \in Nat /\ audit[t]["rehearsed"] \in Nat
      /\ audit[t]["ok"] \in Nat /\ audit[t]["failed"] \in Nat
  BY AuditType DEF Kinds
<1> QED BY <1>1 DEF Entries

LEMMA ReceiptInit == Init => ReceiptInv
<1> SUFFICES ASSUME Init, NEW t \in Tools PROVE Balanced(t)
  BY DEF ReceiptInv
<1>1. At(Busy, t) = {}
  BY DEF Init, At, Busy
<1>2. Cardinality(At(Busy, t)) = 0
  BY <1>1, FS_EmptySet
<1>3. Entries(t) = 0 /\ audit[t]["ok"] = 0 /\ audit[t]["failed"] = 0
  BY DEF Init, Entries, Kinds
<1> QED BY <1>2, <1>3 DEF Init, Balanced

\* A step of caller c that moves its call, files k or drops it.
LEMMA ReceiptStep ==
  ASSUME IInv, ReceiptInv, [Next]_vars
  PROVE  ReceiptInv'
<1> SUFFICES ASSUME NEW t \in Tools PROVE Balanced(t)'
  BY DEF ReceiptInv
<1>0. TypeOK /\ Balanced(t) /\ Entries(t) \in Nat /\ asked[t] \in Nat /\ dropped[t] \in Nat
  BY EntriesType, AuditType DEF IInv, ReceiptInv
<1>d. dryRun' = dryRun /\ dryRun \in BOOLEAN
  BY <1>0 DEF TypeOK, Next, vars, Check, Count, Rehearse, Settle, Record, Drop, BeginRun
<1>1. ASSUME NEW c \in Callers, NEW u \in Tools, Check(c, u) PROVE Balanced(t)'
  <2>1. asked'[t] = (IF t = u THEN asked[t] + 1 ELSE asked[t]) /\ dropped' = dropped
    BY <1>0, <1>1 DEF Check, TypeOK
  <2>2. CASE Refused(u)
    <3>1. Recorded(u, "refused") /\ "refused" \in Kinds /\ UNCHANGED <<stage, tool>>
      BY <1>1, <2>2 DEF Check, Kinds
    <3>2. At(Busy, t)' = At(Busy, t) /\ Cardinality(At(Busy, t)) \in Nat
      BY <3>1, StillSame, CountsOfSets
    <3> QED BY <1>0, <1>d, <2>1, <3>1, <3>2, OneEntry DEF Balanced, Rehearses
  <2>3. CASE ~Refused(u)
    <3>1. /\ stage[c] \notin Busy /\ stage'[c] \in Busy /\ tool'[c] = u
          /\ StepOf(c) /\ UNCHANGED audit
      BY <1>0, <1>1, <2>3 DEF Check, TypeOK, StepOf, Busy
    <3>2. Entries(t)' = Entries(t)
      BY <3>1 DEF Entries
    <3> QED BY <1>0, <1>d, <2>1, <3>1, <3>2, AtCount DEF Balanced, Rehearses
  <2> QED BY <2>2, <2>3
<1>2. ASSUME NEW c \in Callers, Count(c) \/ Settle(c) PROVE Balanced(t)'
  <2>1. /\ stage[c] \in Busy /\ stage'[c] \in Busy /\ tool'[c] = tool[c]
        /\ StepOf(c) /\ UNCHANGED <<audit, asked, dropped>>
    BY <1>0, <1>2 DEF Count, Settle, TypeOK, StepOf, Busy
  <2>2. Entries(t)' = Entries(t)
    BY <2>1 DEF Entries
  <2> QED BY <1>0, <1>d, <2>1, <2>2, AtCount DEF Balanced, Rehearses
<1>3. ASSUME NEW c \in Callers, NEW k \in Kinds, stage[c] \in Busy, stage'[c] = "idle",
             StepOf(c), tool[c] \in Tools, Recorded(tool[c], k),
             k \in {"refused", "rehearsed"} \/ ~Rehearses(tool[c]),
             UNCHANGED <<asked, dropped>>
      PROVE  Balanced(t)'
  <2>1. /\ Entries(t)' = Entries(t) + (IF t = tool[c] THEN 1 ELSE 0)
        /\ Rehearses(t) => /\ audit'[t]["ok"] = audit[t]["ok"]
                           /\ audit'[t]["failed"] = audit[t]["failed"]
    BY <1>0, <1>3, OneEntry
  <2>2. Cardinality(At(Busy, t))' + (IF tool[c] = t THEN 1 ELSE 0) = Cardinality(At(Busy, t))
    BY <1>3, AtCount DEF Busy
  <2>3. Cardinality(At(Busy, t))' \in Nat
    BY <1>3, AtCount
  <2> QED BY <1>0, <1>d, <1>3, <2>1, <2>2, <2>3 DEF Balanced, Rehearses
<1>4. ASSUME NEW c \in Callers, Rehearse(c) PROVE Balanced(t)'
  <2>1. /\ stage[c] \in Busy /\ stage'[c] = "idle" /\ StepOf(c) /\ tool[c] \in Tools
        /\ Recorded(tool[c], "rehearsed") /\ "rehearsed" \in Kinds
        /\ UNCHANGED <<asked, dropped>>
    BY <1>0, <1>4 DEF Rehearse, Return, TypeOK, StepOf, Busy, Kinds
  <2> QED BY <1>3, <2>1
<1>5. ASSUME NEW c \in Callers, Record(c) PROVE Balanced(t)'
  <2>1. /\ stage[c] \in Busy /\ stage'[c] = "idle" /\ StepOf(c) /\ tool[c] \in Tools
        /\ Recorded(tool[c], outcome[c]) /\ outcome[c] \in Kinds
        /\ UNCHANGED <<asked, dropped>>
    BY <1>0, <1>5 DEF Record, Return, TypeOK, StepOf, Busy, Kinds
  <2>2. ~Rehearses(tool[c])
    BY <1>5 DEF IInv, PassInv, Record
  <2> QED BY <1>3, <2>1, <2>2
<1>6. ASSUME NEW c \in Callers, Drop(c) PROVE Balanced(t)'
  <2>1. /\ stage[c] \in Busy /\ stage'[c] = "idle" /\ StepOf(c) /\ tool[c] \in Tools
        /\ dropped'[t] = (IF t = tool[c] THEN dropped[t] + 1 ELSE dropped[t])
        /\ UNCHANGED <<asked, audit>>
    BY <1>0, <1>6 DEF Drop, Return, TypeOK, StepOf, Busy
  <2>2. ~Rehearses(tool[c])
    BY <1>6 DEF IInv, PassInv, Drop
  <2>3. Entries(t)' = Entries(t)
    BY <2>1 DEF Entries
  <2>4. Cardinality(At(Busy, t))' + (IF tool[c] = t THEN 1 ELSE 0) = Cardinality(At(Busy, t))
    BY <2>1, AtCount DEF Busy
  <2>5. Cardinality(At(Busy, t))' \in Nat
    BY <2>1, AtCount
  <2> QED BY <1>0, <1>d, <2>1, <2>2, <2>3, <2>4, <2>5 DEF Balanced, Rehearses
<1>7. ASSUME UNCHANGED <<stage, tool, audit, asked, dropped>> PROVE Balanced(t)'
  <2>1. At(Busy, t)' = At(Busy, t) /\ Entries(t)' = Entries(t)
    BY <1>7, StillSame DEF Entries
  <2> QED BY <1>0, <1>d, <1>7, <2>1 DEF Balanced, Rehearses
<1> QED BY <1>1, <1>2, <1>4, <1>5, <1>6, <1>7 DEF Next, BeginRun, vars

\* The most calls of a tool that the runs before this one may have counted.
PerRunAtMost == PerTool + N - 1
Earlier == runs * PerRunAtMost

\* A call that is out at its provider, or was dropped there, was counted.
DropInv ==
  \A t \in Tools : dropped[t] + Cardinality(At({"sent"}, t)) <= Earlier + perTool[t]

LEMMA EarlierType ==
  ASSUME runs \in Nat
  PROVE  /\ PerRunAtMost \in Nat /\ Earlier \in Nat
         /\ (runs + 1) * PerRunAtMost = Earlier + PerRunAtMost
<1>1. PerRunAtMost \in Nat
  BY GatewayAssumption, CallersCount DEF PerRunAtMost
<1>2. PICK most \in Nat : most = PerRunAtMost
  BY <1>1
<1>3. runs * most \in Nat /\ (runs + 1) * most = runs * most + most
  OBVIOUS
<1> QED BY <1>1, <1>2, <1>3 DEF Earlier

LEMMA DropInit == Init => DropInv
<1> SUFFICES ASSUME Init, NEW t \in Tools
             PROVE  dropped[t] + Cardinality(At({"sent"}, t)) <= Earlier + perTool[t]
  BY DEF DropInv
<1>1. At({"sent"}, t) = {} /\ Cardinality({}) = 0
  BY FS_EmptySet DEF Init, At
<1>2. runs = 0 /\ dropped[t] = 0 /\ perTool[t] = 0
  BY DEF Init
<1>3. Earlier \in Nat
  BY <1>2, EarlierType
<1>4. Cardinality(At({"sent"}, t)) = 0
  BY <1>1
<1> QED BY <1>2, <1>3, <1>4

LEMMA DropStep ==
  ASSUME IInv, DropInv, [Next]_vars
  PROVE  DropInv'
<1> SUFFICES ASSUME NEW t \in Tools
             PROVE  (dropped[t] + Cardinality(At({"sent"}, t)) <= Earlier + perTool[t])'
  BY DEF DropInv
<1>0. /\ dropped[t] + Cardinality(At({"sent"}, t)) <= Earlier + perTool[t]
      /\ TypeOK /\ runs \in Nat /\ dropped[t] \in Nat /\ perTool[t] \in Nat
      /\ Cardinality(At({"sent"}, t)) \in Nat /\ Earlier \in Nat
  BY CountsOfSets, EarlierType DEF IInv, TypeOK, DropInv
<1>1. ASSUME NEW c \in Callers, NEW u \in Tools, Check(c, u)
      PROVE  (dropped[t] + Cardinality(At({"sent"}, t)) <= Earlier + perTool[t])'
  <2>1. UNCHANGED <<dropped, runs, perTool>>
    BY <1>1 DEF Check
  <2>2. CASE UNCHANGED <<stage, tool>>
    BY <1>0, <2>1, <2>2, StillSame DEF Earlier
  <2>3. CASE ~UNCHANGED <<stage, tool>>
    <3>1. stage[c] = "idle" /\ stage'[c] = "passed" /\ StepOf(c)
      BY <1>0, <1>1, <2>3 DEF Check, TypeOK, StepOf
    <3>2. Cardinality(At({"sent"}, t))' = Cardinality(At({"sent"}, t))
      BY <1>0, <3>1, AtCount
    <3> QED BY <1>0, <2>1, <3>2 DEF Earlier
  <2> QED BY <2>2, <2>3
<1>2. ASSUME NEW c \in Callers, Count(c)
      PROVE  (dropped[t] + Cardinality(At({"sent"}, t)) <= Earlier + perTool[t])'
  <2>1. /\ stage[c] = "passed" /\ stage'[c] \in {"rehearsing", "sent"}
        /\ tool'[c] = tool[c] /\ StepOf(c) /\ UNCHANGED <<dropped, runs>>
        /\ perTool'[t] = IF t = tool[c] THEN perTool[t] + 1 ELSE perTool[t]
    BY <1>0, <1>2 DEF Count, TypeOK, StepOf
  <2>2. Cardinality(At({"sent"}, t))' \in Nat
        /\ Cardinality(At({"sent"}, t))'
             <= Cardinality(At({"sent"}, t)) + (IF tool[c] = t THEN 1 ELSE 0)
    BY <1>0, <2>1, AtCount
  <2> QED BY <1>0, <2>1, <2>2 DEF Earlier
<1>3. ASSUME NEW c \in Callers, stage[c] # "sent", stage'[c] # "sent", StepOf(c),
             UNCHANGED <<dropped, runs, perTool>>
      PROVE  (dropped[t] + Cardinality(At({"sent"}, t)) <= Earlier + perTool[t])'
  <2>1. Cardinality(At({"sent"}, t))' = Cardinality(At({"sent"}, t))
    BY <1>0, <1>3, AtCount
  <2> QED BY <1>0, <1>3, <2>1 DEF Earlier
<1>4. ASSUME NEW c \in Callers, Rehearse(c) \/ Record(c)
      PROVE  (dropped[t] + Cardinality(At({"sent"}, t)) <= Earlier + perTool[t])'
  <2>1. /\ stage[c] # "sent" /\ stage'[c] # "sent" /\ StepOf(c)
        /\ UNCHANGED <<dropped, runs, perTool>>
    BY <1>0, <1>4 DEF Rehearse, Record, Return, TypeOK, StepOf
  <2> QED BY <1>3, <2>1
<1>5. ASSUME NEW c \in Callers, Settle(c) \/ Drop(c)
      PROVE  (dropped[t] + Cardinality(At({"sent"}, t)) <= Earlier + perTool[t])'
  <2>1. /\ stage[c] = "sent" /\ stage'[c] # "sent" /\ StepOf(c)
        /\ UNCHANGED <<runs, perTool>>
        /\ dropped'[t] <= dropped[t] + (IF tool[c] = t THEN 1 ELSE 0) /\ dropped'[t] \in Nat
    BY <1>0, <1>5 DEF Settle, Drop, Return, TypeOK, StepOf
  <2>2. /\ Cardinality(At({"sent"}, t))' \in Nat
        /\ Cardinality(At({"sent"}, t))' + (IF tool[c] = t THEN 1 ELSE 0)
             = Cardinality(At({"sent"}, t))
    BY <2>1, AtCount
  <2> QED BY <1>0, <2>1, <2>2 DEF Earlier
<1>6. ASSUME BeginRun
      PROVE  (dropped[t] + Cardinality(At({"sent"}, t)) <= Earlier + perTool[t])'
  <2>1. runs' = runs + 1 /\ perTool'[t] = 0 /\ UNCHANGED <<stage, tool, dropped>>
    BY <1>6 DEF BeginRun
  <2>2. perTool[t] <= PerRunAtMost
    <3>1. perTool[t] + Cardinality(At({"passed"}, t)) < PerTool + N
      BY DEF IInv, ToolInvOf
    <3> QED BY <1>0, <3>1, CountsOfSets, CallersCount, GatewayAssumption DEF PerRunAtMost
  <2>3. Earlier' = Earlier + PerRunAtMost /\ PerRunAtMost \in Nat
    BY <1>0, <2>1, EarlierType DEF Earlier
  <2>4. At({"sent"}, t)' = At({"sent"}, t)
    BY <2>1, StillSame
  <2> QED BY <1>0, <2>1, <2>2, <2>3, <2>4
<1>7. CASE UNCHANGED vars
  <2>1. UNCHANGED <<stage, tool, dropped, runs, perTool>>
    BY <1>7 DEF vars
  <2> QED BY <1>0, <2>1, StillSame DEF Earlier
<1> QED BY <1>1, <1>2, <1>4, <1>5, <1>6, <1>7 DEF Next

\* The audit log misses just the calls that were dropped at their provider, no
\* more of a tool than the budgets of the runs let through; every other call has
\* one entry or is under way, and a rehearsed tool is never recorded as done
\* (Gateway::call, begin_run).
THEOREM ReceiptsAlwaysMatch == Spec => []ReceiptsMatch
<1>1. Init => ReceiptInv
  BY ReceiptInit
<1>2. IInv /\ ReceiptInv /\ [Next]_vars => ReceiptInv'
  BY ReceiptStep
<1>3. IInv /\ ReceiptInv /\ DropInv => ReceiptsMatch
  <2> SUFFICES ASSUME IInv, ReceiptInv, DropInv, NEW t \in Tools
               PROVE  /\ asked[t] = audit[t]["refused"] + audit[t]["rehearsed"]
                           + audit[t]["ok"] + audit[t]["failed"] + dropped[t]
                           + Cardinality(At(Busy, t))
                      /\ dropped[t] <= (runs + 1) * PerRunAtMost
                      /\ Rehearses(t) => audit[t]["ok"] + audit[t]["failed"] + dropped[t] = 0
    BY DEF ReceiptsMatch, Busy, PerRunAtMost, N
  <2>1. dropped[t] <= (runs + 1) * PerRunAtMost
    <3>1. /\ runs \in Nat /\ dropped[t] \in Nat /\ perTool[t] \in Nat
          /\ perTool[t] + Cardinality(At({"passed"}, t)) < PerTool + N
          /\ Cardinality(At({"passed"}, t)) \in Nat /\ Cardinality(At({"sent"}, t)) \in Nat
          /\ dropped[t] + Cardinality(At({"sent"}, t)) <= Earlier + perTool[t]
      BY CountsOfSets DEF IInv, TypeOK, ToolInvOf, DropInv
    <3>2. perTool[t] <= PerRunAtMost
      BY <3>1, CallersCount, GatewayAssumption DEF PerRunAtMost
    <3> QED BY <3>1, <3>2, EarlierType
  <2> QED BY <2>1 DEF ReceiptInv, Balanced, Entries
<1>4. Init => DropInv
  BY DropInit
<1>5. IInv /\ DropInv /\ [Next]_vars => DropInv'
  BY DropStep
<1> QED BY <1>1, <1>2, <1>3, <1>4, <1>5, Invariance, PTL DEF Spec

----------------------------------------------------------------------------
(* The open circuit *)

\* Once a tool's circuit is open with none of its calls under way, no step
\* closes it (Gateway::call refuses; begin_run keeps the failures).
THEOREM OpenIsForEver == Spec => OpenStaysOpen
<1> DEFINE Keeps(t) == Open(t) /\ At({"passed", "sent"}, t) = {} =>
                         failures'[t] = failures[t] /\ At({"passed", "sent"}, t)' = {}
<1>1. IInv /\ [Next]_vars => [\A t \in Tools : Keeps(t)]_vars
  <2> SUFFICES ASSUME IInv, Next, NEW t \in Tools, Open(t), At({"passed", "sent"}, t) = {}
               PROVE  failures'[t] = failures[t] /\ At({"passed", "sent"}, t)' = {}
    OBVIOUS
  <2>1. TypeOK /\ \A c \in Callers : stage[c] \in {"passed", "sent"} => tool[c] # t
    BY DEF At, IInv
  <2>2. ASSUME NEW c \in Callers, NEW u \in Tools, Check(c, u)
        PROVE  /\ failures'[t] = failures[t]
               /\ \A d \in Callers : stage'[d] \in {"passed", "sent"} => tool'[d] # t
    BY <2>1, <2>2 DEF Check, Refused, TypeOK
  <2>3. ASSUME NEW c \in Callers, Count(c) \/ Rehearse(c) \/ Settle(c) \/ Record(c) \/ Drop(c)
        PROVE  /\ failures'[t] = failures[t]
               /\ \A d \in Callers : stage'[d] \in {"passed", "sent"} => tool'[d] # t
    BY <2>1, <2>3 DEF Count, Rehearse, Settle, Record, Drop, Return, TypeOK
  <2>4. ASSUME BeginRun
        PROVE  /\ failures'[t] = failures[t]
               /\ \A d \in Callers : stage'[d] \in {"passed", "sent"} => tool'[d] # t
    BY <2>1, <2>4 DEF BeginRun
  <2> QED BY <2>2, <2>3, <2>4 DEF Next, At
<1> QED BY <1>1, Invariance, PTL DEF Spec, OpenStaysOpen

----------------------------------------------------------------------------
(* Agent implements Gateway *)

LEMMA StepRefines == [AgentNext]_allVars => [Next]_vars
<1> SUFFICES ASSUME [AgentNext]_allVars PROVE [Next]_vars
  OBVIOUS
<1>1. CASE Calls
  BY <1>1 DEF Calls, Next
<1>2. CASE Converse
  BY <1>2 DEF Converse, Next
<1>3. ASSUME NEW c \in Callers,
             Leave(c) \/ Post(c) \/ Arrive(c) \/ Deliver(c) \/ Lose(c)
               \/ Fetch(c) \/ Round(c) \/ Response(c) \/ RunSystem(c)
      PROVE  [Next]_vars
  <2>1. Drop(c) \/ Settle(c) \/ UNCHANGED vars
    <3>1. CASE Leave(c)
      BY <3>1 DEF Leave
    <3>2. CASE Post(c)
      BY <3>2 DEF Post, Goes, Answered
    <3>3. CASE Arrive(c)
      BY <3>3 DEF Arrive, Goes
    <3>4. CASE Deliver(c) \/ Lose(c)
      BY <3>4 DEF Deliver, Lose, Answered
    <3>5. CASE Fetch(c) \/ Round(c)
      BY <3>5 DEF Fetch, Round, Answered
    <3>6. CASE Response(c)
      BY <3>6 DEF Response, Answered
    <3>7. CASE RunSystem(c)
      BY <3>7 DEF RunSystem, Answered
    <3> QED BY <1>3, <3>1, <3>2, <3>3, <3>4, <3>5, <3>6, <3>7
  <2> QED BY <2>1 DEF Next
<1>4. ASSUME NEW t \in Posting, StrayEnds(t) PROVE [Next]_vars
  BY <1>4 DEF StrayEnds
<1>5. CASE UNCHANGED allVars
  BY <1>5 DEF allVars
<1> QED BY <1>1, <1>2, <1>3, <1>4, <1>5 DEF AgentNext

\* Where Gateway lets a provider answer anything, the providers of Agent answer
\* what comes of what they did: every behaviour of Agent is one of Gateway.
THEOREM AgentImplementsGateway == AgentSpec => Spec
<1>1. AgentInit => Init
  BY DEF AgentInit
<1>2. [AgentNext]_allVars => [Next]_vars
  BY StepRefines
<1> QED BY <1>1, <1>2, PTL DEF AgentSpec, Spec

\* Whatever the tools do, the budgets are overrun by no more than one call for
\* each other caller (Gateway::call).
THEOREM AgentOverrunIsBounded == AgentSpec => []OverrunBounded
BY AgentImplementsGateway, OverrunIsBounded, PTL

\* Whatever the tools do, the audit log misses only the calls that were left at
\* their provider, and of those no more than the budgets let through
\* (Gateway::call).
THEOREM AgentReceiptsMatch == AgentSpec => []ReceiptsMatch
BY AgentImplementsGateway, ReceiptsAlwaysMatch, PTL

\* Whatever the tools do, one that only fails is cut off after its threshold
\* and at most one call more for each other caller (settle).
THEOREM AgentBreakerIsBounded == AgentSpec => []BreakerBounded
BY AgentImplementsGateway, BreakerIsBounded, PTL

----------------------------------------------------------------------------
(* What the providers are at *)

Networking == {"out"} \cup Statuses

\* A provider is at work for a call that was sent to it, of its own tools.
WorkInv ==
  \A c \in Callers :
    /\ work[c].at \in Networking => stage[c] = "sent" /\ tool[c] \in Posting
    /\ work[c].at \in {"check", "request"} => stage[c] = "sent" /\ tool[c] \in Fetching

AgentTypes ==
  /\ work \in [Callers -> [at : Works, host : Hosts \cup {"malformed", None}, requests : 0..Rounds]]
  /\ posts \in [Posting -> Nat] /\ strays \in [Posting -> Nat]
  /\ unsure \in [Posting -> Nat]
  /\ ran \subseteq System

AgentInv == AgentTypes /\ WorkInv /\ DryRunIsDry

LEMMA AgentInvInit == AgentInit => AgentInv
<1> SUFFICES ASSUME AgentInit PROVE AgentInv
  OBVIOUS
<1>1. NoWork \in [at : Works, host : Hosts \cup {"malformed", None}, requests : 0..Rounds]
  BY AgentAssumption DEF NoWork, Works
<1>2. AgentTypes
  BY <1>1 DEF AgentInit, AgentTypes
<1>3. WorkInv
  BY DEF AgentInit, WorkInv, NoWork, Networking, Statuses
<1>4. DryRunIsDry
  BY DEF AgentInit, DryRunIsDry
<1> QED BY <1>2, <1>3, <1>4 DEF AgentInv

\* What a step leaves of the callers that do not take it.
Others(c) ==
  \A d \in Callers \ {c} :
    /\ work'[d] = work[d] /\ stage'[d] = stage[d]
    /\ tool'[d] = tool[d] /\ outcome'[d] = outcome[d]

\* An answer ends the provider's work, and leaves the call to be recorded.
LEMMA AnsweredStep ==
  ASSUME TypeOK, AgentTypes, NEW c \in Callers, NEW o \in {"ok", "failed"}, Answered(c, o)
  PROVE  /\ stage[c] = "sent" /\ stage'[c] = "settled" /\ tool' = tool
         /\ outcome'[c] = o /\ work'[c] = NoWork /\ Others(c)
         /\ work' \in [Callers -> [at : Works, host : Hosts \cup {"malformed", None}, requests : 0..Rounds]]
         /\ UNCHANGED <<audit, dropped, dryRun>>
<1>1. NoWork \in [at : Works, host : Hosts \cup {"malformed", None}, requests : 0..Rounds]
  BY AgentAssumption DEF NoWork, Works
<1>2. Settle(c) /\ outcome'[c] = o /\ work' = [work EXCEPT ![c] = NoWork]
  BY DEF Answered
<1>3. stage[c] = "sent" /\ stage'[c] = "settled" /\ tool' = tool /\ UNCHANGED <<audit, dropped, dryRun>>
  BY <1>2 DEF TypeOK, Settle
<1>4. work'[c] = NoWork
      /\ work' \in [Callers -> [at : Works, host : Hosts \cup {"malformed", None}, requests : 0..Rounds]]
  BY <1>1, <1>2 DEF AgentTypes
<1>5. Others(c)
  <2> SUFFICES ASSUME NEW d \in Callers \ {c}
               PROVE  /\ work'[d] = work[d] /\ stage'[d] = stage[d]
                      /\ tool'[d] = tool[d] /\ outcome'[d] = outcome[d]
    BY DEF Others
  <2>1. stage'[d] = stage[d] /\ outcome'[d] = outcome[d]
    BY <1>2 DEF TypeOK, Settle
  <2>2. work'[d] = work[d]
    BY <1>2 DEF AgentTypes
  <2> QED BY <1>3, <2>1, <2>2
<1> QED BY <1>2, <1>3, <1>4, <1>5

\* A provider that goes on to the next stage of its work moves nothing else.
LEMMA GoesStep ==
  ASSUME AgentTypes, NEW c \in Callers, NEW at \in Works, Goes(c, at)
  PROVE  /\ work'[c] = [work[c] EXCEPT !.at = at] /\ work'[c].at = at
         /\ work'[c].host = work[c].host
         /\ Others(c) /\ UNCHANGED vars
         /\ work' \in [Callers -> [at : Works, host : Hosts \cup {"malformed", None}, requests : 0..Rounds]]
<1>1. work' = [work EXCEPT ![c].at = at] /\ UNCHANGED vars
  BY DEF Goes
<1>2. [work[c] EXCEPT !.at = at] \in [at : Works, host : Hosts \cup {"malformed", None}, requests : 0..Rounds]
  BY DEF AgentTypes
<1>3. work'[c] = [work[c] EXCEPT !.at = at]
  BY <1>1 DEF AgentTypes
<1>4. work'[c].at = at /\ work'[c].host = work[c].host
  BY <1>3 DEF AgentTypes
<1>5. Others(c)
  BY <1>1 DEF Others, AgentTypes, vars
<1>6. work' \in [Callers -> [at : Works, host : Hosts \cup {"malformed", None}, requests : 0..Rounds]]
  BY <1>1, <1>2 DEF AgentTypes
<1> QED BY <1>1, <1>3, <1>4, <1>5, <1>6

\* WorkInv, of one caller.
WorkOf(c) ==
  /\ work[c].at \in Networking => stage[c] = "sent" /\ tool[c] \in Posting
  /\ work[c].at \in {"check", "request"} => stage[c] = "sent" /\ tool[c] \in Fetching

LEMMA WorkKept ==
  ASSUME WorkInv, NEW c \in Callers, Others(c), WorkOf(c)'
  PROVE  WorkInv'
BY DEF WorkInv, WorkOf, Others

LEMMA ModeKept == [Next]_vars => dryRun' = dryRun
BY DEF Next, vars, Check, Count, Rehearse, Settle, Record, Drop, BeginRun

\* A post that left, and a command that changes the machine, were not a dry
\* run's.
LEMMA OutIsWet ==
  ASSUME PassInv, WorkInv, NEW c \in Callers
  PROVE  /\ work[c].at \in Networking => ~dryRun
         /\ stage[c] = "sent" /\ tool[c] \in Tools \cap Changing => ~dryRun
<1>1. \A t \in Posting \cup (Tools \cap Changing) : Effect[t] = "external"
  BY AgentAssumption DEF Posting, Social, Changing, Label
<1>2. stage[c] = "sent" => ~Rehearses(tool[c])
  BY DEF PassInv
<1> QED BY <1>1, <1>2 DEF WorkInv, Rehearses

\* Answered or gone: a caller whose provider has no more to do.
LEMMA NoWorkFits ==
  ASSUME NEW c \in Callers, work'[c] = NoWork
  PROVE  WorkOf(c)'
BY DEF WorkOf, NoWork, Networking, Statuses

LEMMA CallsKeep ==
  ASSUME TypeOK, AgentInv, Calls \/ Converse \/ UNCHANGED allVars
  PROVE  AgentInv'
<1>1. UNCHANGED agentVars
  BY DEF Calls, Converse, allVars
<1>2. AgentTypes' /\ (dryRun' = dryRun => DryRunIsDry')
  BY <1>1 DEF AgentInv, AgentTypes, DryRunIsDry, agentVars
<1>3. [Next]_vars
  BY DEF Calls, Converse, Next, allVars
<1>4. \A c \in Callers : stage[c] = "sent" => stage'[c] = "sent" /\ tool'[c] = tool[c]
  <2>1. CASE UNCHANGED allVars \/ Converse
    BY <2>1 DEF Converse, BeginRun, allVars, vars
  <2>2. ASSUME NEW c \in Callers, NEW t \in Tools, Check(c, t) PROVE <1>4
    BY <2>2 DEF TypeOK, Check
  <2>3. ASSUME NEW c \in Callers, Count(c) PROVE <1>4
    BY <2>3 DEF TypeOK, Count
  <2>4. ASSUME NEW c \in Callers, Rehearse(c) \/ Record(c) PROVE <1>4
    BY <2>4 DEF TypeOK, Rehearse, Record, Return
  <2> QED BY <2>1, <2>2, <2>3, <2>4 DEF Calls
<1>5. WorkInv'
  BY <1>1, <1>4 DEF AgentInv, WorkInv, agentVars, Networking
<1> QED BY <1>2, <1>3, <1>5, ModeKept DEF AgentInv

LEMMA AbandonedType ==
  ASSUME AgentTypes, WorkInv, NEW c \in Callers, Abandoned(c)
  PROVE  strays' \in [Posting -> Nat] /\ (work[c].at # "out" => strays' = strays)
<1>1. CASE strays' = strays
  BY <1>1 DEF AgentTypes
<1>2. CASE work[c].at = "out" /\ strays' = [strays EXCEPT ![tool[c]] = @ + 1]
  <2>1. tool[c] \in Posting
    BY <1>2 DEF WorkInv, Networking
  <2>2. strays[tool[c]] + 1 \in Nat
    BY <2>1 DEF AgentTypes
  <2> QED BY <1>2, <2>1, <2>2 DEF AgentTypes
<1> QED BY <1>1, <1>2 DEF Abandoned

LEMMA LeaveKeeps ==
  ASSUME TypeOK, PassInv, AgentInv, NEW c \in Callers, Leave(c)
  PROVE  AgentInv'
<1>1. NoWork \in [at : Works, host : Hosts \cup {"malformed", None}, requests : 0..Rounds]
  BY AgentAssumption DEF NoWork, Works
<1>2. work' = [work EXCEPT ![c] = NoWork] /\ UNCHANGED <<posts, ran, unsure, dryRun>>
  BY DEF Leave, Drop
<1>3. strays' \in [Posting -> Nat] /\ (work[c].at # "out" => strays' = strays)
  BY AbandonedType DEF AgentInv, Leave
<1>4. AgentTypes' /\ work'[c] = NoWork
  BY <1>1, <1>2, <1>3 DEF AgentInv, AgentTypes
<1>5. Others(c)
  BY <1>2 DEF Leave, Drop, Return, Others, TypeOK, AgentInv, AgentTypes
<1>6. WorkInv'
  BY <1>4, <1>5, NoWorkFits, WorkKept DEF AgentInv
<1>7. DryRunIsDry'
  BY <1>2, <1>3, OutIsWet DEF AgentInv, DryRunIsDry, Networking
<1> QED BY <1>4, <1>6, <1>7 DEF AgentInv

LEMMA PostKeeps ==
  ASSUME TypeOK, PassInv, AgentInv, NEW c \in Callers, Post(c)
  PROVE  AgentInv'
<1>1. Idle(c, Posting) /\ UNCHANGED <<posts, strays, ran, unsure>>
  BY DEF Post
<1>2. CASE Goes(c, "out")
  <2>1. "out" \in Works
    BY DEF Works
  <2>2. /\ work'[c].at = "out" /\ Others(c) /\ UNCHANGED vars
        /\ work' \in [Callers -> [at : Works, host : Hosts \cup {"malformed", None}, requests : 0..Rounds]]
    BY <1>2, <2>1, GoesStep DEF AgentInv
  <2>3. AgentTypes' /\ DryRunIsDry'
    BY <1>1, <2>2 DEF AgentInv, AgentTypes, DryRunIsDry, vars
  <2>4. WorkOf(c)'
    BY <1>1, <2>2 DEF WorkOf, Idle, vars
  <2> QED BY <2>2, <2>3, <2>4, WorkKept DEF AgentInv
<1>3. CASE Answered(c, "failed")
  <2>1. /\ work'[c] = NoWork /\ Others(c) /\ dryRun' = dryRun
        /\ work' \in [Callers -> [at : Works, host : Hosts \cup {"malformed", None}, requests : 0..Rounds]]
    BY <1>3, AnsweredStep DEF AgentInv
  <2>2. AgentTypes' /\ DryRunIsDry'
    BY <1>1, <2>1 DEF AgentInv, AgentTypes, DryRunIsDry
  <2> QED BY <2>1, <2>2, NoWorkFits, WorkKept DEF AgentInv
<1> QED BY <1>2, <1>3 DEF Post

LEMMA ArriveKeeps ==
  ASSUME TypeOK, PassInv, AgentInv, NEW c \in Callers, Arrive(c)
  PROVE  AgentInv'
<1> DEFINE taken == [posts EXCEPT ![tool[c]] = @ + 1]
<1>1. tool[c] \in Posting /\ stage[c] = "sent" /\ ~dryRun
  BY OutIsWet DEF Arrive, AgentInv, WorkInv, Networking
<1>2. taken \in [Posting -> Nat]
  <2>1. posts[tool[c]] + 1 \in Nat
    BY <1>1 DEF AgentInv, AgentTypes
  <2> QED BY <1>1, <2>1 DEF AgentInv, AgentTypes
<1>3. PICK at \in Statuses : Goes(c, at)
  BY DEF Arrive, Statuses
<1>4. /\ work'[c].at = at /\ Others(c) /\ UNCHANGED vars
      /\ work' \in [Callers -> [at : Works, host : Hosts \cup {"malformed", None}, requests : 0..Rounds]]
  <2>1. at \in Works
    BY DEF Works
  <2> QED BY <1>3, <2>1, GoesStep DEF AgentInv
<1>5. posts' \in {posts, taken} /\ UNCHANGED <<strays, ran, unsure>>
  BY DEF Arrive
<1>6. AgentTypes'
  BY <1>2, <1>4, <1>5 DEF AgentInv, AgentTypes
<1>7. WorkOf(c)'
  BY <1>1, <1>4 DEF WorkOf, vars, Statuses
<1>8. DryRunIsDry'
  BY <1>1, <1>4 DEF DryRunIsDry, vars
<1> QED BY <1>4, <1>6, <1>7, <1>8, WorkKept DEF AgentInv

LEMMA AnswerKeeps ==
  ASSUME TypeOK, PassInv, AgentInv, NEW c \in Callers, Deliver(c) \/ Lose(c)
  PROVE  AgentInv'
<1>1. tool[c] \in Posting /\ work[c].at \in Networking /\ ~dryRun
  BY OutIsWet DEF Deliver, Lose, AgentInv, WorkInv, Networking
<1>2. PICK o \in {"ok", "failed"} : Answered(c, o)
  BY DEF Deliver, Lose
<1>3. /\ work'[c] = NoWork /\ Others(c) /\ dryRun' = dryRun
      /\ work' \in [Callers -> [at : Works, host : Hosts \cup {"malformed", None}, requests : 0..Rounds]]
  BY <1>2, AnsweredStep DEF AgentInv
<1>4. unsure' \in [Posting -> Nat]
  <2>1. PICK k \in {0, 1} : unsure' = [unsure EXCEPT ![tool[c]] = @ + k]
    BY DEF Deliver, Lose, Unsure
  <2>2. unsure[tool[c]] + k \in Nat
    BY <1>1 DEF AgentInv, AgentTypes
  <2> QED BY <1>1, <2>1, <2>2 DEF AgentInv, AgentTypes
<1>5. strays' \in [Posting -> Nat]
  BY AbandonedType DEF Deliver, Lose, AgentInv, AgentTypes
<1>6. AgentTypes'
  BY <1>3, <1>4, <1>5 DEF Deliver, Lose, AgentInv, AgentTypes
<1>7. DryRunIsDry'
  BY <1>1, <1>3 DEF DryRunIsDry
<1> QED BY <1>3, <1>6, <1>7, NoWorkFits, WorkKept DEF AgentInv

LEMMA StrayKeeps ==
  ASSUME TypeOK, AgentInv, NEW t \in Posting, StrayEnds(t)
  PROVE  AgentInv'
<1>1. /\ strays[t] \in Nat /\ strays[t] > 0 /\ posts[t] + 1 \in Nat
      /\ strays' = [strays EXCEPT ![t] = @ - 1]
      /\ posts' \in {posts, [posts EXCEPT ![t] = @ + 1]}
      /\ UNCHANGED <<vars, work, ran, unsure>>
  BY DEF StrayEnds, AgentInv, AgentTypes
<1>2. strays' \in [Posting -> Nat] /\ posts' \in [Posting -> Nat]
  BY <1>1 DEF AgentInv, AgentTypes
<1>3. AgentTypes'
  BY <1>1, <1>2 DEF AgentInv, AgentTypes
<1>4. WorkInv'
  BY <1>1 DEF AgentInv, WorkInv, vars
<1>5. DryRunIsDry'
  BY <1>1 DEF AgentInv, DryRunIsDry, vars
<1> QED BY <1>3, <1>4, <1>5 DEF AgentInv

\* An answer of a fetch, or of a command, in the part of it that all share.
LEMMA AnswersKeep ==
  ASSUME TypeOK, AgentInv, NEW c \in Callers, NEW o \in {"ok", "failed"},
         Answered(c, o), UNCHANGED <<posts, strays, unsure>>
  PROVE  /\ ran' = ran => AgentInv'
         /\ ran' \in SUBSET System => AgentTypes'
         /\ WorkInv' /\ dryRun' = dryRun
<1>1. /\ work'[c] = NoWork /\ Others(c) /\ dryRun' = dryRun
      /\ work' \in [Callers -> [at : Works, host : Hosts \cup {"malformed", None}, requests : 0..Rounds]]
  BY AnsweredStep DEF AgentInv
<1>2. WorkInv'
  BY <1>1, NoWorkFits, WorkKept DEF AgentInv
<1>3. ran' \in SUBSET System => AgentTypes'
  BY <1>1 DEF AgentInv, AgentTypes
<1>4. ran' = ran => AgentTypes' /\ DryRunIsDry'
  BY <1>1, <1>3 DEF AgentInv, AgentTypes, DryRunIsDry
<1> QED BY <1>1, <1>2, <1>3, <1>4 DEF AgentInv

LEMMA FetchKeeps ==
  ASSUME TypeOK, AgentInv, NEW c \in Callers, Fetch(c)
  PROVE  AgentInv'
<1>1. Idle(c, Fetching) /\ UNCHANGED <<posts, strays, ran, unsure>>
  BY DEF Fetch
<1>2. CASE Answered(c, "failed")
  BY <1>1, <1>2, AnswersKeep
<1>3. ASSUME NEW url \in Hosts \cup {"malformed"}, UNCHANGED vars,
             work' = [work EXCEPT ![c] = [at |-> "check", host |-> url, requests |-> 0]]
      PROVE  AgentInv'
  <2>1. [at |-> "check", host |-> url, requests |-> 0]
          \in [at : Works, host : Hosts \cup {"malformed", None}, requests : 0..Rounds]
    BY AgentAssumption DEF Works
  <2>2. AgentTypes' /\ work'[c].at = "check"
    BY <1>1, <1>3, <2>1 DEF AgentInv, AgentTypes
  <2>3. Others(c)
    BY <1>3 DEF Others, AgentInv, AgentTypes, vars
  <2>4. WorkOf(c)'
    BY <1>1, <1>3, <2>2 DEF WorkOf, Idle, vars, Networking, Statuses
  <2>5. DryRunIsDry'
    BY <1>1, <1>3 DEF AgentInv, DryRunIsDry, vars
  <2> QED BY <2>2, <2>3, <2>4, <2>5, WorkKept DEF AgentInv
<1> QED BY <1>2, <1>3 DEF Fetch

LEMMA RoundKeeps ==
  ASSUME TypeOK, AgentInv, NEW c \in Callers, Round(c)
  PROVE  AgentInv'
<1>1. /\ work[c].at = "check" /\ stage[c] = "sent" /\ tool[c] \in Fetching
      /\ UNCHANGED <<posts, strays, ran, unsure>>
  BY DEF Round, AgentInv, WorkInv
<1>2. CASE Answered(c, "failed")
  BY <1>1, <1>2, AnswersKeep
<1>3. ASSUME work[c].requests < Rounds, UNCHANGED vars,
             work' = [work EXCEPT ![c].at = "request", ![c].requests = @ + 1]
      PROVE  AgentInv'
  <2> DEFINE new == [[work[c] EXCEPT !.at = "request"] EXCEPT !.requests = @ + 1]
  <2>1. /\ work[c] \in [at : Works, host : Hosts \cup {"malformed", None}, requests : 0..Rounds]
        /\ work[c].requests + 1 \in 0..Rounds /\ "request" \in Works
    BY <1>3, AgentAssumption DEF AgentInv, AgentTypes, Works
  <2>2. /\ new \in [at : Works, host : Hosts \cup {"malformed", None}, requests : 0..Rounds]
        /\ new.at = "request" /\ new.host = work[c].host
    BY <2>1
  <2>3. work' = [work EXCEPT ![c] = new]
    BY <1>3, <2>1 DEF AgentInv, AgentTypes
  <2> HIDE DEF new
  <2>4. AgentTypes' /\ work'[c] = new
    BY <1>1, <2>2, <2>3 DEF AgentInv, AgentTypes
  <2>5. Others(c)
    BY <1>3, <2>3 DEF Others, AgentInv, AgentTypes, vars
  <2>6. WorkOf(c)'
    BY <1>1, <1>3, <2>2, <2>4 DEF WorkOf, vars, Networking, Statuses
  <2>7. DryRunIsDry'
    BY <1>1, <1>3 DEF AgentInv, DryRunIsDry, vars
  <2> QED BY <2>4, <2>5, <2>6, <2>7, WorkKept DEF AgentInv
<1> QED BY <1>2, <1>3 DEF Round

LEMMA ResponseKeeps ==
  ASSUME TypeOK, AgentInv, NEW c \in Callers, Response(c)
  PROVE  AgentInv'
<1>1. /\ work[c].at = "request" /\ stage[c] = "sent" /\ tool[c] \in Fetching
      /\ UNCHANGED <<posts, strays, ran, unsure>>
  BY DEF Response, AgentInv, WorkInv
<1>2. ASSUME NEW o \in {"ok", "failed"}, Answered(c, o) PROVE AgentInv'
  BY <1>1, <1>2, AnswersKeep
<1>3. ASSUME Redirected(c), UNCHANGED vars PROVE AgentInv'
  <2>1. PICK location \in Locations :
          work' = [work EXCEPT ![c].at = "check", ![c].host = Resolved(@, location)]
    BY <1>3 DEF Redirected
  <2> DEFINE host == Resolved(work[c].host, location)
             new == [[work[c] EXCEPT !.at = "check"] EXCEPT !.host = host]
  <2>2. /\ work[c] \in [at : Works, host : Hosts \cup {"malformed", None}, requests : 0..Rounds]
        /\ host \in Hosts \cup {"malformed", None} /\ "check" \in Works
    BY DEF AgentInv, AgentTypes, Works, Resolved, Locations
  <2>3. work' = [work EXCEPT ![c] = new]
    BY <2>1, <2>2 DEF AgentInv, AgentTypes
  <2> HIDE DEF host
  <2>4. /\ new \in [at : Works, host : Hosts \cup {"malformed", None}, requests : 0..Rounds]
        /\ new.at = "check"
    BY <2>2
  <2> HIDE DEF new
  <2>5. AgentTypes' /\ work'[c] = new
    BY <1>1, <2>3, <2>4 DEF AgentInv, AgentTypes
  <2>6. Others(c)
    BY <1>3, <2>3 DEF Others, AgentInv, AgentTypes, vars
  <2>7. WorkOf(c)'
    BY <1>1, <1>3, <2>4, <2>5 DEF WorkOf, vars, Networking, Statuses
  <2>8. DryRunIsDry'
    BY <1>1, <1>3 DEF AgentInv, DryRunIsDry, vars
  <2> QED BY <2>5, <2>6, <2>7, <2>8, WorkKept DEF AgentInv
<1> QED BY <1>2, <1>3 DEF Response

LEMMA SystemKeeps ==
  ASSUME TypeOK, PassInv, AgentInv, NEW c \in Callers, RunSystem(c)
  PROVE  AgentInv'
<1>1. stage[c] = "sent" /\ tool[c] \in System /\ UNCHANGED <<posts, strays, unsure>>
  BY DEF RunSystem, Idle
<1>2. PICK o \in {"ok", "failed"} : Answered(c, o)
  BY DEF RunSystem
<1>3. ran' \in {ran, ran \cup ({tool[c]} \cap Changing)}
  BY DEF RunSystem
<1>4. ran' \in SUBSET System
  BY <1>3 DEF AgentInv, AgentTypes, Changing, System
<1>5. tool[c] \in Tools
  BY <1>1 DEF TypeOK
<1>6. dryRun => ran' = ran
  BY <1>1, <1>3, <1>5, OutIsWet DEF AgentInv
<1>7. AgentTypes' /\ WorkInv' /\ dryRun' = dryRun
  BY <1>1, <1>2, <1>4, AnswersKeep
<1>8. DryRunIsDry'
  BY <1>1, <1>6, <1>7 DEF AgentInv, DryRunIsDry
<1> QED BY <1>7, <1>8 DEF AgentInv

LEMMA AgentInvStep ==
  ASSUME IInv, AgentInv, [AgentNext]_allVars
  PROVE  AgentInv'
<1> USE DEF IInv
<1>1. CASE Calls \/ Converse \/ UNCHANGED allVars
  BY <1>1, CallsKeep
<1>2. ASSUME NEW c \in Callers, Leave(c) \/ Post(c) \/ Arrive(c) PROVE AgentInv'
  BY <1>2, LeaveKeeps, PostKeeps, ArriveKeeps
<1>3. ASSUME NEW c \in Callers, Deliver(c) \/ Lose(c) PROVE AgentInv'
  BY <1>3, AnswerKeeps
<1>4. ASSUME NEW c \in Callers, Fetch(c) \/ Round(c) \/ Response(c) PROVE AgentInv'
  BY <1>4, FetchKeeps, RoundKeeps, ResponseKeeps
<1>5. ASSUME NEW c \in Callers, RunSystem(c) PROVE AgentInv'
  BY <1>5, SystemKeeps
<1>6. ASSUME NEW t \in Posting, StrayEnds(t) PROVE AgentInv'
  BY <1>6, StrayKeeps
<1> QED BY <1>1, <1>2, <1>3, <1>4, <1>5, <1>6 DEF AgentNext

LEMMA AgentInvariance == AgentSpec => []AgentInv
<1>1. AgentInit => AgentInv
  BY AgentInvInit
<1>2. IInv /\ AgentInv /\ [AgentNext]_allVars => AgentInv'
  BY AgentInvStep
<1>3. AgentSpec => []IInv
  BY AgentImplementsGateway, Invariance, PTL
<1> QED BY <1>1, <1>2, <1>3, PTL DEF AgentSpec

\* The types of Agent's variables, and that no provider is at work for a caller
\* whose call was not sent to it (Gateway::call).
THEOREM AgentTypeCorrect == AgentSpec => []AgentTypeOK
<1>1. IInv /\ AgentInv => AgentTypeOK
  BY DEF IInv, AgentInv, AgentTypes, WorkInv, AgentTypeOK, Works, Networking
<1>2. AgentSpec => []IInv
  BY AgentImplementsGateway, Invariance, PTL
<1> QED BY <1>1, <1>2, AgentInvariance, PTL

\* In a dry run no post is made and no command changes the machine, whatever
\* the callers ask for (the labels of ToolProvider::list against its call).
THEOREM DryRunsAreDry == AgentSpec => []DryRunIsDry
<1>1. AgentInv => DryRunIsDry
  BY DEF AgentInv
<1> QED BY <1>1, AgentInvariance, PTL

----------------------------------------------------------------------------
(* The audit log brackets the posts *)

\* Callers whose post succeeded and is not recorded yet.
SaidOk(t) == {c \in At({"settled"}, t) : outcome[c] = "ok"}

\* Posts of t that are recorded as sent, or will be unless the caller leaves or
\* the answer is lost.
Sent(t) ==
  audit[t]["ok"] + Cardinality(SaidOk(t)) + Cardinality(Working({"success"}, t))
Errors(t) == Cardinality(Working({"error"}, t))

BracketOf(t) ==
  /\ Sent(t) <= posts[t]
  /\ posts[t] + strays[t] <= Sent(t) + unsure[t] + dropped[t] + Errors(t)

BracketInv == \A t \in Posting : BracketOf(t)

\* What one caller adds to Sent and to Errors.
Adds(c, t) ==
  IF tool[c] = t /\ ((stage[c] = "settled" /\ outcome[c] = "ok") \/ work[c].at = "success")
  THEN 1 ELSE 0
AddsError(c, t) == IF tool[c] = t /\ work[c].at = "error" THEN 1 ELSE 0

LEMMA NumberTypes ==
  ASSUME TypeOK, AgentTypes, NEW t \in Posting
  PROVE  /\ t \in Tools
         /\ posts[t] \in Nat /\ strays[t] \in Nat /\ unsure[t] \in Nat
         /\ dropped[t] \in Nat /\ audit[t]["ok"] \in Nat
         /\ Sent(t) \in Nat /\ Errors(t) \in Nat
<1>1. t \in Tools
  BY DEF Posting
<1>2. "ok" \in Kinds
  BY DEF Kinds
<1>3. audit[t]["ok"] \in Nat
  BY <1>1, <1>2 DEF TypeOK
<1>4. \A S \in SUBSET Callers : Cardinality(S) \in Nat
  BY CallersCount, FS_Subset, FS_CardinalityType
<1>5. /\ SaidOk(t) \in SUBSET Callers /\ Working({"success"}, t) \in SUBSET Callers
      /\ Working({"error"}, t) \in SUBSET Callers
  BY DEF SaidOk, At, Working
<1>6. Sent(t) \in Nat /\ Errors(t) \in Nat
  BY <1>3, <1>4, <1>5 DEF Sent, Errors
<1> QED BY <1>1, <1>3, <1>6 DEF TypeOK, AgentTypes

\* A step of one caller moves the sums by what it adds and what is recorded.
LEMMA SumsMove ==
  ASSUME TypeOK, TypeOK', AgentTypes, AgentTypes', WorkInv, WorkInv',
         NEW c \in Callers, NEW t \in Posting, Others(c)
  PROVE  /\ Sent(t)' = Sent(t) + (audit'[t]["ok"] - audit[t]["ok"]) + (Adds(c, t)' - Adds(c, t))
         /\ Errors(t)' = Errors(t) + (AddsError(c, t)' - AddsError(c, t))
<1> DEFINE A == SaidOk(t)
           B == Working({"success"}, t)
           E == Working({"error"}, t)
           A1 == SaidOk(t)'
           B1 == Working({"success"}, t)'
           E1 == Working({"error"}, t)'
<1>1. /\ A \in SUBSET Callers /\ A1 \in SUBSET Callers /\ A \ {c} = A1 \ {c}
      /\ c \in A <=> stage[c] = "settled" /\ tool[c] = t /\ outcome[c] = "ok"
      /\ c \in A1 <=> stage'[c] = "settled" /\ tool'[c] = t /\ outcome'[c] = "ok"
  BY DEF SaidOk, At, Others
<1>2. /\ B \in SUBSET Callers /\ B1 \in SUBSET Callers /\ B \ {c} = B1 \ {c}
      /\ c \in B <=> tool[c] = t /\ work[c].at = "success"
      /\ c \in B1 <=> tool'[c] = t /\ work'[c].at = "success"
  BY DEF Working, Others
<1>3. /\ E \in SUBSET Callers /\ E1 \in SUBSET Callers /\ E \ {c} = E1 \ {c}
      /\ c \in E <=> tool[c] = t /\ work[c].at = "error"
      /\ c \in E1 <=> tool'[c] = t /\ work'[c].at = "error"
  BY DEF Working, Others
<1>4. ~(c \in A /\ c \in B) /\ ~(c \in A1 /\ c \in B1)
  BY <1>1, <1>2 DEF WorkInv, Networking, Statuses
<1>5. /\ Adds(c, t) = (IF c \in A \/ c \in B THEN 1 ELSE 0)
      /\ Adds(c, t)' = (IF c \in A1 \/ c \in B1 THEN 1 ELSE 0)
      /\ AddsError(c, t) = (IF c \in E THEN 1 ELSE 0)
      /\ AddsError(c, t)' = (IF c \in E1 THEN 1 ELSE 0)
  BY <1>1, <1>2, <1>3 DEF Adds, AddsError
<1>6. /\ Sent(t) = audit[t]["ok"] + Cardinality(A) + Cardinality(B)
      /\ Sent(t)' = audit'[t]["ok"] + Cardinality(A1) + Cardinality(B1)
      /\ Errors(t) = Cardinality(E) /\ Errors(t)' = Cardinality(E1)
      /\ audit[t]["ok"] \in Nat /\ audit'[t]["ok"] \in Nat
  <2>1. t \in Tools /\ "ok" \in Kinds
    BY DEF Posting, Kinds
  <2> QED BY <2>1 DEF Sent, Errors, TypeOK
<1> HIDE DEF A, B, E, A1, B1, E1
<1>7. /\ Cardinality(A) \in Nat /\ Cardinality(A1) \in Nat
      /\ Cardinality(A1) + (IF c \in A THEN 1 ELSE 0) = Cardinality(A) + (IF c \in A1 THEN 1 ELSE 0)
  BY <1>1, Counting
<1>8. /\ Cardinality(B) \in Nat /\ Cardinality(B1) \in Nat
      /\ Cardinality(B1) + (IF c \in B THEN 1 ELSE 0) = Cardinality(B) + (IF c \in B1 THEN 1 ELSE 0)
  BY <1>2, Counting
<1>9. /\ Cardinality(E) \in Nat /\ Cardinality(E1) \in Nat
      /\ Cardinality(E1) + (IF c \in E THEN 1 ELSE 0) = Cardinality(E) + (IF c \in E1 THEN 1 ELSE 0)
  BY <1>3, Counting
<1>10. Errors(t)' = Errors(t) + (AddsError(c, t)' - AddsError(c, t))
  BY <1>5, <1>6, <1>9
<1>11. Cardinality(A1) + Cardinality(B1) = Cardinality(A) + Cardinality(B) + (Adds(c, t)' - Adds(c, t))
  BY <1>4, <1>5, <1>7, <1>8
<1>12. Adds(c, t)' \in Int /\ Adds(c, t) \in Int
  BY DEF Adds
<1>13. Sent(t)' = Sent(t) + (audit'[t]["ok"] - audit[t]["ok"]) + (Adds(c, t)' - Adds(c, t))
  BY <1>6, <1>7, <1>8, <1>11, <1>12
<1> QED BY <1>10, <1>13

\* One more entry, in what it adds to the calls recorded as done.
LEMMA OkEntries ==
  ASSUME TypeOK, NEW u \in Tools, NEW k \in Kinds, Recorded(u, k)
  PROVE  \A t \in Tools : audit'[t]["ok"] = audit[t]["ok"] + (IF t = u /\ k = "ok" THEN 1 ELSE 0)
<1>1. "ok" \in Kinds
  BY DEF Kinds
<1>2. \A t \in Tools : audit[t] \in [Kinds -> Nat]
  BY DEF TypeOK
<1>3. audit' = [audit EXCEPT ![u] = [audit[u] EXCEPT ![k] = @ + 1]] /\ audit \in [Tools -> [Kinds -> Nat]]
  BY DEF TypeOK, Recorded
<1>4. audit'[u] = [audit[u] EXCEPT ![k] = @ + 1] /\ \A t \in Tools \ {u} : audit'[t] = audit[t]
  BY <1>3
<1>5. audit'[u]["ok"] = audit[u]["ok"] + (IF k = "ok" THEN 1 ELSE 0)
  BY <1>1, <1>2, <1>4
<1> QED BY <1>1, <1>2, <1>4, <1>5

\* What a step of c does to the two sides of the bracket.
Gain(c, t) == (audit'[t]["ok"] - audit[t]["ok"]) + (Adds(c, t)' - Adds(c, t))

LEMMA BracketKept ==
  ASSUME TypeOK, TypeOK', AgentInv, AgentInv', NEW c \in Callers, NEW t \in Posting,
         Others(c), BracketOf(t),
         Gain(c, t) <= posts'[t] - posts[t],
         (posts'[t] - posts[t]) + (strays'[t] - strays[t])
           <= Gain(c, t) + (unsure'[t] - unsure[t]) + (dropped'[t] - dropped[t])
              + (AddsError(c, t)' - AddsError(c, t))
  PROVE  BracketOf(t)'
<1>1. /\ posts[t] \in Nat /\ strays[t] \in Nat /\ unsure[t] \in Nat
      /\ dropped[t] \in Nat /\ audit[t]["ok"] \in Nat
      /\ Sent(t) \in Nat /\ Errors(t) \in Nat
  BY NumberTypes DEF AgentInv
<1>2. /\ posts'[t] \in Nat /\ strays'[t] \in Nat /\ unsure'[t] \in Nat
      /\ dropped'[t] \in Nat /\ audit'[t]["ok"] \in Nat
  <2>1. t \in Tools /\ "ok" \in Kinds
    BY DEF Posting, Kinds
  <2> QED BY <2>1 DEF AgentInv, AgentTypes, TypeOK
<1>3. /\ Sent(t)' = Sent(t) + (audit'[t]["ok"] - audit[t]["ok"]) + (Adds(c, t)' - Adds(c, t))
      /\ Errors(t)' = Errors(t) + (AddsError(c, t)' - AddsError(c, t))
  BY SumsMove DEF AgentInv
<1>4. /\ Adds(c, t)' \in Int /\ Adds(c, t) \in Int
      /\ AddsError(c, t)' \in Int /\ AddsError(c, t) \in Int
  BY DEF Adds, AddsError
<1>5. Gain(c, t) \in Int /\ Sent(t)' = Sent(t) + Gain(c, t)
  BY <1>1, <1>2, <1>3, <1>4 DEF Gain
<1>6. Sent(t) <= posts[t] /\ posts[t] + strays[t] <= Sent(t) + unsure[t] + dropped[t] + Errors(t)
  BY DEF BracketOf
<1>7. Sent(t)' <= posts'[t]
  BY <1>1, <1>2, <1>5, <1>6
<1>8. posts'[t] + strays'[t] <= Sent(t)' + unsure'[t] + dropped'[t] + Errors(t)'
  BY <1>1, <1>2, <1>3, <1>4, <1>5, <1>6
<1> QED BY <1>7, <1>8 DEF BracketOf

\* A step that leaves the platform of t, and what c adds to its sums, alone.
LEMMA Elsewhere ==
  ASSUME TypeOK, TypeOK', AgentInv, AgentInv', NEW c \in Callers, NEW t \in Posting,
         Others(c), BracketOf(t),
         Gain(c, t) = 0, AddsError(c, t)' = AddsError(c, t),
         posts'[t] = posts[t], strays'[t] = strays[t], unsure'[t] = unsure[t],
         dropped'[t] \in {dropped[t], dropped[t] + 1}
  PROVE  BracketOf(t)'
<1>1. /\ posts[t] \in Nat /\ strays[t] \in Nat /\ unsure[t] \in Nat /\ dropped[t] \in Nat
      /\ AddsError(c, t) \in Int
  BY NumberTypes DEF AgentInv, AddsError
<1>2. /\ Gain(c, t) <= posts'[t] - posts[t]
      /\ (posts'[t] - posts[t]) + (strays'[t] - strays[t])
           <= Gain(c, t) + (unsure'[t] - unsure[t]) + (dropped'[t] - dropped[t])
              + (AddsError(c, t)' - AddsError(c, t))
  BY <1>1
<1> QED BY <1>2, BracketKept

LEMMA BracketSame ==
  ASSUME NEW t \in Posting, BracketOf(t),
         UNCHANGED <<stage, tool, outcome, work, audit, dropped, posts, strays, unsure>>
  PROVE  BracketOf(t)'
BY DEF BracketOf, Sent, Errors, SaidOk, At, Working

LEMMA CallsBracket ==
  ASSUME TypeOK, TypeOK', AgentInv, AgentInv', NEW t \in Posting, BracketOf(t),
         Calls \/ Converse \/ UNCHANGED allVars
  PROVE  BracketOf(t)'
<1>1. UNCHANGED agentVars
  BY DEF Calls, Converse, allVars
<1>2. CASE Converse \/ UNCHANGED allVars
  BY <1>1, <1>2, BracketSame DEF Converse, BeginRun, allVars, vars, agentVars
<1>3. t \in Tools /\ audit[t]["ok"] \in Nat /\ audit'[t]["ok"] \in Nat /\ dropped[t] \in Nat
  BY DEF Posting, TypeOK, Kinds
<1>4. ASSUME NEW c \in Callers, NEW u \in Tools, Check(c, u) PROVE BracketOf(t)'
  <2>1. stage[c] = "idle" /\ stage'[c] \in {"idle", "passed"} /\ Others(c) /\ dropped' = dropped
    BY <1>1, <1>4 DEF Check, TypeOK, Others, agentVars
  <2>2. work[c].at \notin Networking /\ work' = work
    BY <1>1, <2>1 DEF AgentInv, WorkInv, agentVars
  <2>3. Adds(c, t) = 0 /\ Adds(c, t)' = 0 /\ AddsError(c, t) = 0 /\ AddsError(c, t)' = 0
    BY <2>1, <2>2 DEF Adds, AddsError, Networking, Statuses
  <2>4. audit'[t]["ok"] = audit[t]["ok"]
    <3>1. CASE Recorded(u, "refused")
      BY <1>3, <3>1, OkEntries DEF Kinds
    <3> QED BY <1>4, <3>1 DEF Check
  <2>5. Gain(c, t) = 0
    BY <1>3, <2>3, <2>4 DEF Gain
  <2> QED BY <1>1, <2>1, <2>3, <2>5, Elsewhere DEF agentVars
<1>5. ASSUME NEW c \in Callers, Count(c) PROVE BracketOf(t)'
  <2>1. /\ stage[c] = "passed" /\ stage'[c] \in {"rehearsing", "sent"} /\ Others(c)
        /\ dropped' = dropped /\ audit' = audit
    BY <1>1, <1>5 DEF Count, TypeOK, Others, agentVars
  <2>2. work[c].at \notin Networking /\ work' = work
    BY <1>1, <2>1 DEF AgentInv, WorkInv, agentVars
  <2>3. Adds(c, t) = 0 /\ Adds(c, t)' = 0 /\ AddsError(c, t) = 0 /\ AddsError(c, t)' = 0
    BY <2>1, <2>2 DEF Adds, AddsError, Networking, Statuses
  <2>4. Gain(c, t) = 0
    BY <1>3, <2>1, <2>3 DEF Gain
  <2> QED BY <1>1, <2>1, <2>3, <2>4, Elsewhere DEF agentVars
<1>6. ASSUME NEW c \in Callers, Rehearse(c) PROVE BracketOf(t)'
  <2>1. /\ stage[c] = "rehearsing" /\ stage'[c] = "idle" /\ Others(c)
        /\ dropped' = dropped /\ Recorded(tool[c], "rehearsed") /\ tool[c] \in Tools
    BY <1>1, <1>6 DEF Rehearse, Return, TypeOK, Others, agentVars
  <2>2. work[c].at \notin Networking /\ work' = work
    BY <1>1, <2>1 DEF AgentInv, WorkInv, agentVars
  <2>3. Adds(c, t) = 0 /\ Adds(c, t)' = 0 /\ AddsError(c, t) = 0 /\ AddsError(c, t)' = 0
    BY <2>1, <2>2 DEF Adds, AddsError, Networking, Statuses
  <2>4. audit'[t]["ok"] = audit[t]["ok"]
    BY <1>3, <2>1, OkEntries DEF Kinds
  <2>5. Gain(c, t) = 0
    BY <1>3, <2>3, <2>4 DEF Gain
  <2> QED BY <1>1, <2>1, <2>3, <2>5, Elsewhere DEF agentVars
<1>7. ASSUME NEW c \in Callers, Record(c) PROVE BracketOf(t)'
  <2>1. /\ stage[c] = "settled" /\ stage'[c] = "idle" /\ Others(c)
        /\ dropped' = dropped /\ Recorded(tool[c], outcome[c])
        /\ tool[c] \in Tools /\ outcome[c] \in Kinds
    BY <1>1, <1>7 DEF Record, Return, TypeOK, Others, agentVars, Kinds
  <2>2. work[c].at \notin Networking /\ work' = work
    BY <1>1, <2>1 DEF AgentInv, WorkInv, agentVars
  <2>3. /\ Adds(c, t) = (IF tool[c] = t /\ outcome[c] = "ok" THEN 1 ELSE 0)
        /\ Adds(c, t)' = 0 /\ AddsError(c, t) = 0 /\ AddsError(c, t)' = 0
    BY <2>1, <2>2 DEF Adds, AddsError, Networking, Statuses
  <2>4. audit'[t]["ok"] = audit[t]["ok"] + (IF tool[c] = t /\ outcome[c] = "ok" THEN 1 ELSE 0)
    BY <1>3, <2>1, OkEntries
  <2>5. Gain(c, t) = 0
    BY <1>3, <2>3, <2>4 DEF Gain
  <2> QED BY <1>1, <2>1, <2>3, <2>5, Elsewhere DEF agentVars
<1> QED BY <1>2, <1>4, <1>5, <1>6, <1>7 DEF Calls

\* An answer about anything but a post to t.
LEMMA OtherAnswer ==
  ASSUME TypeOK, TypeOK', AgentInv, AgentInv', NEW t \in Posting, BracketOf(t),
         NEW c \in Callers, NEW o \in {"ok", "failed"}, Answered(c, o),
         \/ tool[c] # t
         \/ work[c].at \in {"none", "unauthorized", "expiredToken"} /\ o = "failed",
         posts'[t] = posts[t], strays'[t] = strays[t], unsure'[t] = unsure[t]
  PROVE  BracketOf(t)'
<1>1. /\ stage[c] = "sent" /\ stage'[c] = "settled" /\ tool' = tool
      /\ outcome'[c] = o /\ work'[c] = NoWork /\ Others(c) /\ UNCHANGED <<audit, dropped>>
  BY AnsweredStep DEF AgentInv
<1>2. Adds(c, t) = 0 /\ Adds(c, t)' = 0 /\ AddsError(c, t) = 0 /\ AddsError(c, t)' = 0
  BY <1>1 DEF Adds, AddsError, NoWork
<1>3. audit[t]["ok"] \in Nat
  BY NumberTypes DEF AgentInv
<1>4. Gain(c, t) = 0
  BY <1>1, <1>2, <1>3 DEF Gain
<1> QED BY <1>1, <1>2, <1>4, Elsewhere

LEMMA LeaveBracket ==
  ASSUME TypeOK, TypeOK', AgentInv, AgentInv', NEW t \in Posting, BracketOf(t),
         NEW c \in Callers, Leave(c)
  PROVE  BracketOf(t)'
<1>1. /\ stage[c] = "sent" /\ stage'[c] = "idle" /\ Others(c)
      /\ dropped' = [dropped EXCEPT ![tool[c]] = @ + 1]
      /\ tool[c] \in Tools /\ t \in Tools
      /\ work' = [work EXCEPT ![c] = NoWork]
      /\ UNCHANGED <<audit, posts, unsure>>
  BY DEF Leave, Drop, Return, Others, TypeOK, AgentInv, AgentTypes, Posting
<1>2. work'[c] = NoWork
  BY <1>1 DEF AgentInv, AgentTypes
<1>3. /\ posts[t] \in Nat /\ strays[t] \in Nat /\ unsure[t] \in Nat
      /\ dropped[t] \in Nat /\ audit[t]["ok"] \in Nat
  BY NumberTypes DEF AgentInv
<1>4. Adds(c, t)' = 0 /\ AddsError(c, t)' = 0
  BY <1>1, <1>2 DEF Adds, AddsError, NoWork
<1>5. CASE tool[c] # t
  <2>1. dropped'[t] = dropped[t] /\ strays'[t] = strays[t]
    <3>1. dropped'[t] = dropped[t]
      BY <1>1, <1>5 DEF TypeOK
    <3>2. Abandoned(c)
      BY DEF Leave
    <3>3. strays'[t] = strays[t]
      BY <1>5, <3>2 DEF Abandoned, AgentInv, AgentTypes
    <3> QED BY <3>1, <3>3
  <2>2. Adds(c, t) = 0 /\ AddsError(c, t) = 0
    BY <1>5 DEF Adds, AddsError
  <2>3. Gain(c, t) = 0
    BY <1>1, <1>3, <1>4, <2>2 DEF Gain
  <2> QED BY <1>1, <1>4, <2>1, <2>2, <2>3, Elsewhere
<1>6. CASE tool[c] = t
  <2>1. dropped'[t] = dropped[t] + 1
    BY <1>1, <1>6 DEF TypeOK
  <2>2. strays'[t] \in {strays[t], strays[t] + (IF work[c].at = "out" THEN 1 ELSE 0)}
    <3>1. Abandoned(c)
      BY DEF Leave
    <3> QED BY <1>6, <3>1 DEF Abandoned, AgentInv, AgentTypes
  <2>3. /\ Adds(c, t) = (IF work[c].at = "success" THEN 1 ELSE 0)
        /\ AddsError(c, t) = (IF work[c].at = "error" THEN 1 ELSE 0)
    BY <1>1, <1>6 DEF Adds, AddsError
  <2>4. Gain(c, t) = 0 - Adds(c, t)
    BY <1>1, <1>3, <1>4, <2>3 DEF Gain
  <2>5. /\ Gain(c, t) <= posts'[t] - posts[t]
        /\ (posts'[t] - posts[t]) + (strays'[t] - strays[t])
             <= Gain(c, t) + (unsure'[t] - unsure[t]) + (dropped'[t] - dropped[t])
                + (AddsError(c, t)' - AddsError(c, t))
    BY <1>1, <1>3, <1>4, <2>1, <2>2, <2>3, <2>4
  <2> QED BY <1>1, <2>5, BracketKept
<1> QED BY <1>5, <1>6

LEMMA ArriveBracket ==
  ASSUME TypeOK, TypeOK', AgentInv, AgentInv', NEW t \in Posting, BracketOf(t),
         NEW c \in Callers, Arrive(c)
  PROVE  BracketOf(t)'
<1> DEFINE u == tool[c]
           taken == [posts EXCEPT ![u] = @ + 1]
<1>1. u \in Posting /\ stage[c] = "sent" /\ work[c].at = "out"
  BY DEF Arrive, AgentInv, WorkInv, Networking
<1>2. PICK at \in Statuses : /\ Goes(c, at)
                             /\ at = "success" => posts' = taken
                             /\ at \notin {"success", "error"} => posts' = posts
                             /\ posts' \in {posts, taken}
                             /\ UNCHANGED <<strays, unsure>>
  BY DEF Arrive, Statuses
<1>3. work'[c].at = at /\ Others(c) /\ UNCHANGED vars
  <2>1. at \in Works
    BY DEF Works
  <2> QED BY <1>2, <2>1, GoesStep DEF AgentInv
<1>4. /\ posts[t] \in Nat /\ strays[t] \in Nat /\ unsure[t] \in Nat
      /\ dropped[t] \in Nat /\ audit[t]["ok"] \in Nat
  BY NumberTypes DEF AgentInv
<1>5. UNCHANGED <<audit, dropped, tool, stage, outcome>>
  BY <1>3 DEF vars
<1>6. Adds(c, t) = 0 /\ AddsError(c, t) = 0
  BY <1>1 DEF Adds, AddsError
<1>7. /\ Adds(c, t)' = (IF u = t /\ at = "success" THEN 1 ELSE 0)
      /\ AddsError(c, t)' = (IF u = t /\ at = "error" THEN 1 ELSE 0)
  BY <1>1, <1>3, <1>5 DEF Adds, AddsError
<1>8. /\ u = t /\ at = "success" => posts'[t] = posts[t] + 1
      /\ u # t \/ at \notin {"success", "error"} => posts'[t] = posts[t]
      /\ posts'[t] \in {posts[t], posts[t] + 1}
  BY <1>1, <1>2 DEF AgentInv, AgentTypes
<1>9. Gain(c, t) = Adds(c, t)'
  BY <1>4, <1>5, <1>6, <1>7 DEF Gain
<1>10. /\ Gain(c, t) <= posts'[t] - posts[t]
       /\ (posts'[t] - posts[t]) + (strays'[t] - strays[t])
            <= Gain(c, t) + (unsure'[t] - unsure[t]) + (dropped'[t] - dropped[t])
               + (AddsError(c, t)' - AddsError(c, t))
  BY <1>2, <1>4, <1>5, <1>6, <1>7, <1>8, <1>9
<1> QED BY <1>3, <1>10, BracketKept

LEMMA SaysOk ==
  ASSUME NEW t \in Posting, NEW at \in Statuses
  PROVE  /\ Platform(t).says[at] = "ok" <=> at = "success"
         /\ at = "error" => Platform(t).says[at] = "rejected"
BY DEF Posting, Social, Platform, Mastodon, X, LinkedIn, Bluesky, Expires401, Statuses

LEMMA AnswerBracket ==
  ASSUME TypeOK, TypeOK', AgentInv, AgentInv', NEW t \in Posting, BracketOf(t),
         NEW c \in Callers, Deliver(c) \/ Lose(c)
  PROVE  BracketOf(t)'
<1> DEFINE u == tool[c]
<1>1. u \in Posting /\ stage[c] = "sent" /\ work[c].at \in Networking /\ posts' = posts
  BY DEF Deliver, Lose, AgentInv, WorkInv, Networking
<1>2. PICK o \in {"ok", "failed"}, open \in BOOLEAN :
        /\ Answered(c, o) /\ Unsure(c, open)
        /\ o = "ok" => work[c].at = "success"
        /\ work[c].at = "success" => o = "ok" \/ open
        /\ work[c].at = "error" => open
        /\ strays' # strays =>
             open /\ work[c].at = "out" /\ strays' = [strays EXCEPT ![u] = @ + 1]
  <2>1. CASE Lose(c)
    BY <2>1 DEF Lose, Abandoned
  <2>2. CASE Deliver(c)
    <3> DEFINE said == Platform(u).says[work[c].at]
               o == IF said = "ok" THEN "ok" ELSE "failed"
               open == said = "rejected"
    <3>1. work[c].at \in Statuses /\ strays' = strays /\ Answered(c, o) /\ Unsure(c, open)
      BY <2>2 DEF Deliver
    <3>2. /\ said = "ok" <=> work[c].at = "success"
          /\ work[c].at = "error" => said = "rejected"
      BY <1>1, <3>1, SaysOk
    <3>3. o \in {"ok", "failed"} /\ open \in BOOLEAN
      OBVIOUS
    <3> QED BY <3>1, <3>2, <3>3
  <2> QED BY <2>1, <2>2
<1>3. /\ stage'[c] = "settled" /\ tool' = tool /\ outcome'[c] = o /\ work'[c] = NoWork
      /\ Others(c) /\ UNCHANGED <<audit, dropped>>
  BY <1>2, AnsweredStep DEF AgentInv
<1>4. /\ posts[t] \in Nat /\ strays[t] \in Nat /\ unsure[t] \in Nat
      /\ dropped[t] \in Nat /\ audit[t]["ok"] \in Nat
  BY NumberTypes DEF AgentInv
<1>5. CASE u # t
  <2>1. unsure'[t] = unsure[t] /\ strays'[t] = strays[t]
    BY <1>1, <1>2, <1>5 DEF Unsure, AgentInv, AgentTypes
  <2> QED BY <1>1, <1>2, <1>5, <2>1, OtherAnswer
<1>6. CASE u = t
  <2>1. unsure'[t] = unsure[t] + (IF open THEN 1 ELSE 0)
    BY <1>1, <1>2, <1>6 DEF Unsure, AgentInv, AgentTypes
  <2>2. \/ strays'[t] = strays[t]
        \/ open /\ work[c].at = "out" /\ strays'[t] = strays[t] + 1
    <3>1. CASE strays' = strays
      BY <3>1
    <3>2. CASE open /\ work[c].at = "out" /\ strays' = [strays EXCEPT ![t] = @ + 1]
      <4>1. strays'[t] = strays[t] + 1
        BY <3>2 DEF AgentInv, AgentTypes
      <4> QED BY <3>2, <4>1
    <3> QED BY <1>2, <1>6, <3>1, <3>2
  <2>3. /\ Adds(c, t) = (IF work[c].at = "success" THEN 1 ELSE 0)
        /\ AddsError(c, t) = (IF work[c].at = "error" THEN 1 ELSE 0)
    BY <1>1, <1>6 DEF Adds, AddsError
  <2>4. Adds(c, t)' = (IF o = "ok" THEN 1 ELSE 0) /\ AddsError(c, t)' = 0
    BY <1>3, <1>6 DEF Adds, AddsError, NoWork
  <2>5. Gain(c, t) = Adds(c, t)' - Adds(c, t)
    BY <1>3, <1>4, <2>3, <2>4 DEF Gain
  <2>6. Gain(c, t) <= posts'[t] - posts[t]
    BY <1>1, <1>2, <1>4, <2>3, <2>4, <2>5
  <2>7. (posts'[t] - posts[t]) + (strays'[t] - strays[t])
           <= Gain(c, t) + (unsure'[t] - unsure[t]) + (dropped'[t] - dropped[t])
              + (AddsError(c, t)' - AddsError(c, t))
    BY <1>1, <1>2, <1>3, <1>4, <2>1, <2>2, <2>3, <2>4, <2>5
  <2> QED BY <1>3, <2>6, <2>7, BracketKept
<1> QED BY <1>5, <1>6

LEMMA StrayBracket ==
  ASSUME TypeOK, TypeOK', AgentInv, AgentInv', NEW t \in Posting, BracketOf(t),
         NEW u \in Posting, StrayEnds(u)
  PROVE  BracketOf(t)'
<1>1. /\ strays' = [strays EXCEPT ![u] = @ - 1]
      /\ posts' \in {posts, [posts EXCEPT ![u] = @ + 1]}
      /\ UNCHANGED <<stage, tool, outcome, work, audit, dropped, unsure>>
  BY DEF StrayEnds, vars
<1>2. /\ posts[t] \in Nat /\ strays[t] \in Nat /\ unsure[t] \in Nat
      /\ dropped[t] \in Nat /\ Sent(t) \in Nat /\ Errors(t) \in Nat
  BY NumberTypes DEF AgentInv
<1>3. Sent(t)' = Sent(t) /\ Errors(t)' = Errors(t)
  BY <1>1 DEF Sent, Errors, SaidOk, At, Working
<1>4. CASE u = t
  <2>1. strays'[t] = strays[t] - 1 /\ posts'[t] \in {posts[t], posts[t] + 1}
    BY <1>1, <1>4 DEF AgentInv, AgentTypes
  <2> QED BY <1>1, <1>2, <1>3, <2>1 DEF BracketOf
<1>5. CASE u # t
  <2>1. strays'[t] = strays[t] /\ posts'[t] = posts[t]
    BY <1>1, <1>5 DEF AgentInv, AgentTypes
  <2> QED BY <1>1, <1>3, <2>1 DEF BracketOf
<1> QED BY <1>4, <1>5

\* The steps that answer a caller, or go on, about no post.
LEMMA QuietBracket ==
  ASSUME TypeOK, TypeOK', AgentInv, AgentInv', NEW t \in Posting, BracketOf(t),
         NEW c \in Callers,
         Post(c) \/ Fetch(c) \/ Round(c) \/ Response(c) \/ RunSystem(c)
  PROVE  BracketOf(t)'
<1>1. UNCHANGED <<posts, strays, unsure>> /\ stage[c] = "sent"
  <2>1. CASE Post(c)
    BY <2>1 DEF Post, Idle
  <2>2. CASE Fetch(c)
    BY <2>2 DEF Fetch, Idle
  <2>3. CASE Round(c) \/ Response(c)
    BY <2>3 DEF Round, Response, AgentInv, WorkInv
  <2>4. CASE RunSystem(c)
    BY <2>4 DEF RunSystem, Idle
  <2> QED BY <2>1, <2>2, <2>3, <2>4
<1>2. ASSUME NEW o \in {"ok", "failed"}, Answered(c, o),
             tool[c] # t \/ (work[c].at = "none" /\ o = "failed")
      PROVE  BracketOf(t)'
  BY <1>1, <1>2, OtherAnswer
<1>3. ASSUME NEW w, work' = [work EXCEPT ![c] = w], w.at \in {"out", "check", "request"},
             work[c].at \in {"none", "check", "request"}, UNCHANGED vars
      PROVE  BracketOf(t)'
  <2>1. Others(c) /\ work'[c].at \in {"out", "check", "request"}
    BY <1>3 DEF Others, AgentInv, AgentTypes, vars
  <2>2. Adds(c, t) = 0 /\ Adds(c, t)' = 0 /\ AddsError(c, t) = 0 /\ AddsError(c, t)' = 0
    BY <1>1, <1>3, <2>1 DEF Adds, AddsError, vars
  <2>3. audit[t]["ok"] \in Nat /\ audit' = audit /\ dropped' = dropped
    BY <1>3, NumberTypes DEF AgentInv, vars
  <2>4. Gain(c, t) = 0
    BY <2>2, <2>3 DEF Gain
  <2> QED BY <1>1, <2>1, <2>2, <2>3, <2>4, Elsewhere
<1>4. \A u \in Fetching \cup System : u # t
  BY DEF Fetching, System, Posting, Social
<1>5. CASE Post(c)
  <2>1. work[c].at = "none"
    BY <1>5 DEF Post, Idle
  <2>2. CASE Answered(c, "failed")
    BY <1>2, <2>1, <2>2
  <2>3. CASE Goes(c, "out")
    <3> DEFINE w == [work[c] EXCEPT !.at = "out"]
    <3>1. work' = [work EXCEPT ![c] = w] /\ w.at = "out" /\ UNCHANGED vars
      BY <2>3 DEF Goes, AgentInv, AgentTypes
    <3> QED BY <1>3, <2>1, <3>1
  <2> QED BY <1>5, <2>2, <2>3 DEF Post
<1>6. CASE Fetch(c)
  <2>1. work[c].at = "none" /\ tool[c] # t
    BY <1>4, <1>6 DEF Fetch, Idle
  <2>2. CASE Answered(c, "failed")
    BY <1>2, <2>1, <2>2
  <2>3. ASSUME NEW url, UNCHANGED vars,
               work' = [work EXCEPT ![c] = [at |-> "check", host |-> url, requests |-> 0]]
        PROVE  BracketOf(t)'
    BY <1>3, <2>1, <2>3
  <2> QED BY <1>6, <2>2, <2>3 DEF Fetch
<1>7. CASE Round(c)
  <2>1. work[c].at = "check" /\ tool[c] # t
    BY <1>4, <1>7 DEF Round, AgentInv, WorkInv
  <2>2. CASE Answered(c, "failed")
    BY <1>2, <2>1, <2>2
  <2>3. CASE UNCHANGED vars /\ work' = [work EXCEPT ![c].at = "request", ![c].requests = @ + 1]
    <3> DEFINE w == [[work[c] EXCEPT !.at = "request"] EXCEPT !.requests = @ + 1]
    <3>1. work' = [work EXCEPT ![c] = w] /\ w.at = "request"
      BY <2>3 DEF AgentInv, AgentTypes
    <3> QED BY <1>3, <2>1, <2>3, <3>1
  <2> QED BY <1>7, <2>2, <2>3 DEF Round
<1>8. CASE Response(c)
  <2>1. work[c].at = "request" /\ tool[c] # t
    BY <1>4, <1>8 DEF Response, AgentInv, WorkInv
  <2>2. ASSUME NEW o \in {"ok", "failed"}, Answered(c, o) PROVE BracketOf(t)'
    BY <1>1, <2>1, <2>2, OtherAnswer
  <2>3. ASSUME NEW location, UNCHANGED vars,
               work' = [work EXCEPT ![c].at = "check", ![c].host = Resolved(@, location)]
        PROVE  BracketOf(t)'
    <3> DEFINE w == [[work[c] EXCEPT !.at = "check"] EXCEPT !.host = Resolved(@, location)]
    <3>1. work' = [work EXCEPT ![c] = w] /\ w.at = "check"
      BY <2>3 DEF AgentInv, AgentTypes
    <3> QED BY <1>3, <2>1, <2>3, <3>1
  <2> QED BY <1>8, <2>2, <2>3 DEF Response, Redirected
<1>9. CASE RunSystem(c)
  <2>1. tool[c] # t
    BY <1>4, <1>9 DEF RunSystem, Idle
  <2>2. PICK o \in {"ok", "failed"} : Answered(c, o)
    BY <1>9 DEF RunSystem
  <2> QED BY <1>1, <2>1, <2>2, OtherAnswer
<1> QED BY <1>5, <1>6, <1>7, <1>8, <1>9

LEMMA BracketStep ==
  ASSUME IInv, IInv', AgentInv, AgentInv', BracketInv, [AgentNext]_allVars
  PROVE  BracketInv'
<1> USE DEF IInv
<1> SUFFICES ASSUME NEW t \in Posting PROVE BracketOf(t)'
  BY DEF BracketInv
<1>1. BracketOf(t)
  BY DEF BracketInv
<1>2. CASE Calls \/ Converse \/ UNCHANGED allVars
  BY <1>1, <1>2, CallsBracket
<1>3. ASSUME NEW c \in Callers, Leave(c) \/ Arrive(c) PROVE BracketOf(t)'
  BY <1>1, <1>3, LeaveBracket, ArriveBracket
<1>4. ASSUME NEW c \in Callers, Deliver(c) \/ Lose(c) PROVE BracketOf(t)'
  BY <1>1, <1>4, AnswerBracket
<1>5. ASSUME NEW c \in Callers,
             Post(c) \/ Fetch(c) \/ Round(c) \/ Response(c) \/ RunSystem(c)
      PROVE  BracketOf(t)'
  BY <1>1, <1>5, QuietBracket
<1>6. ASSUME NEW u \in Posting, StrayEnds(u) PROVE BracketOf(t)'
  BY <1>1, <1>6, StrayBracket
<1> QED BY <1>2, <1>3, <1>4, <1>5, <1>6 DEF AgentNext

\* However callers, platforms and networks behave, a post recorded as sent is
\* there, and there is no post but those recorded as sent and those of calls
\* whose answer left it open (Social::call, Platform::post, Gateway::call).
THEOREM AuditAlwaysBrackets == AgentSpec => []AuditBracketsPosts
<1>1. AgentInit => BracketInv
  <2> SUFFICES ASSUME AgentInit, NEW t \in Posting PROVE BracketOf(t)
    BY DEF BracketInv
  <2>1. SaidOk(t) = {} /\ Working({"success"}, t) = {} /\ Working({"error"}, t) = {}
    BY DEF AgentInit, Init, SaidOk, At, Working, NoWork
  <2>2. t \in Tools /\ "ok" \in Kinds /\ Cardinality({}) = 0
    BY FS_EmptySet DEF Posting, Kinds
  <2>3. /\ audit[t]["ok"] = 0 /\ dropped[t] = 0
        /\ posts[t] = 0 /\ strays[t] = 0 /\ unsure[t] = 0
    BY <2>2 DEF AgentInit, Init
  <2> QED BY <2>1, <2>2, <2>3 DEF BracketOf, Sent, Errors
<1>2. IInv /\ IInv' /\ AgentInv /\ AgentInv' /\ BracketInv /\ [AgentNext]_allVars => BracketInv'
  BY BracketStep
<1>3. AgentSpec => []IInv
  BY AgentImplementsGateway, Invariance, PTL
<1>4. BracketInv => AuditBracketsPosts
  BY DEF BracketInv, BracketOf, Sent, Errors, SaidOk, AuditBracketsPosts
<1> QED BY <1>1, <1>2, <1>3, <1>4, AgentInvariance, PTL DEF AgentSpec
============================================================================
