------------------------------ MODULE Gateway ------------------------------
(***************************************************************************)
(* The tool gateway of hajime-core: budgets per tool and per run, the      *)
(* circuit breaker, dry run and the audit log, under concurrent callers.   *)
(*                                                                         *)
(* Gateway::call takes &self and locks the counters three times: to check, *)
(* to count, and to settle the provider's answer.  Callers interleave      *)
(* between the three, and begin_run may come between any two.  A call to a *)
(* tool no provider lists returns Err and touches nothing (no audit line   *)
(* either), so it is no action here.                                       *)
(***************************************************************************)
EXTENDS Integers, FiniteSets

CONSTANTS
  Callers,            \* tasks sharing the gateway, each with one call at a time
  Tools,              \* tools the providers list
  Effect,             \* [Tools -> "read", "local" or "external"]
  PerTool, PerRun,    \* Budget: calls allowed per run
  FailuresBeforeOpen, \* Budget: consecutive failures before a tool is cut off
  None,               \* no tool
  MaxCalls,           \* bound: calls of one tool in a behaviour
  MaxRuns             \* bound: times begin_run is called

ASSUME GatewayAssumption ==
  /\ IsFiniteSet(Callers) /\ Callers # {}
  /\ Effect \in [Tools -> {"read", "local", "external"}]
  /\ PerTool \in Nat /\ PerRun \in Nat /\ FailuresBeforeOpen \in Nat
  /\ None \notin Tools
  /\ MaxCalls \in Nat /\ MaxRuns \in Nat

VARIABLES
  dryRun,    \* the mode the gateway was made with
  perTool,   \* Counters.per_tool
  total,     \* Counters.total
  failures,  \* Counters.failures; 0 is no entry
  stage,     \* [Callers -> where its call stands]
  tool,      \* [Callers -> the tool it is calling]
  outcome,   \* [Callers -> what its provider answered, until recorded]
  audit,     \* [Tools -> [kind of audit entry -> how many]]
  runs,      \* times begin_run was called
  \* history variables, read by the properties and the bounds alone
  asked,     \* [Tools -> calls made]
  dropped,   \* [Tools -> calls whose future was dropped at the provider]
  reached    \* [Tools -> calls given to the provider since begin_run]

vars == <<dryRun, perTool, total, failures, stage, tool, outcome, audit, runs,
          asked, dropped, reached>>

Kinds == {"refused", "rehearsed", "ok", "failed"}

\* Callers whose call of t stands at one of the stages.
At(stages, t) == {c \in Callers : stage[c] \in stages /\ tool[c] = t}

----------------------------------------------------------------------------
Init ==
  /\ dryRun \in BOOLEAN
  /\ perTool = [t \in Tools |-> 0]
  /\ total = 0
  /\ failures = [t \in Tools |-> 0]
  /\ stage = [c \in Callers |-> "idle"]
  /\ tool = [c \in Callers |-> None]
  /\ outcome = [c \in Callers |-> "failed"]
  /\ audit = [t \in Tools |-> [k \in Kinds |-> 0]]
  /\ runs = 0
  /\ asked = [t \in Tools |-> 0]
  /\ dropped = [t \in Tools |-> 0]
  /\ reached = [t \in Tools |-> 0]

\* record: one more entry of kind k for tool t.
Recorded(t, k) == audit' = [audit EXCEPT ![t][k] = @ + 1]

\* `fails >=` one too late.
Open_Late(t) == failures[t] > FailuresBeforeOpen

\* A tool with no entry in `failures` passes, even with a threshold of zero.
Open(t) == failures[t] # 0 /\ failures[t] >= FailuresBeforeOpen

\* What the check refuses: an open circuit, then the run's budget, then the
\* tool's.
Refused(t) == Open(t) \/ total >= PerRun \/ perTool[t] >= PerTool

\* First lock: check.  A refusal is recorded and returned; nothing is spent.
Check(c, t) ==
  /\ stage[c] = "idle"
  /\ asked[t] < MaxCalls
  /\ asked' = [asked EXCEPT ![t] = @ + 1]
  /\ IF Refused(t)
     THEN /\ Recorded(t, "refused")
          /\ UNCHANGED <<stage, tool>>
     ELSE /\ stage' = [stage EXCEPT ![c] = "passed"]
          /\ tool' = [tool EXCEPT ![c] = t]
          /\ UNCHANGED audit
  /\ UNCHANGED <<dryRun, perTool, total, failures, outcome, runs, dropped,
                 reached>>

Rehearses(t) == dryRun /\ Effect[t] = "external"

\* The provider is called and nothing is spent.
Count_Unspent(c) ==
  /\ stage[c] = "passed"
  /\ IF Rehearses(tool[c])
     THEN /\ stage' = [stage EXCEPT ![c] = "rehearsing"]
          /\ UNCHANGED reached
     ELSE /\ stage' = [stage EXCEPT ![c] = "sent"]
          /\ reached' = [reached EXCEPT ![tool[c]] = @ + 1]
  /\ UNCHANGED <<dryRun, perTool, total, failures, tool, outcome, audit, runs,
                 asked, dropped>>

\* Second lock: count before running.  Then dry run stops a tool with an
\* external effect and the provider is called for any other.
Count(c) ==
  /\ stage[c] = "passed"
  /\ perTool' = [perTool EXCEPT ![tool[c]] = @ + 1]
  /\ total' = total + 1
  /\ IF Rehearses(tool[c])
     THEN /\ stage' = [stage EXCEPT ![c] = "rehearsing"]
          /\ UNCHANGED reached
     ELSE /\ stage' = [stage EXCEPT ![c] = "sent"]
          /\ reached' = [reached EXCEPT ![tool[c]] = @ + 1]
  /\ UNCHANGED <<dryRun, failures, tool, outcome, audit, runs, asked, dropped>>

\* The call is over and its caller free.
Return(c) ==
  /\ stage' = [stage EXCEPT ![c] = "idle"]
  /\ tool' = [tool EXCEPT ![c] = None]

\* The rehearsal returns as a success does, with the entry left out.
Rehearse_Unrecorded(c) ==
  /\ stage[c] = "rehearsing"
  /\ Return(c)
  /\ UNCHANGED <<dryRun, perTool, total, failures, outcome, audit, runs, asked,
                 dropped, reached>>

\* Dry run: recorded as allowed, and returned without touching `failures`.
Rehearse(c) ==
  /\ stage[c] = "rehearsing"
  /\ Recorded(tool[c], "rehearsed")
  /\ Return(c)
  /\ UNCHANGED <<dryRun, perTool, total, failures, outcome, runs, asked,
                 dropped, reached>>

\* Third lock: the provider has answered; a success removes the entry in
\* `failures`, a failure adds one to it.
Settle(c) ==
  /\ stage[c] = "sent"
  /\ \E o \in {"ok", "failed"} :
       /\ outcome' = [outcome EXCEPT ![c] = o]
       /\ failures' = [failures EXCEPT ![tool[c]] = IF o = "ok" THEN 0 ELSE @ + 1]
  /\ stage' = [stage EXCEPT ![c] = "settled"]
  /\ UNCHANGED <<dryRun, perTool, total, tool, audit, runs, asked, dropped,
                 reached>>

\* The audit entry, under a lock of its own, and the return.
Record(c) ==
  /\ stage[c] = "settled"
  /\ Recorded(tool[c], outcome[c])
  /\ outcome' = [outcome EXCEPT ![c] = "failed"]
  /\ Return(c)
  /\ UNCHANGED <<dryRun, perTool, total, failures, runs, asked, dropped, reached>>

\* The call panics in the provider, or its future is dropped while it waits
\* there: what was spent stays spent, nothing is settled and nothing recorded.
\* (A call that hangs just stays at "sent".)
Drop(c) ==
  /\ stage[c] = "sent"
  /\ dropped' = [dropped EXCEPT ![tool[c]] = @ + 1]
  /\ Return(c)
  /\ UNCHANGED <<dryRun, perTool, total, failures, outcome, audit, runs, asked,
                 reached>>

\* begin_run forgetting the failures too.
BeginRun_ClearsAll ==
  /\ runs < MaxRuns
  /\ runs' = runs + 1
  /\ perTool' = [t \in Tools |-> 0]
  /\ total' = 0
  /\ failures' = [t \in Tools |-> 0]
  /\ reached' = [t \in Tools |-> 0]
  /\ UNCHANGED <<dryRun, stage, tool, outcome, audit, asked, dropped>>

\* begin_run: the budgets start again, the failures stay.  hajime-ai calls it
\* for every chat request, on the one gateway all requests share.
BeginRun ==
  /\ runs < MaxRuns
  /\ runs' = runs + 1
  /\ perTool' = [t \in Tools |-> 0]
  /\ total' = 0
  /\ reached' = [t \in Tools |-> 0]
  /\ UNCHANGED <<dryRun, failures, stage, tool, outcome, audit, asked, dropped>>

Next ==
  \/ \E c \in Callers : \/ \E t \in Tools : Check(c, t)
                        \/ Count(c) \/ Rehearse(c) \/ Settle(c)
                        \/ Record(c) \/ Drop(c)
  \/ BeginRun

Spec == Init /\ [][Next]_vars

----------------------------------------------------------------------------
(* Properties *)

\* Types; a caller between calls names no tool, one in a call names one.
TypeOK ==
  /\ dryRun \in BOOLEAN
  /\ perTool \in [Tools -> Nat]
  /\ total \in Nat
  /\ failures \in [Tools -> Nat]
  /\ stage \in [Callers -> {"idle", "passed", "rehearsing", "sent", "settled"}]
  /\ tool \in [Callers -> Tools \cup {None}]
  /\ outcome \in [Callers -> {"ok", "failed"}]
  /\ audit \in [Tools -> [Kinds -> Nat]]
  /\ runs \in Nat
  /\ asked \in [Tools -> Nat]
  /\ dropped \in [Tools -> Nat]
  /\ reached \in [Tools -> Nat]
  /\ \A c \in Callers : stage[c] = "idle" <=> tool[c] = None

\* The check and the count are two critical sections, so callers that pass
\* together overrun the budget, each by one call at most: however many calls
\* panic, hang or are dropped, a run's calls to the providers of a tool, and
\* its calls in all, stay within the ceiling plus the other callers
\* (Gateway::call, "Count before running").
OverrunBounded ==
  /\ total < PerRun + Cardinality(Callers)
  /\ \A t \in Tools : /\ perTool[t] < PerTool + Cardinality(Callers)
                      /\ reached[t] <= perTool[t]

\* A threshold of zero lets one failure happen, as a threshold of one does.
Threshold == IF FailuresBeforeOpen = 0 THEN 1 ELSE FailuresBeforeOpen

\* A tool that only fails is called at most once more per other caller after
\* its circuit should have opened, over any number of runs; and a rehearsed
\* tool's circuit never opens (Gateway::call, settle; begin_run).
BreakerBounded ==
  \A t \in Tools :
    /\ failures[t] < Threshold + Cardinality(Callers)
    /\ Rehearses(t) => failures[t] = 0

\* Once a tool's circuit is open and no call of it is under way, no step of
\* anyone, a new run included, lets a call through or closes it again: "stays
\* broken across runs until it succeeds again" (tools.rs:197-198) is for ever,
\* since a call that is refused cannot succeed.
OpenStaysOpen ==
  [][\A t \in Tools :
       Open(t) /\ At({"passed", "sent"}, t) = {} =>
         failures'[t] = failures[t] /\ At({"passed", "sent"}, t)' = {}]_vars

\* The audit log misses just the calls that were dropped at their provider, and
\* those were spent, so that the budgets bound them: of a tool no more in each
\* run than its calls.  Every other call of a listed tool has exactly one entry
\* or is under way, and what the provider was never asked to do is not recorded
\* as done (Gateway::call, "Count before running").
ReceiptsMatch ==
  \A t \in Tools :
    /\ asked[t] = audit[t]["refused"] + audit[t]["rehearsed"] + audit[t]["ok"]
                  + audit[t]["failed"] + dropped[t]
                  + Cardinality(At({"passed", "rehearsing", "sent", "settled"}, t))
    /\ dropped[t] <= (runs + 1) * (PerTool + Cardinality(Callers) - 1)
    /\ Rehearses(t) => audit[t]["ok"] + audit[t]["failed"] + dropped[t] = 0
=============================================================================
