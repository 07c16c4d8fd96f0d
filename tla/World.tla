------------------------------- MODULE World -------------------------------
(***************************************************************************)
(* The world model of hajime-model: the services of the machine, what they *)
(* need, what they occupy, and which sets of running services are wrong.   *)
(***************************************************************************)
EXTENDS Sequences, Integers, FiniteSets, FiniteSetsExt, Functions

CONSTANTS
  StartOrder,    \* SERVICES, in start order
  Mb,            \* [service -> typical_mb]
  Essential,     \* services of Tier::Essential
  Requirements   \* REQUIREMENTS, as pairs <<dependent, required>>

Services == Range(StartOrder)

ASSUME WorldAssumption ==
  /\ StartOrder \in Seq(Services) /\ IsInjective(StartOrder)
  /\ Mb \in [Services -> Nat]
  /\ Essential \subseteq Services
  /\ Requirements \subseteq Services \X Services

\* Where a service stands in the table.
Place(s) == CHOOSE i \in DOMAIN StartOrder : StartOrder[i] = s

Optional == Services \ Essential

\* dependents in place of requires.
Requires_Swapped(s) == {r \in Services : <<r, s>> \in Requirements}

Requires(s) == {r \in Services : <<s, r>> \in Requirements}

MemoryOf(S) == MapThenSumSet(LAMBDA s : Mb[s], S)

\* World::check: every constraint that the set of running services breaks.
Check(S, available) ==
  {<<"MissingDependency", q[1], q[2]>> :
     q \in {q \in Requirements : q[1] \in S /\ q[2] \notin S}}
  \cup {<<"EssentialDown", s>> : s \in Essential \ S}
  \cup (IF MemoryOf(S) > available THEN {<<"OverBudget">>} ELSE {})

\* plan_start counting the service alone.
Projected_Alone(s, running) == MemoryOf(running \cup {s})

\* World::plan_start: the memory in use once the service and what it directly
\* needs run beside what runs already.
Projected(s, running) == MemoryOf(running \cup {s} \cup Requires(s))
=============================================================================
