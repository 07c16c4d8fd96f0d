------------------------------- MODULE Planner -------------------------------
(***************************************************************************)
(* hajime-model's Planner: from an intent and the first thing the request  *)
(* names to a plan.  The classifier gives the intent and whether it is     *)
(* sure of it; both are inputs here.                                       *)
(***************************************************************************)
EXTENDS World

CONSTANTS
  Jails,      \* JAILS
  None,       \* nothing is named
  Available   \* Budget.available_mb

ASSUME PlannerAssumption ==
  /\ Jails \cap Services = {}
  /\ None \notin Services \cup Jails
  /\ Available \in Nat

\* The intents that change something.  The four that only read (status, check,
\* history, explain) always act.
Intents == {"start", "stop", "restart", "rollback", "snapshot", "save", "resume"}

\* These need a name.
Pointed == {"start", "stop", "restart", "rollback"}

Act(verb, target) == [outcome |-> "act", verb |-> verb, target |-> target]
Confirm(verb, target) == [outcome |-> "confirm", verb |-> verb, target |-> target]
Refuse == [outcome |-> "refuse", verb |-> "none", target |-> None]
Unclear == [outcome |-> "unclear", verb |-> "none", target |-> None]

\* World::plan_start when a jail is named: it has no memory of its own and
\* requires nothing.
Needed(name, running) ==
  IF name \in Services THEN Projected(name, running) ELSE MemoryOf(running)

\* The veto.
PlanStart(name, running) ==
  IF Needed(name, running) <= Available THEN Act("start", name) ELSE Refuse

PlanRollback(name) ==
  IF name \in Jails THEN Confirm("jail-rollback", name) ELSE Refuse

\* A jail command for whatever is named.
PlanSnapshot_AnyName(name) ==
  IF name # None THEN Act("jail-snapshot", name) ELSE Act("snapshot", None)

\* A service has no dataset: the whole machine is cloned instead.
PlanSnapshot(name) ==
  IF name \in Jails THEN Act("jail-snapshot", name) ELSE Act("snapshot", None)

\* Planner::plan.
PlanFor(intent, name, sure, running) ==
  IF ~sure \/ (intent \in Pointed /\ name = None) THEN Unclear
  ELSE CASE intent = "start" -> PlanStart(name, running)
         [] intent \in {"stop", "restart"} -> Confirm(intent, name)
         [] intent = "rollback" -> PlanRollback(name)
         [] intent = "snapshot" -> PlanSnapshot(name)
         [] intent = "save" -> Confirm("save", None)
         [] intent = "resume" -> Act("resume", None)
=============================================================================
