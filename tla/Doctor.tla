------------------------------- MODULE Doctor -------------------------------
(***************************************************************************)
(* The doctor of hajime-model: Doctor::repair, which simulates stops and   *)
(* starts on a copy of the machine's state and offers them as a plan only  *)
(* if they end well by the world model's constraints.                      *)
(***************************************************************************)
EXTENDS World

CONSTANT Budgets   \* values Budget.available_mb may have

ASSUME DoctorAssumption == Budgets \subseteq Nat

\* What an essential service needs is essential, and some service of any part
\* of the tier needs none of the others: REQUIREMENTS has no cycle in the tier.
ASSUME TierAssumption ==
  /\ \A q \in Requirements : q[1] \in Essential => q[2] \in Essential
  /\ \A M \in SUBSET Essential :
       M # {} => \E s \in M : \A r \in M : <<s, r>> \notin Requirements

VARIABLES
  running,    \* what runs on the machine as repair is called
  available,  \* Budget.available_mb
  phase,      \* "diagnose", "room", "start", "proof" or "done"
  state,      \* the copy of the state the steps are applied to
  steps,      \* the plan so far: <<"stop", s>> and <<"start", s>>
  cursor,     \* the service the current pass looks at
  started,    \* the current pass started something
  outcome     \* "none" yet, "Healthy", "Plan" or "Impossible"

repairVars == <<running, available, phase, state, steps, cursor, started, outcome>>

----------------------------------------------------------------------------
(* Doctor::repair *)

RepairInit ==
  /\ running \in SUBSET Services
  /\ available \in Budgets
  /\ phase = "diagnose"
  /\ state = {}
  /\ steps = <<>>
  /\ cursor = 1
  /\ started = FALSE
  /\ outcome = "none"

\* diagnose: nothing wrong, or a copy of the state to work on.
Diagnose ==
  /\ phase = "diagnose"
  /\ IF Check(running, available) = {}
     THEN /\ outcome' = "Healthy"
          /\ phase' = "done"
          /\ state' = state
     ELSE /\ outcome' = outcome
          /\ phase' = "room"
          /\ state' = running
  /\ UNCHANGED <<running, available, steps, cursor, started>>

\* What may be stopped to make room.
Stoppable == state \ Essential

\* The largest of them, the first in start order of several as large
\* (sort_by_key is stable).
Largest(s) ==
  /\ s \in Stoppable
  /\ \A t \in Stoppable \ {s} : Mb[t] < Mb[s] \/ (Mb[t] = Mb[s] /\ Place(s) < Place(t))

\* Over budget: the largest optional service is stopped.
StopLargest(s) ==
  /\ phase = "room"
  /\ MemoryOf(state) > available
  /\ Largest(s)
  /\ state' = state \ {s}
  /\ steps' = Append(steps, <<"stop", s>>)
  /\ UNCHANGED <<running, available, phase, cursor, started, outcome>>

\* It fits, or nothing optional is left to stop.
EndRoom ==
  /\ phase = "room"
  /\ MemoryOf(state) <= available \/ Stoppable = {}
  /\ phase' = "start"
  /\ UNCHANGED <<running, available, state, steps, cursor, started, outcome>>

\* Missing, essential, its requirements up in the simulated state, and fits.
Startable(s) ==
  /\ s \in Essential \ state
  /\ Requires(s) \subseteq state
  /\ MemoryOf(state \cup {s}) <= available

\* One service of the pass, in start order.
Visit ==
  /\ phase = "start"
  /\ cursor <= Len(StartOrder)
  /\ LET s == StartOrder[cursor] IN
       IF Startable(s)
       THEN /\ state' = state \cup {s}
            /\ steps' = Append(steps, <<"start", s>>)
            /\ started' = TRUE
       ELSE UNCHANGED <<state, steps, started>>
  /\ cursor' = cursor + 1
  /\ UNCHANGED <<running, available, phase, outcome>>

\* A second pass whatever the first one did, and so for ever.
EndPass_Always ==
  /\ phase = "start"
  /\ cursor > Len(StartOrder)
  /\ cursor' = 1
  /\ started' = FALSE
  /\ UNCHANGED <<running, available, phase, state, steps, outcome>>

\* A pass that started something is followed by another.
EndPass ==
  /\ phase = "start"
  /\ cursor > Len(StartOrder)
  /\ IF started
     THEN cursor' = 1 /\ started' = FALSE /\ phase' = phase
     ELSE UNCHANGED <<cursor, started>> /\ phase' = "proof"
  /\ UNCHANGED <<running, available, state, steps, outcome>>

\* The plan is offered without looking at where it ends.
Prove_Trusting ==
  /\ phase = "proof"
  /\ outcome' = "Plan"
  /\ phase' = "done"
  /\ UNCHANGED <<running, available, state, steps, cursor, started>>

\* The proof: a plan is offered when its end breaks no constraint.
Prove ==
  /\ phase = "proof"
  /\ outcome' = IF Check(state, available) = {} THEN "Plan" ELSE "Impossible"
  /\ phase' = "done"
  /\ UNCHANGED <<running, available, state, steps, cursor, started>>

RepairNext ==
  \/ Diagnose
  \/ \E s \in Services : StopLargest(s)
  \/ EndRoom
  \/ Visit
  \/ EndPass
  \/ Prove

\* repair is a function: it runs to its end.
RepairSpec == RepairInit /\ [][RepairNext]_repairVars /\ WF_repairVars(RepairNext)

----------------------------------------------------------------------------
(* Properties *)

Stops(n) == {steps[i][2] : i \in {i \in 1..n : steps[i][1] = "stop"}}
Starts(n) == {steps[i][2] : i \in {i \in 1..n : steps[i][1] = "start"}}

Needs(s) == {q[2] : q \in {q \in Requirements : q[1] = s}}

\* The machine after the first n steps of the plan.
After(n) == (running \ Stops(n)) \cup Starts(n)

\* Types; and the copy is the machine after the steps so far.
RepairTypeOK ==
  /\ running \subseteq Services
  /\ available \in Budgets
  /\ phase \in {"diagnose", "room", "start", "proof", "done"}
  /\ state \subseteq Services
  /\ steps \in Seq({"stop", "start"} \X Services)
  /\ cursor \in 1..(Len(StartOrder) + 1)
  /\ started \in BOOLEAN
  /\ outcome \in {"none", "Healthy", "Plan", "Impossible"}
  /\ phase \notin {"diagnose", "done"} => state = After(Len(steps))

\* A plan can be followed one command at a time: it ends with nothing broken;
\* on the way no essential service is stopped, nothing is started before what
\* it needs or into memory that is not there, and what runs and may stay is
\* left alone ("The order is the whole difficulty", repair.rs:7-12).
PlanCanBeFollowed ==
  outcome = "Plan" =>
    /\ Check(After(Len(steps)), available) = {}
    /\ \A i \in DOMAIN steps :
         LET s == steps[i][2] IN
           IF steps[i][1] = "stop"
           THEN /\ s \in running \ Essential
                /\ MemoryOf(After(i - 1)) > available
           ELSE /\ s \notin After(i - 1)
                /\ Needs(s) \subseteq After(i - 1)
                /\ MemoryOf(After(i)) <= available

\* What is left running of the optional services once there is room.
Spared == (running \ Essential) \ Stops(Len(steps))

\* When repair gives up: the passes start every essential service whenever all
\* of them fit beside the optional ones that are spared, so "Impossible" means
\* that they do not, or that a spared one runs without what it needs.
VerdictIsExact ==
  phase = "done" /\ outcome # "Healthy" =>
    (outcome = "Plan" <=>
       /\ MemoryOf(Essential \cup Spared) <= available
       /\ \A s \in Spared : Needs(s) \subseteq Essential \cup Spared)

\* The passes come to an end.
Terminates == <>(phase = "done")
=============================================================================
