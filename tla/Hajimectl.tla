------------------------------ MODULE Hajimectl ------------------------------
(***************************************************************************)
(* hajimectl's start, stop, restart, save and resume, and what hajime-model *)
(* plans and a person then runs, against rc.d, with several of them at     *)
(* once, services that fail to start or stop, and services that die.       *)
(*                                                                         *)
(* A command is a loop over the service table; each `service` call in it   *)
(* is a step.  `script` is the rest of the loop: "check" asks onestatus    *)
(* before a start, "start" and "stop" do it, "clone" takes a snapshot;     *)
(* "look" is one onestatus of running_now, "plan" is the planner over what *)
(* was seen, "answer" is the person's yes or no to a plan that asks.       *)
(***************************************************************************)
EXTENDS Planner, SequencesExt

CONSTANTS
  Sessions,     \* shells and scripts giving commands, one at a time each
  Targets,      \* services that commands name
  MaxCommands,  \* bound: commands given
  MaxFaults     \* bound: failed `service` calls and deaths of services

ASSUME HajimectlAssumption ==
  /\ Targets \subseteq Services
  /\ "none" \notin Sessions
  /\ MaxCommands \in Nat /\ MaxFaults \in Nat

\* A service and what it needs are of one tier.
ASSUME OneTierAssumption ==
  \A q \in Requirements : q[1] \in Essential <=> q[2] \in Essential

VARIABLES
  up,       \* services running, as rc sees it
  verb,     \* [Sessions -> the command given last, or "none" yet]
  target,   \* [Sessions -> what it names, or None]
  plan,     \* [Sessions -> what the planner made of the request]
  script,   \* [Sessions -> the steps it has left]
  seen,     \* [Sessions -> what running_now has found up so far]
  failed,   \* [Sessions -> a start failed]
  exit,     \* [Sessions -> "none" yet, "ok", "failed", "refused" or "usage"]
  commands, \* commands given
  faults,   \* failed calls and deaths
  \* history variables, read by the properties alone
  before,   \* [Sessions -> what was up when its command was given]
  lost,     \* [Sessions -> what went down since, not by its hand]
  gained,   \* [Sessions -> what came up since, not by its hand]
  kept      \* [Sessions -> what has run without a break since]

vars == <<up, verb, target, plan, script, seen, failed, exit, commands, faults,
          before, lost, gained, kept>>

----------------------------------------------------------------------------
(* What the commands do *)

\* No name stands for every service.
Scope(t) == IF t = None THEN Services ELSE {t}

\* The loop of an action over a set of services, in start order.
InOrder(action, S) ==
  LET upTo[i \in 0..Len(StartOrder)] ==
        IF i = 0 THEN <<>>
        ELSE IF StartOrder[i] \in S THEN Append(upTo[i - 1], <<action, StartOrder[i]>>)
        ELSE upTo[i - 1]
  IN  upTo[Len(StartOrder)]

StartSteps(S) == InOrder("check", S)

\* Stopping in start order.
StopSteps_Forward(S) == InOrder("stop", S)

\* stop_order: the reverse of the start order.
StopSteps(S) == Reverse(InOrder("stop", S))

\* save stops everything.
SaveSteps_All == StopSteps(Services)

SaveSteps == StopSteps(Optional)

\* resume starts without asking whether the service is up.
ResumeSteps == InOrder("start", Optional)

\* hajimectl takes a name only from the table, and a rollback only with a
\* snapshot, which no plan names.
Taken(v, t) ==
  CASE v \in {"start", "stop"} -> t \in Services \cup {None}
    [] v = "restart" -> t \in Services
    [] v = "jail-snapshot" -> t \in Jails
    [] v = "jail-rollback" -> FALSE
    [] v \in {"snapshot", "save", "resume"} -> TRUE

Steps(v, t) ==
  CASE v = "start" -> StartSteps(Scope(t))
    [] v = "stop" -> StopSteps(Scope(t))
    [] v = "restart" -> StopSteps(Scope(t)) \o StartSteps(Scope(t))
    [] v = "save" -> SaveSteps
    [] v = "resume" -> ResumeSteps
    [] v \in {"snapshot", "jail-snapshot"} -> <<<<"clone", t>>>>

Commands ==
  ({"start", "stop"} \X (Targets \cup {None}))
  \cup ({"restart"} \X Targets)
  \cup ({"save", "resume"} \X {None})

Requests ==
  ((Pointed \cup {"snapshot"}) \X (Targets \cup Jails \cup {None}))
  \cup ({"save", "resume"} \X {None})

----------------------------------------------------------------------------
Init ==
  /\ up \in SUBSET Services
  /\ verb = [p \in Sessions |-> "none"]
  /\ target = [p \in Sessions |-> None]
  /\ plan = [p \in Sessions |-> Unclear]
  /\ script = [p \in Sessions |-> <<>>]
  /\ seen = [p \in Sessions |-> {}]
  /\ failed = [p \in Sessions |-> FALSE]
  /\ exit = [p \in Sessions |-> "none"]
  /\ commands = 0
  /\ faults = 0
  /\ before = [p \in Sessions |-> {}]
  /\ lost = [p \in Sessions |-> {}]
  /\ gained = [p \in Sessions |-> {}]
  /\ kept = [p \in Sessions |-> {}]

Busy(p) == verb[p] # "none" /\ exit[p] = "none"

\* p begins a command or a request, with these steps ahead.
Begin(p, v, t, steps) ==
  /\ ~Busy(p)
  /\ commands < MaxCommands
  /\ commands' = commands + 1
  /\ verb' = [verb EXCEPT ![p] = v]
  /\ target' = [target EXCEPT ![p] = t]
  /\ plan' = [plan EXCEPT ![p] = Unclear]
  /\ script' = [script EXCEPT ![p] = steps]
  /\ seen' = [seen EXCEPT ![p] = {}]
  /\ failed' = [failed EXCEPT ![p] = FALSE]
  /\ exit' = [exit EXCEPT ![p] = "none"]
  /\ before' = [before EXCEPT ![p] = up]
  /\ lost' = [lost EXCEPT ![p] = {}]
  /\ gained' = [gained EXCEPT ![p] = {}]
  /\ kept' = [kept EXCEPT ![p] = up]
  /\ UNCHANGED <<up, faults>>

\* hajimectl v t.
Command(p, v, t) == Begin(p, v, t, Steps(v, t))

\* hajime-model ask: it looks before it plans.  Only the plan of a start reads
\* what it saw, so that the other looks are left out.
Ask(p, i, n) ==
  Begin(p, "ask", n,
        Append(IF i = "start" THEN InOrder("look", Services) ELSE <<>>, <<"plan", i>>))

\* The next step of p's command is this action on s.
Doing(p, action, s) ==
  /\ Busy(p)
  /\ script[p] # <<>>
  /\ Head(script[p]) = <<action, s>>
  /\ UNCHANGED <<verb, target, commands, before>>

\* The others learn of it only by looking.
ComesUp(p, s) ==
  /\ up' = up \cup {s}
  /\ gained' = [q \in Sessions |-> IF q = p THEN gained[q] ELSE gained[q] \cup {s}]
  /\ UNCHANGED <<lost, kept>>

GoesDown(p, s) ==
  /\ up' = up \ {s}
  /\ lost' = [q \in Sessions |-> IF q = p THEN lost[q] ELSE lost[q] \cup {s}]
  /\ kept' = [q \in Sessions |-> kept[q] \ {s}]
  /\ UNCHANGED gained

Nothing == UNCHANGED <<up, lost, gained, kept>>

\* A call that could have worked does not.
Fault == faults < MaxFaults /\ faults' = faults + 1

\* cmd_start asks rc_status first: "already up", or a start comes next.
CheckUp(p, s) ==
  /\ Doing(p, "check", s)
  /\ script' = [script EXCEPT ![p] =
       IF s \in up THEN Tail(@) ELSE <<<<"start", s>>>> \o Tail(@)]
  /\ Nothing
  /\ UNCHANGED <<plan, seen, failed, exit, faults>>

\* A failed start is printed and not counted.
Start_Uncounted(p, s) ==
  /\ Doing(p, "start", s)
  /\ script' = [script EXCEPT ![p] = Tail(@)]
  /\ \/ s \notin up /\ ComesUp(p, s) /\ faults' = faults
     \/ s \notin up /\ Nothing /\ Fault
     \/ s \in up /\ Nothing /\ faults' = faults
  /\ UNCHANGED <<plan, seen, failed, exit>>

\* rc_do start.  rc refuses to start what already runs (rc.subr).
Start(p, s) ==
  /\ Doing(p, "start", s)
  /\ script' = [script EXCEPT ![p] = Tail(@)]
  /\ \/ s \notin up /\ ComesUp(p, s) /\ UNCHANGED <<failed, faults>>
     \/ s \notin up /\ Nothing /\ Fault /\ failed' = [failed EXCEPT ![p] = TRUE]
     \/ s \in up /\ Nothing /\ faults' = faults /\ failed' = [failed EXCEPT ![p] = TRUE]
  /\ UNCHANGED <<plan, seen, exit>>

\* rc_do stop: a failure is only noted.
Stop(p, s) ==
  /\ Doing(p, "stop", s)
  /\ script' = [script EXCEPT ![p] = Tail(@)]
  /\ \/ s \in up /\ GoesDown(p, s) /\ faults' = faults
     \/ s \in up /\ Nothing /\ Fault
     \/ s \notin up /\ Nothing /\ faults' = faults
  /\ UNCHANGED <<plan, seen, failed, exit>>

\* running_now: one service at a time.
Look(p, s) ==
  /\ Doing(p, "look", s)
  /\ script' = [script EXCEPT ![p] = Tail(@)]
  /\ seen' = [seen EXCEPT ![p] = IF s \in up THEN @ \cup {s} ELSE @]
  /\ Nothing
  /\ UNCHANGED <<plan, failed, exit, faults>>

\* bectl create or zfs snapshot.
Clone(p, t) ==
  /\ Doing(p, "clone", t)
  /\ script' = [script EXCEPT ![p] = Tail(@)]
  /\ \/ UNCHANGED <<failed, faults>>
     \/ Fault /\ failed' = [failed EXCEPT ![p] = TRUE]
  /\ Nothing
  /\ UNCHANGED <<plan, seen, exit>>

\* The person runs the command of a plan, as a new process.
Run(p, command) ==
  IF Taken(command.verb, command.target)
  THEN script' = [script EXCEPT ![p] = Steps(command.verb, command.target)] /\ exit' = exit
  ELSE script' = [script EXCEPT ![p] = <<>>] /\ exit' = [exit EXCEPT ![p] = "usage"]

Leave(p) ==
  script' = [script EXCEPT ![p] = <<>>] /\ exit' = [exit EXCEPT ![p] = "refused"]

\* print_plan: a plan to act is run, one to confirm asks, the others end here.
Plan(p, i) ==
  /\ Doing(p, "plan", i)
  /\ \E sure \in BOOLEAN : plan' = [plan EXCEPT ![p] = PlanFor(i, target[p], sure, seen[p])]
  /\ CASE plan'[p].outcome = "act" -> Run(p, plan'[p])
       [] plan'[p].outcome = "confirm" ->
            script' = [script EXCEPT ![p] = <<<<"answer", i>>>>] /\ exit' = exit
       [] plan'[p].outcome \in {"refuse", "unclear"} -> Leave(p)
  /\ seen' = [seen EXCEPT ![p] = {}]
  /\ Nothing
  /\ UNCHANGED <<failed, faults>>

\* "Run it yourself if that is what you meant."
Answer(p, i) ==
  /\ Doing(p, "answer", i)
  /\ Run(p, plan[p]) \/ Leave(p)
  /\ Nothing
  /\ UNCHANGED <<plan, seen, failed, faults>>

\* The loop is over: the exit code counts failed starts and nothing else.
End(p) ==
  /\ Busy(p)
  /\ script[p] = <<>>
  /\ exit' = [exit EXCEPT ![p] = IF failed[p] THEN "failed" ELSE "ok"]
  /\ Nothing
  /\ UNCHANGED <<verb, target, plan, script, seen, failed, commands, faults, before>>

\* A service dies.
Die(s) ==
  /\ s \in up
  /\ Fault
  /\ GoesDown("none", s)
  /\ UNCHANGED <<verb, target, plan, script, seen, failed, exit, commands, before>>

Next ==
  \/ \E p \in Sessions :
       \/ \E c \in Commands : Command(p, c[1], c[2])
       \/ \E r \in Requests : Ask(p, r[1], r[2])
       \/ \E s \in Services : CheckUp(p, s) \/ Start(p, s) \/ Stop(p, s) \/ Look(p, s)
       \/ \E t \in Jails \cup {None} : Clone(p, t)
       \/ \E i \in Intents : Plan(p, i) \/ Answer(p, i)
       \/ End(p)
  \/ \E s \in Services : Die(s)

Spec == Init /\ [][Next]_vars

----------------------------------------------------------------------------
(* Properties *)

\* Types; a command that has ended has nothing left to do, and only what was
\* asked of the planner is refused or mistaken.
TypeOK ==
  /\ up \subseteq Services
  /\ verb \in [Sessions -> {"none", "start", "stop", "restart", "save", "resume", "ask"}]
  /\ target \in [Sessions -> Services \cup Jails \cup {None}]
  /\ plan \in [Sessions ->
                [outcome : {"act", "confirm", "refuse", "unclear"},
                 verb : {"none", "start", "stop", "restart", "save", "resume",
                         "snapshot", "jail-snapshot", "jail-rollback"},
                 target : Services \cup Jails \cup {None}]]
  /\ script \in [Sessions -> Seq({"check", "start", "stop", "look", "clone", "plan", "answer"}
                                 \X (Services \cup Jails \cup {None} \cup Intents))]
  /\ seen \in [Sessions -> SUBSET Services]
  /\ failed \in [Sessions -> BOOLEAN]
  /\ exit \in [Sessions -> {"none", "ok", "failed", "refused", "usage"}]
  /\ commands \in Nat /\ faults \in Nat
  /\ before \in [Sessions -> SUBSET Services]
  /\ lost \in [Sessions -> SUBSET Services]
  /\ gained \in [Sessions -> SUBSET Services]
  /\ kept \in [Sessions -> SUBSET Services]
  /\ \A p \in Sessions : exit[p] # "none" => script[p] = <<>>
  /\ \A p \in Sessions : exit[p] \in {"refused", "usage"} => verb[p] = "ask"

\* The command that p runs: its own, or the one planned for it.
Verb(p) == IF verb[p] = "ask" THEN plan[p].verb ELSE verb[p]
Target(p) == IF verb[p] = "ask" THEN plan[p].target ELSE target[p]

\* No call of a command failed and nobody else changed the machine since it began.
Undisturbed(p) == faults = 0 /\ lost[p] = {} /\ gained[p] = {}

\* What a command is to leave running.
Intended(p) ==
  CASE exit[p] \in {"refused", "usage"} -> before[p]
    [] OTHER ->
         CASE Verb(p) \in {"start", "restart"} -> before[p] \cup Scope(Target(p))
           [] Verb(p) = "stop" -> before[p] \ Scope(Target(p))
           [] Verb(p) = "save" -> before[p] \cap Essential
           [] Verb(p) = "resume" -> before[p] \cup Optional
           [] Verb(p) \in {"snapshot", "jail-snapshot"} -> before[p]

\* A command left alone leaves running exactly what it says (the table at the
\* head of hajimectl's main.rs; "the sites stay up: nothing essential is
\* touched"), and reports a failure only for a resume of what never stopped.
\* A request that was refused, not understood or not confirmed changes nothing,
\* and one that names no service is never taken for all of them (plan.rs).
CommandsDoAsTheySay ==
  \A p \in Sessions :
    exit[p] # "none" /\ Undisturbed(p) =>
      /\ up = Intended(p)
      /\ verb[p] = "ask" /\ target[p] = None => Verb(p) \notin Pointed
      /\ exit[p] = "failed" <=> Verb(p) = "resume" /\ before[p] \cap Optional # {}

\* What a start is to bring up.
Wanted(p) == IF Verb(p) = "resume" THEN Optional ELSE Scope(Target(p))

\* With any number of commands at once and any failures: a start that reports
\* success left everything it was to start running, but for what others took
\* down meanwhile; it reports a failure only when a call failed or when
\* something it was to start was up already (cmd_start, cmd_resume); a restart
\* reports success over a service that was never down only when a stop failed;
\* and hajimectl turns down a planned command only when it is about a jail
\* (plan.rs:98-100).
ExitCodeIsHonest ==
  \A p \in Sessions :
    /\ Verb(p) \in {"start", "restart", "resume"} =>
         /\ exit[p] = "ok" => Wanted(p) \subseteq up \cup lost[p]
         /\ exit[p] = "failed" =>
              \/ faults > 0
              \/ Wanted(p) \cap gained[p] # {}
              \/ Verb(p) = "resume" /\ before[p] \cap Optional # {}
    /\ exit[p] = "ok" /\ Verb(p) = "restart" /\ Target(p) \in kept[p] => faults > 0
    /\ exit[p] = "usage" => target[p] \in Jails

\* The veto holds whatever others do during the planning and after it: beyond
\* what they started themselves, a planned start leaves no more in use than
\* there is, with room for what the service needs (Planner::plan_start,
\* running_now).
VetoHolds ==
  \A p \in Sessions :
    verb[p] = "ask" /\ plan[p].verb = "start" /\ exit[p] = "ok" /\ target[p] \in up =>
      MemoryOf((up \ gained[p]) \cup {target[p]}
               \cup (Requires(target[p]) \ gained[p])) <= Available

\* Requirements broken now that were not when p's command was given.
NewlyBroken(p) ==
  {q \in Requirements : q[1] \in up /\ q[2] \notin up
                        /\ ~(q[1] \in before[p] /\ q[2] \notin before[p])}

\* At no moment of a start or stop of everything, of a save or of a resume,
\* left alone, does a service run without what it needs, where the table has
\* what it needs above it: "a service may depend on those above it"
\* (service.rs:64).
OrderProtects ==
  \A p \in Sessions :
    Verb(p) # "none" /\ Target(p) = None /\ Undisturbed(p) =>
      \A q \in NewlyBroken(p) : Place(q[1]) < Place(q[2])

\* "Reverse order so dependants go down before what they depend on"
\* (hajimectl's main.rs:131).  It does not hold of the code: two services
\* stand above what they need.
StopsDependantsFirst ==
  \A p \in Sessions :
    Verb(p) = "stop" /\ Target(p) = None /\ Undisturbed(p) => NewlyBroken(p) = {}
==============================================================================
