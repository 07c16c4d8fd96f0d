------------------------------- MODULE Store -------------------------------
(***************************************************************************)
(* hajime-workflow's store: what it keeps of an export, and the routes and *)
(* schedules it reads off the enabled triggers of the active workflows.    *)
(*                                                                         *)
(* A workflow is a record of its id, whether it is active, its triggers    *)
(* and its body: the kinds of the nodes that every trigger leads to, one   *)
(* after the other (Engine has the other graphs).  A trigger is a record   *)
(* of its name, kind, whether it is disabled, and of what its kind uses:   *)
(* the address (method and path) and response mode of a webhook, and of a  *)
(* schedule, for each of its intervals, whether it makes a cron expression *)
(* that parses.                                                            *)
(***************************************************************************)
EXTENDS Integers, SequencesExt, FiniteSetsExt

CONSTANTS
  NoId,       \* the id of a workflow exported without one
  Generated,  \* [position in an export -> the id made up for a workflow there]
  NoAddress   \* the address of a webhook without a path

Kinds == {"act", "read", "pass", "respond", "echo"}
Modes == {"immediately", "lastNode", "responseNode"}

\* What an export may hold.
IsTrigger(t) ==
  /\ t.disabled \in BOOLEAN
  /\ t.kind = "webhook" => t.mode \in Modes

IsWorkflow(w) ==
  /\ w.active \in BOOLEAN
  /\ w.body \in Seq(Kinds)
  /\ w.triggers \in Seq(Range(w.triggers))
  /\ \A j \in DOMAIN w.triggers : IsTrigger(w.triggers[j])

\* An export without ids still needs stable keys.
Key(export, i) == IF export[i].id = NoId THEN Generated[i] ELSE export[i].id

KeysOf(export) == {Key(export, i) : i \in DOMAIN export}

\* The workflows that share a key.
At(export, k) == {i \in DOMAIN export : Key(export, i) = k}

\* Store::from_export: a later workflow takes the place of an earlier one with
\* its id.
FromExport(export) == [k \in KeysOf(export) |-> export[Max(At(export, k))]]

\* The places of a workflow's enabled triggers, and of those of a kind.
Enabled(w) == {j \in DOMAIN w.triggers : ~w.triggers[j].disabled}

TriggersIn(w, kind) == {j \in Enabled(w) : w.triggers[j].kind = kind}

ActiveKeys(store) == {k \in DOMAIN store : store[k].active}

\* A route is the place of its workflow in the order of the hash map and the
\* place of its trigger there.
TriggerOf(store, order, route) == store[order[route[1]]].triggers[route[2]]

\* routes(): the webhooks with a path of the active workflows.
Routes(store, order) ==
  UNION {{<<n, j>> : j \in {j \in TriggersIn(store[order[n]], "webhook") :
                              store[order[n]].triggers[j].address # NoAddress}} :
           n \in {n \in DOMAIN order : order[n] \in ActiveKeys(store)}}

\* The routes that answer to an address, and the one that find takes.
RoutesTo(store, order, address) ==
  {r \in Routes(store, order) : TriggerOf(store, order, r).address = address}

First(routes) ==
  CHOOSE r \in routes : \A s \in routes : r[1] < s[1] \/ (r[1] = s[1] /\ r[2] <= s[2])

ScheduleTriggers(store) ==
  UNION {{[key |-> k, trigger |-> store[k].triggers[j]] :
            j \in TriggersIn(store[k], "schedule")} : k \in ActiveKeys(store)}

\* ScheduleTrigger::crons: one bad interval spoils the trigger.
Parses(t) == \A i \in DOMAIN t.intervals : t.intervals[i] = "valid"

\* broken_schedules() looking for triggers with nothing that parses.
Broken_WhenNothingParses(store) ==
  {s \in ScheduleTriggers(store) :
     \A i \in DOMAIN s.trigger.intervals : s.trigger.intervals[i] = "invalid"}

Broken(store) == {s \in ScheduleTriggers(store) : ~Parses(s.trigger)}

\* schedules(): one for each interval of a trigger that parses.
Scheduled(store) ==
  {s \in ScheduleTriggers(store) : Parses(s.trigger) /\ s.trigger.intervals # <<>>}
=============================================================================
