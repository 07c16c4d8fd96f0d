------------------------------- MODULE Server -------------------------------
(***************************************************************************)
(* The service of hajime-workflow around its engine: main loads the export *)
(* and starts the scheduler, then the server; webhooks, manual runs,       *)
(* rehearsals and schedules start runs; a run leaves a record and its      *)
(* caller hears of it.  The process may stop at any step, the export may   *)
(* be replaced at any time, and a caller may hang up.                      *)
(*                                                                         *)
(* A node of kind "act" changes something outside, "read" asks for         *)
(* something there, and "pass" has no executor; "respond" is a             *)
(* respondToWebhook with a body of its own and "echo" one that answers     *)
(* with the item it is given.  A workflow finds a trigger by its name:     *)
(* names are unique in it.                                                 *)
(***************************************************************************)
EXTENDS Store, FiniteSets

CONSTANTS
  Exports,    \* exports that HAJIME_WORKFLOWS may hold
  Addresses,  \* addresses asked for
  MaxLoads,   \* bound: process starts
  MaxCalls,   \* bound: runs asked for
  MaxFaults   \* bound: history appends that fail

\* Exports are well formed, and no trigger is called "shadow".
ASSUME ServerAssumption ==
  /\ \A e \in Exports :
       /\ e \in Seq(Range(e))
       /\ \A i \in DOMAIN e :
            /\ IsWorkflow(e[i])
            /\ \A j \in DOMAIN e[i].triggers : e[i].triggers[j].name # "shadow"
  /\ NoAddress \notin Addresses
  /\ {MaxLoads, MaxCalls, MaxFaults} \subseteq Nat

VARIABLES
  phase,    \* "down", "starting" (the scheduler runs) or "serving"
  loads,    \* what each process loaded: the export, the store, the map's order
  calls,    \* runs asked for, of whatever process
  history,  \* records appended
  faults    \* appends that failed

vars == <<phase, loads, calls, history, faults>>

Keys == UNION {KeysOf(e) : e \in Exports}

Store(c) == loads[c.load].store
Body(c) == Store(c)[c.key].body
Running(c) == c.state = "running"
Rehearsal(c) == c.via = "shadow"
Loaded == Last(loads)

Unheard == [code |-> "nothing", reply |-> "none"]
Hears(code) == [Unheard EXCEPT !.code = code]
NoReply == [by |-> 0, marked |-> FALSE]

----------------------------------------------------------------------------
Init ==
  /\ phase = "down"
  /\ loads = <<>>
  /\ calls = <<>>
  /\ history = <<>>
  /\ faults = 0

\* hajime-workflow --validate.
Validates(export) == Broken(FromExport(export)) = {}

\* main: it reads the export, whatever a person has put there by now, takes the
\* lock and starts the scheduler.
Launch ==
  /\ phase = "down"
  /\ Len(loads) < MaxLoads
  /\ phase' = "starting"
  /\ \E e \in Exports : \E order \in SetToSeqs(KeysOf(e)) :
       loads' = Append(loads, [export |-> e, store |-> FromExport(e), order |-> order])
  /\ UNCHANGED <<calls, history, faults>>

Bind ==
  /\ phase = "starting"
  /\ phase' = "serving"
  /\ UNCHANGED <<loads, calls, history, faults>>

Cut(c) == IF Running(c) THEN [c EXCEPT !.state = "cut"] ELSE c

\* The process ends: the address is taken, or a crash; the runs end with it.
Stop ==
  /\ phase # "down"
  /\ phase' = "down"
  /\ calls' = [i \in DOMAIN calls |-> Cut(calls[i])]
  /\ UNCHANGED <<loads, history, faults>>

\* A call of this process: a run that begins, or an answer without one.
Call(via, key, trigger, address, state, heard) ==
  /\ Len(calls) < MaxCalls
  /\ calls' = Append(calls,
       [load |-> Len(loads), via |-> via, key |-> key, trigger |-> trigger,
        address |-> address, outputs |-> <<>>, acts |-> {}, state |-> state,
        heard |-> heard])
  /\ UNCHANGED <<phase, loads, history, faults>>

\* A request that took a route of the loaded workflows.
Routed(a, r) ==
  Call("webhook", Loaded.order[r[1]], TriggerOf(Loaded.store, Loaded.order, r), a,
       "running", Unheard)

\* The order of the map drawn for each request.
Webhook_AnyRoute(a) ==
  /\ phase = "serving"
  /\ LET routes == RoutesTo(Loaded.store, Loaded.order, a)
     IN  IF routes = {}
         THEN Call("webhook", NoId, NoId, a, "none", Hears("not found"))
         ELSE \E r \in routes : Routed(a, r)

\* webhook.
Webhook(a) ==
  /\ phase = "serving"
  /\ LET routes == RoutesTo(Loaded.store, Loaded.order, a)
     IN  IF routes = {}
         THEN Call("webhook", NoId, NoId, a, "none", Hears("not found"))
         ELSE Routed(a, First(routes))

\* run_manually: the engine starts at the first enabled trigger of any kind.
Manual(k, via) ==
  /\ phase = "serving"
  /\ IF k \notin DOMAIN Loaded.store
     THEN Call(via, k, NoId, NoAddress, "none", Hears("not found"))
     ELSE LET w == Loaded.store[k]
          IN  IF Enabled(w) = {}
              THEN Call(via, k, NoId, NoAddress, "none", Hears("bad request"))
              ELSE Call(via, k, w.triggers[Min(Enabled(w))], NoAddress, "running", Unheard)

\* The scheduler spawns a run, whether or not the server is there yet.
Fire(s) ==
  /\ phase # "down"
  /\ Call("schedule", s.key, s.trigger, NoAddress, "running", Unheard)

----------------------------------------------------------------------------
(* A run *)

Node(c) == Len(c.outputs) + 1
Unfinished(c) == Running(c) /\ Node(c) <= Len(Body(c))
NodeIs(c, kind) == Unfinished(c) /\ Body(c)[Node(c)] = kind

Input(c) == IF c.outputs = <<>> THEN NoReply ELSE Last(c.outputs)

\* The reply that the items a node leaves carry under RESPONSE_KEY, by which
\* node, and whether the key shows inside it.
Output(c) ==
  CASE NodeIs(c, "act") \/ NodeIs(c, "read") -> NoReply
    [] NodeIs(c, "pass") -> Input(c)
    [] NodeIs(c, "respond") -> [by |-> Node(c), marked |-> FALSE]
    [] NodeIs(c, "echo") -> [by |-> Node(c), marked |-> Input(c) # NoReply]

\* A rehearsal that lets nodes act.
HeldBack_Never(c) == FALSE

\* Mode::Shadow holds back what is no read.
HeldBack(c) == Rehearsal(c) /\ NodeIs(c, "act")

\* The run waits for something outside.
Awaits(c) == NodeIs(c, "read") \/ (NodeIs(c, "act") /\ ~HeldBack(c))

Acted(c) == IF NodeIs(c, "act") /\ ~HeldBack(c) THEN c.acts \cup {Node(c)} ELSE c.acts

\* The last node's items as they are.
LastNodeReply_Marked(c) == [by |-> Len(c.outputs), marked |-> Input(c) # NoReply]

\* The first of the last node's items, without_marker.
LastNodeReply(c) == [by |-> Len(c.outputs), marked |-> FALSE]

\* take_response over the outputs, in the order of another hash map.
Replies(c) ==
  CASE c.trigger.mode = "lastNode" -> {LastNodeReply(c)}
    [] c.trigger.mode = "responseNode" ->
         LET found == Range(c.outputs) \ {NoReply}
         IN  IF found = {} THEN {NoReply} ELSE found
    [] c.trigger.mode = "immediately" -> {"started"}

\* What its caller hears of a run that ended.
Answers(c, ok) ==
  CASE c.via = "schedule" -> {Unheard}
    [] c.via # "schedule" /\ ~ok -> {Hears("failed")}
    [] c.via \in {"manual", "shadow"} /\ ok -> {Hears("ok")}
    [] c.via = "webhook" /\ ok -> {[code |-> "ok", reply |-> r] : r \in Replies(c)}

Label(c) == IF c.via \in {"manual", "shadow"} THEN c.via ELSE c.trigger.name

\* The run of call i has ended: it is recorded, and its caller answered.
End(i, acts, ok) ==
  /\ \E heard \in Answers(calls[i], ok) :
       calls' = [calls EXCEPT ![i].state = IF ok THEN "ok" ELSE "failed",
                              ![i].acts = acts, ![i].heard = heard]
  /\ \/ /\ history' = Append(history, [key |-> calls[i].key, trigger |-> Label(calls[i]),
                                       ok |-> ok, of |-> i])
        /\ UNCHANGED faults
     \/ /\ faults < MaxFaults
        /\ faults' = faults + 1
        /\ UNCHANGED history
  /\ UNCHANGED <<phase, loads>>

Step(i) ==
  /\ Unfinished(calls[i])
  /\ calls' = [calls EXCEPT ![i].outputs = Append(@, Output(calls[i])),
                            ![i].acts = Acted(calls[i])]
  /\ UNCHANGED <<phase, loads, history, faults>>

\* A node fails, having acted or not.
Fail(i) ==
  /\ Awaits(calls[i]) \/ NodeIs(calls[i], "respond") \/ NodeIs(calls[i], "echo")
  /\ \E acts \in {calls[i].acts, Acted(calls[i])} : End(i, acts, FALSE)

Finish(i) ==
  /\ Running(calls[i]) /\ ~Unfinished(calls[i])
  /\ End(i, calls[i].acts, TRUE)

\* The caller hangs up and axum drops its handler.
HangUp(i) ==
  /\ Awaits(calls[i]) /\ calls[i].via # "schedule"
  /\ \E acts \in {calls[i].acts, Acted(calls[i])} :
       calls' = [calls EXCEPT ![i].state = "cut", ![i].acts = acts]
  /\ UNCHANGED <<phase, loads, history, faults>>

Next ==
  \/ Launch \/ Bind \/ Stop
  \/ \E a \in Addresses : Webhook(a)
  \/ \E k \in Keys : Manual(k, "manual") \/ Manual(k, "shadow")
  \/ phase # "down" /\ \E s \in Scheduled(Loaded.store) : Fire(s)
  \/ \E i \in DOMAIN calls : Step(i) \/ Fail(i) \/ Finish(i) \/ HangUp(i)

Spec == Init /\ [][Next]_vars

----------------------------------------------------------------------------
(* Properties *)

States == {"none", "running", "ok", "failed", "cut"}

\* Types; only a process that is up has runs, which are no longer than their
\* workflow, and a caller hears of no run before it ends.
TypeOK ==
  /\ phase \in {"down", "starting", "serving"}
  /\ loads \in Seq(Range(loads)) /\ calls \in Seq(Range(calls)) /\ history \in Seq(Range(history))
  /\ phase # "down" => loads # <<>>
  /\ \A i \in DOMAIN calls :
       LET c == calls[i]
       IN  /\ c.load \in DOMAIN loads
           /\ c.via \in {"webhook", "manual", "shadow", "schedule"}
           /\ c.state \in States
           /\ c.state # "none" =>
                /\ c.key \in DOMAIN Store(c)
                /\ Len(c.outputs) <= Len(Body(c))
                /\ c.acts \subseteq DOMAIN Body(c)
           /\ Running(c) => phase # "down" /\ c.load = Len(loads)
           /\ c.state \in {"running", "cut"} => c.heard = Unheard
  /\ \A n \in DOMAIN history : history[n].of \in DOMAIN calls
  /\ faults \in 0..MaxFaults

\* A workflow of an export that no later one takes the place of.
Kept(export, i) == i = Max(At(export, Key(export, i)))

Answering(w, address) ==
  {t \in Range(w.triggers) : t.kind = "webhook" /\ ~t.disabled /\ t.address = address}

Webhooks == {i \in DOMAIN calls : calls[i].via = "webhook"}

\* Over any edits and restarts: a request reaches an active workflow of the
\* export that its process loaded, by an enabled webhook of that address; it is
\* told that there is none only if there is none, but for workflows replaced by
\* a later one with their id; one process sends an address to one workflow for
\* as long as it lives, though two may claim it (webhook, Store::routes).  And
\* a schedule of an export that --validate calls ok is scheduled by the
\* process that loads it, unless it has no interval at all (main).
RequestsReachTheirWorkflow ==
  /\ \A n \in Webhooks :
       LET c == calls[n]
           e == loads[c.load].export
           able == {i \in DOMAIN e : e[i].active /\ Kept(e, i) /\ Answering(e[i], c.address) # {}}
       IN  IF c.state = "none"
           THEN able = {}
           ELSE \E i \in able : Key(e, i) = c.key /\ c.trigger \in Answering(e[i], c.address)
  /\ \A m, n \in Webhooks :
       calls[m].load = calls[n].load /\ calls[m].address = calls[n].address =>
         calls[m].key = calls[n].key /\ calls[m].trigger = calls[n].trigger
  /\ \A n \in DOMAIN loads :
       LET e == loads[n].export
       IN  Validates(e) =>
             \A i \in DOMAIN e : e[i].active /\ Kept(e, i) =>
               \A t \in Range(e[i].triggers) :
                 t.kind = "schedule" /\ ~t.disabled /\ t.intervals # <<>> =>
                   [key |-> Key(e, i), trigger |-> t] \in Scheduled(loads[n].store)

Responds(c, n) == Body(c)[n] \in {"respond", "echo"}

\* The reply is that of the last node, or of a respondToWebhook that ran, if
\* there is one; the marker shows in it only if such a node echoes what an
\* earlier one left.
ReplyIsTheNodes(c) ==
  CASE c.trigger.mode = "immediately" -> c.heard.reply = "started"
    [] c.trigger.mode = "lastNode" ->
         c.heard.reply = [by |-> Len(Body(c)), marked |-> FALSE]
    [] c.trigger.mode = "responseNode" ->
         IF \E n \in DOMAIN Body(c) : Responds(c, n)
         THEN /\ Responds(c, c.heard.reply.by)
              /\ c.heard.reply.marked =>
                   /\ Body(c)[c.heard.reply.by] = "echo"
                   /\ \E n \in 1..(c.heard.reply.by - 1) : Responds(c, n)
         ELSE c.heard.reply = NoReply

ActsOf(c) == {n \in DOMAIN Body(c) : Body(c)[n] = "act"}

RecordsOf(i) == {n \in DOMAIN history : history[n].of = i}

\* What is remembered and what is said agree with what was done, over hang-ups,
\* crashes and failed appends: a run has at most one record, of how it ended,
\* and a rehearsal, which is recorded as one, changed nothing ("a rehearsal that
\* appears in the history as an ordinary run would later be read as evidence the
\* workflow really ran"); a run that changed something and is over has a
\* record, unless it was cut, and a scheduled one is cut only with its process;
\* who was told that it worked was told so of a run that did all it was to do.
RecordsAndAnswersAgree ==
  \A i \in DOMAIN calls :
    LET c == calls[i]
        recorded == RecordsOf(i) # {}
    IN  /\ Cardinality(RecordsOf(i)) <= 1
        /\ \A n \in RecordsOf(i) :
             /\ c.state = (IF history[n].ok THEN "ok" ELSE "failed")
             /\ Rehearsal(c) <=> history[n].trigger = "shadow"
        /\ Rehearsal(c) => c.acts = {}
        /\ c.acts # {} /\ ~Running(c) => recorded \/ c.state = "cut" \/ faults > 0
        /\ c.via = "schedule" /\ c.state = "cut" => phase = "down" \/ c.load < Len(loads)
        /\ c.state = "ok" /\ ~Rehearsal(c) => c.acts = ActsOf(c)
        /\ c.heard.code \in {"ok", "failed"} =>
             c.state = c.heard.code /\ (recorded \/ faults > 0)
        /\ c.via = "webhook" /\ c.heard.code = "ok" => ReplyIsTheNodes(c)
=============================================================================
