------------------------------ MODULE Console ------------------------------
(***************************************************************************)
(* Who looks at the machine, and what they say of it: the console's page,  *)
(* `hajimectl status`, the self-check of `hajimectl check`, and a client   *)
(* that chats with hajime-ai.  A look goes through the services one after  *)
(* the other while they come and go, the history's file is written, torn   *)
(* and cut, and tokens are replaced.                                       *)
(*                                                                         *)
(* Looks only read, so one at a time is enough, and nothing need happen    *)
(* between the end of a look and its being put away.                       *)
(***************************************************************************)
EXTENDS Machine, History

CONSTANTS
  MaxChanges   \* bound: changes of services and files, and faults, in a behaviour

\* hajime-ai's health path asks llama.cpp for its models first, and hajime-wa's
\* the bridge for its state: they may take longer than the console waits.
Fronts == {"hajime_ai", "hajime_wa"}

ASSUME ConsoleAssumption ==
  /\ MaxChanges \in Nat /\ "llamacpp" \in Services
  /\ Fronts \cap Essential = {} /\ \A q \in Requirements : q[2] \notin Fronts

VARIABLES
  look,     \* the look under way, or the last one
  link,     \* what a chat under way has a connection to, and whether it stands
  \* history variables, read by the properties alone
  changed,  \* services that changed since the look began
  before    \* what there was to see when it began

consoleVars == <<look, link, changed, before>>
allVars == <<vars, machineVars, consoleVars>>

n == Len(StartOrder)

\* at counts the services asked, then what comes after them; the look is over
\* when at passes Last.
Last(who) == CASE who = "console" -> n + 2
               [] who = "status" -> n
               [] who = "check" -> n + 1
               [] who = "chat" -> 3
               [] who = "nobody" -> 0

Over == look.who # "nobody" /\ look.at > Last(look.who)
Done(who) == look.who = who /\ look.at > Last(who)
NoLook == [who |-> "nobody", at |-> 1, seen |-> [s \in Services |-> "unseen"],
           runs |-> "unseen", tools |-> "unseen", aside |-> "unseen"]
NothingYet == [runs |-> FALSE, tools |-> FALSE, faults |-> 0]
AllFaults == faults["full"] + faults["kill"] + faults["power"]

----------------------------------------------------------------------------
(* One service, as each of them sees it *)

\* Any answer is a good one.
Reach_AnyAnswer(s) ==
  IF s \in Checked THEN {IF Answers(s) \/ phase[s] = "loading" THEN "up" ELSE "down"}
  ELSE IF s \in Ported THEN {IF PortOpen(s) THEN "up" ELSE "down"}
  ELSE {"unknown"}

\* Collector::one: what the health path says within three seconds, or else the
\* port, or else nothing.  A front that answers may be too late.
Reach(s) ==
  IF s \in Checked THEN CASE Answers(s) -> IF s \in Fronts THEN {"up", "down"} ELSE {"up"}
                          [] phase[s] = "loading" -> {"unhealthy"}
                          [] OTHER -> {"down"}
  ELSE IF s \in Ported THEN {IF PortOpen(s) THEN "up" ELSE "down"}
  ELSE {"unknown"}

\* cmd_status: what rc says and, where there is a port, whether it is open.
Row(s) ==
  CASE RcStatus(s) /\ (s \in Ported => PortOpen(s)) -> "up"
    [] RcStatus(s) /\ s \in Ported /\ ~PortOpen(s) -> "started, not listening"
    [] ~RcStatus(s) /\ PortOpen(s) -> "listening, not via rc"
    [] ~RcStatus(s) /\ ~PortOpen(s) -> "down"

\* service_check failing an optional service and warning of an essential one.
ServiceCheck_Swapped(s) ==
  CASE PortOpen(s) -> "pass"
    [] ~PortOpen(s) /\ s \notin Essential -> "fail"
    [] ~PortOpen(s) /\ s \in Essential -> "warn"

\* service_check.
ServiceCheck(s) ==
  CASE PortOpen(s) -> "pass"
    [] ~PortOpen(s) /\ s \notin Essential -> "warn"
    [] ~PortOpen(s) /\ s \in Essential -> "fail"

\* check_services: no port, no check.
SelfCheck(s) == IF s \in Ported THEN ServiceCheck(s) ELSE "unchecked"

\* What a look may note of a service.
Seen(who, s) ==
  CASE who = "console" -> Reach(s)
    [] who = "status" -> {Row(s)}
    [] who = "check" -> {SelfCheck(s)}

----------------------------------------------------------------------------
(* What the page asks the services for *)

\* The console asks without its copy of the token.
Fetched_NoToken(s, data) ==
  IF ~Answers(s) THEN "unreachable"
  ELSE IF Admits(s, None) THEN data ELSE "error"

\* Collector::get_json with the console's copy of the service's token: not
\* reached, refused, or answered.
Fetched(s, data) ==
  IF ~Answers(s) THEN "unreachable"
  ELSE IF Admits(s, Presented(copies[s])) THEN data ELSE "error"

\* Whatever is not an answer is drawn as an empty panel.
HistoryPanel_Blank ==
  IF Visible = {} \/ Fetched("hajime_workflow", "rows") # "rows" THEN "no runs" ELSE "rows"

\* history_panel: rows, "no runs recorded yet" for an answer without any, and
\* what is the matter when there is no answer.
HistoryPanel ==
  Fetched("hajime_workflow", IF Visible = {} THEN "no runs" ELSE "rows")

\* audit_panel, of a log that lives as long as the process of hajime-ai.
AuditPanel == Fetched("hajime_ai", IF used THEN "rows" ELSE "no tools")

----------------------------------------------------------------------------
(* A chat with hajime-ai, over llama.cpp *)

Backend == "llamacpp"

BackendListens == phase[Backend] \in {"up", "hung", "loading", "byhand"}

\* What HttpBackend::chat makes of an answer.  One that is cut short counts as
\* an empty text, and a text with "not found" in it as a missing model, in a
\* reply as in an error; any other refusal is Rejected (400, 429, 500).
Refusals == {"no such model", "Rejected", "garbled"}
Replies == {"reply", "reply not found"}

\* HttpBackend::chat, once it has a connection: what becomes of each thing
\* llama.cpp may do with it within the 300 seconds of the client.
BackendSays ==
  CASE link = "broken" -> Replies \cup Refusals \cup {"Unreachable"}
    [] link = "held" /\ phase[Backend] = "hung" -> Refusals \cup {"Timeout"}
    [] link = "held" /\ phase[Backend] = "loading" -> {"Rejected"}
    [] link = "held" /\ phase[Backend] \notin {"hung", "loading"} ->
         Replies \cup Refusals \cup {"Timeout"}

\* A connection ends with either of its processes.
Hear(S) ==
  link' = CASE link # "none" /\ "hajime_ai" \in S -> "cut"
            [] link = "held" /\ Backend \in S /\ "hajime_ai" \notin S -> "broken"
            [] OTHER -> link

\* status_for with the two time-outs taken for one.
StatusFor_NoTimeout(said) ==
  CASE said \in {"Unreachable", "Timeout"} -> "503"
    [] said = "Rejected" -> "502"
    [] said \in {"no such model", "reply not found"} -> "404"
    [] said = "garbled" -> "500"
    [] said = "reply" -> "200"

\* status_for over BackendError, and the answer to a reply.
StatusFor(said) ==
  CASE said = "Unreachable" -> "503"
    [] said = "Timeout" -> "504"
    [] said = "Rejected" -> "502"
    [] said \in {"no such model", "reply not found"} -> "404"
    [] said = "garbled" -> "500"
    [] said = "reply" -> "200"

\* A request to hajime-ai is not taken up: no answer, the token, a stream, or a
\* conversation of no messages.
TurnedAway ==
  IF ~Answers("hajime_ai") THEN {"none"}
  ELSE IF ~Admits("hajime_ai", Presented(TryGet(dir, "ai_token"))) THEN {"401"}
  ELSE {"501", "400"}

----------------------------------------------------------------------------
(* The looks *)

\* Records a reader sees, line end included: what is appended to a record that
\* lacks its line end spoils it.
Finished == {r \in Visible : \E i \in DOMAIN file : file[i] = Whole(r) /\ i < Len(file)}

Begin(who) ==
  /\ look.who = "nobody"
  /\ who = "console" => Answers("hajime_console")
  /\ look' = [NoLook EXCEPT !.who = who]
  /\ link' = "none"
  /\ changed' = {}
  /\ before' = [runs |-> Finished # {}, tools |-> used, faults |-> AllFaults]
  /\ UNCHANGED <<vars, machineVars>>

\* The look was read.
PutAway ==
  /\ Over
  /\ look' = NoLook
  /\ link' = "none"
  /\ changed' = {}
  /\ before' = NothingYet
  /\ UNCHANGED <<vars, machineVars>>

Goes == look' = [look EXCEPT !.at = @ + 1]
Stays == UNCHANGED <<vars, machineVars, changed, before>>
Notes == Stays /\ UNCHANGED link

\* The next service of the table.
Poll ==
  /\ look.who \in {"console", "status", "check"} /\ look.at <= n
  /\ LET s == StartOrder[look.at] IN
       \E v \in Seen(look.who, s) : look' = [look EXCEPT !.at = @ + 1, !.seen[s] = v]
  /\ Notes

FetchHistory ==
  /\ look.who = "console" /\ look.at = n + 1
  /\ look' = [look EXCEPT !.at = @ + 1, !.runs = HistoryPanel]
  /\ Notes

\* The audit log; and the boot environments, with which the page is complete.
FetchAudit ==
  /\ look.who = "console" /\ look.at = n + 2
  /\ look' = [look EXCEPT !.at = @ + 1, !.tools = AuditPanel]
  /\ Notes

\* check_backup, of a marker that cmd_check names only when it is there; its
\* age is anything.
Backup(marker) ==
  CASE marker = "missing" -> "warn"
    [] marker = "fresh" -> "pass"
    [] marker = "old" -> "fail"

\* The backup's age and the way back; whether there is one only ever warns.
CheckBackup ==
  /\ look.who = "check" /\ look.at = n + 1
  /\ \E marker \in {"missing", "fresh", "old"} :
       look' = [look EXCEPT !.at = @ + 1, !.aside = marker]
  /\ Notes

\* The answer the client gets.
ChatSays(code) == look' = [look EXCEPT !.at = 4, !.aside = code] /\ UNCHANGED link

\* hajime-ai turns the request away, or takes it up.
ChatArrives ==
  /\ look.who = "chat" /\ look.at = 1
  /\ \/ \E code \in TurnedAway : ChatSays(code)
     \/ /\ Answers("hajime_ai")
        /\ Admits("hajime_ai", Presented(TryGet(dir, "ai_token")))
        /\ Goes /\ link' = "taken"
  /\ Stays

\* A chat dies with the hajime-ai that took it up, and its client gives up on
\* one that hangs.
Orphaned == link = "cut" \/ ~Answers("hajime_ai")

\* hajime-ai connects to llama.cpp, or cannot.
ChatConnects ==
  /\ look.who = "chat" /\ look.at = 2
  /\ \/ ~Orphaned /\ BackendListens /\ Goes /\ link' = "held"
     \/ ~Orphaned /\ ~BackendListens /\ ChatSays(StatusFor("Unreachable"))
     \/ Orphaned /\ ChatSays("none")
  /\ Stays

\* The backend answers or does not.
ChatEnds ==
  /\ look.who = "chat" /\ look.at = 3
  /\ \/ ~Orphaned /\ \E said \in BackendSays : ChatSays(StatusFor(said))
     \/ Orphaned /\ ChatSays("none")
  /\ Stays

----------------------------------------------------------------------------
(* What happens meanwhile *)

\* One bound for all that changes and fails, while no look waits to be read.
Room == ~Over /\ changes + AllFaults < MaxChanges

\* A page is lost with the console that was making it.
Noticed(S) ==
  /\ IF look.who = "nobody" \/ (look.who = "console" /\ "hajime_console" \in S)
     THEN look' = NoLook /\ changed' = {} /\ before' = NothingYet
     ELSE changed' = changed \cup S /\ UNCHANGED <<look, before>>

\* The appends under way in the workflow service go with it.
CutAppends == IF lock # {} THEN Kill ELSE UNCHANGED vars

Services_Change ==
  /\ Room
  /\ \E s \in Services :
    /\ \/ (StartService(s) \/ Hang(s) \/ Recover(s)) /\ UNCHANGED <<vars, link>>
       \/ /\ RestartService(s) \/ StopService(s)
          /\ IF s = "hajime_workflow" THEN CutAppends ELSE UNCHANGED vars
          /\ Hear({s})
    /\ Noticed({s})

\* The whole machine goes down and comes back as rc starts it.
Outage ==
  /\ Room
  /\ PowerCut
  /\ changes' = changes + 1
  /\ phase' = [s \in Services |-> IF MayStart(s) THEN "up" ELSE "down"]
  /\ asks' = [s \in Own |-> OwnStart(s).asks]
  /\ copies' = [a \in Asked |-> IF MayStart("hajime_console")
                                THEN TryGet(dir, TokenFile(a)) ELSE None]
  /\ used' = FALSE
  /\ edited' = [s \in Own |-> {}]
  /\ UNCHANGED <<env, dir>>
  /\ Hear(Services)
  /\ Noticed(Services)

\* Only the console reads the file and the audit log, so that what the other
\* looks see is the same whether these are written before or meanwhile.
Read == look.who \in {"nobody", "console"} /\ ~Over

Runs ==
  /\ Read
  /\ Alive("hajime_workflow")
  /\ \/ \E r \in Records : Open(r) \/ WriteText(r) \/ WriteNewLine(r)
     \/ Room /\ \E r \in Records : WriteFails(r)
  /\ UNCHANGED <<machineVars, consoleVars>>

Aside ==
  /\ (Read /\ UseTool) \/ (Room /\ \E e \in Edits : Edit(e[1], e[2]))
  /\ UNCHANGED <<vars, consoleVars>>

ConsoleInit ==
  /\ Init
  /\ MachineInit
  /\ look = NoLook
  /\ link = "none"
  /\ changed = {}
  /\ before = NothingYet

ConsoleNext ==
  \/ \E who \in {"console", "status", "check", "chat"} : Begin(who)
  \/ PutAway \/ Poll \/ FetchHistory \/ FetchAudit \/ CheckBackup
  \/ ChatArrives \/ ChatConnects \/ ChatEnds
  \/ Services_Change \/ Outage \/ Runs \/ Aside

ConsoleSpec == ConsoleInit /\ [][ConsoleNext]_allVars

----------------------------------------------------------------------------
(* What they say *)

\* headline, by what it speaks of.
Headline ==
  LET of(r) == {s \in Services : look.seen[s] = r} IN
  CASE of("down") \cap Essential # {} -> "down"
    [] of("down") \cap Essential = {} /\ of("unhealthy") # {} -> "unhealthy"
    [] of("down") # {} /\ of("down") \cap Essential = {} /\ of("unhealthy") = {}
         -> "optional stopped"
    [] of("down") = {} /\ of("unhealthy") = {} -> "everything up"

\* The colour of the headline.
Tone ==
  CASE Headline = "down" -> "is-bad"
    [] Headline \in {"unhealthy", "optional stopped"} -> "is-warn"
    [] Headline = "everything up" -> "is-good"

\* constraints_panel: World::check over what is up.
Constraints == Check({s \in Services : look.seen[s] = "up"}, MemoryOf(Services))

\* The exit code of `hajimectl status`.
StatusOk == \A s \in Essential : look.seen[s] # "down"

\* Report::new: ready when nothing failed.
Ready ==
  /\ \A s \in Services : look.seen[s] # "fail"
  /\ Backup(look.aside) # "fail"

----------------------------------------------------------------------------
(* Properties *)

Steady == Services \ changed

\* Good news is true of every service that did not change while the look went
\* on: a headline in green means that each service with a port is there, and
\* with a health path answers; success of `hajimectl status`, and a ready
\* self-check, mean that no essential service they look at is missing.
GoodNewsIsTrue ==
  /\ Done("console") /\ Tone = "is-good" =>
       \A s \in Ported \cap Steady : PortOpen(s) /\ (s \in Checked => Answers(s))
  /\ Done("status") /\ StatusOk =>
       \A s \in Essential \cap Steady : RcStatus(s) \/ PortOpen(s)
  /\ Done("check") /\ Ready =>
       \A s \in Essential \cap Ported \cap Steady : PortOpen(s)

\* Bad news is true as well: something essential is missing, or changed while
\* the look went on (or was started by hand where only rc could tell); an
\* optional service that a person stopped makes no alarm;
\* and of two services the world model says one lacks the other only when it
\* does, or nobody can tell.  (hajime-ai and hajime-wa, which may be called down
\* while they serve, are neither essential nor required by another.)
BadNewsIsTrue ==
  /\ Done("console") /\ Tone = "is-bad" =>
       \E s \in Essential : s \in changed \/ ~Answers(s)
  /\ Done("status") /\ ~StatusOk =>
       \E s \in Essential : \/ s \in changed \/ ~Alive(s)
                            \/ phase[s] = "byhand" /\ s \notin Ported
  /\ Done("check") /\ ~Ready =>
       look.aside = "old" \/ \E s \in Essential \cap Ported : s \in changed \/ ~PortOpen(s)
  /\ Done("console") =>
       \A q \in Requirements :
         <<"MissingDependency", q[1], q[2]>> \in Constraints =>
           {q[1], q[2]} \cap changed # {} \/ ~Answers(q[2]) \/ q[2] \notin Ported

\* "A service that does not answer is reported as unreachable, never as
\* healthy-with-no-data" (collect.rs:7): "no runs" is not said while a run
\* on a finished line was there to see before the look and no fault of the file
\* came between, "no
\* tools" only when hajime-ai has recorded none since it started, unreachable
\* only of what was not answering, and refused only when the files or the
\* service were changed under the console.
PanelsAreHonest ==
  Done("console") =>
    /\ look.runs = "no runs" /\ before.runs => AllFaults # before.faults
    /\ look.tools = "no tools" /\ before.tools => "hajime_ai" \in changed
    /\ \A p \in {<<look.runs, "hajime_workflow">>, <<look.tools, "hajime_ai">>} :
         /\ p[1] = "unreachable" => p[2] \in changed \/ ~Answers(p[2])
         /\ p[1] = "error" => \/ p[2] \in changed
                              \/ TokenFile(p[2]) \in edited[p[2]]
                              \/ TokenFile(p[2]) \in edited["hajime_console"]

\* A service that listens beyond loopback answers nobody without a token, over
\* any edits and restarts; and the console is let in by every service whose
\* token file was left alone since both started (Common::guard_exposure,
\* Auth::new, secrets::Store).
TokensHold ==
  /\ \A s \in Own :
       LET bind == IF s = "hajime_workflow" THEN WorkflowBind(env) ELSE BindOf(env) IN
       Alive(s) /\ bind # "loopback" => ~Admits(s, None)
  /\ \A s \in Asked :
       /\ Alive(s) /\ Alive("hajime_console")
       /\ TokenFile(s) \notin edited[s] \cup edited["hajime_console"]
       => Admits(s, Presented(copies[s]))

\* "A missing model is the caller's mistake; an unreachable backend is ours"
\* (api.rs:246): a chat is told 503 only of a llama.cpp that does not listen, or
\* that came or went meanwhile; 504 only of one that has had the request ever
\* since and listens still; a reply, a missing model or a refusal only of one
\* that listens, or was there; 401 only after ai_token was edited; and it is
\* left without an answer only by a hajime-ai that hangs or is another process
\* than the one it came to.
ChatNamesTheCause ==
  Done("chat") =>
    CASE look.aside = "503" -> Backend \in changed \/ ~BackendListens
      [] look.aside = "504" -> link = "held" /\ BackendListens /\ phase[Backend] # "loading"
      [] look.aside = "200" ->
           Backend \in changed \/ (BackendListens /\ phase[Backend] \notin {"hung", "loading"})
      [] look.aside = "502" -> Backend \in changed \/ BackendListens
      [] look.aside \in {"404", "500"} ->
           Backend \in changed \/ (BackendListens /\ phase[Backend] # "loading")
      [] look.aside = "401" -> "ai_token" \in edited["hajime_ai"]
      [] look.aside = "none" -> "hajime_ai" \in changed \/ ~Answers("hajime_ai")
      [] look.aside \in {"400", "501"} -> Answers("hajime_ai")
============================================================================
