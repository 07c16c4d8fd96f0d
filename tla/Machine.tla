------------------------------ MODULE Machine ------------------------------
(***************************************************************************)
(* The machine that the console, hajimectl status and the self-check look  *)
(* at: the services of the table as somebody outside sees them, the tokens *)
(* they loaded when they started, and the files those came from, which a   *)
(* person edits meanwhile.                                                 *)
(***************************************************************************)
EXTENDS World, Startup

CONSTANTS
  Ported,        \* services with a port
  Checked,       \* services with a health path
  Loading,       \* services that answer 503 on it while they load
  Environments,  \* [own, shared]: values of the two address variables
  FirstDir,      \* the secrets directory at first
  Edits          \* <<name, what a person may make of the file>>

\* The services that are Hajime's own and ask for a token, with its file.
Own == {"hajime_workflow", "hajime_ai", "hajime_console", "hajime_wa"} \cap Services
TokenFile(s) ==
  CASE s = "hajime_workflow" -> "workflow_token"
    [] s = "hajime_ai" -> "ai_token"
    [] s = "hajime_console" -> "console_token"
    [] s = "hajime_wa" -> "wa_api_key"

\* Those that the console asks, and has a copy of the token for.
Asked == {"hajime_workflow", "hajime_ai"}

ASSUME MachineAssumption ==
  /\ Ported \subseteq Services /\ Checked \subseteq Ported /\ Loading \subseteq Checked
  /\ Asked \cup {"hajime_console"} \subseteq Services
  /\ \A s \in Own : TokenFile(s) \in Counted
  /\ FirstDir \in [Names -> Files \cup {None}]
  /\ Edits \subseteq Names \X (Files \cup {None})

VARIABLES
  phase,    \* [Services -> what the service is doing]
  env,      \* the environment's addresses
  dir,      \* [Names -> file or None]: the secrets directory
  asks,     \* [Own -> the token it demands, None for none]
  copies,   \* [Asked -> the console's copy of the token]
  used,     \* hajime-ai's audit log holds a call
  \* history variables, read by the properties and the bounds alone
  changes,  \* changes of services and files so far
  edited    \* [Own -> files edited since the service started]

machineVars == <<phase, env, dir, asks, copies, used, changes, edited>>

\* "deaf": started and not listening; "hung": listening and not answering;
\* "loading": answering 503; "byhand": answering, and unknown to rc.
Phases == {"down", "up", "deaf", "hung", "loading", "byhand"}

Alive(s) == phase[s] # "down"
PortOpen(s) == s \in Ported /\ phase[s] \in {"up", "hung", "loading", "byhand"}
Answers(s) == phase[s] \in {"up", "byhand"}

\* rc_status: `service onestatus`.
RcStatus(s) == phase[s] \in {"up", "deaf", "hung", "loading"}

\* What s can be in once rc has started it.
Started(s) ==
  {"up"} \cup (IF s \in Ported THEN {"deaf"} ELSE {})
         \cup (IF s \in Loading THEN {"loading"} ELSE {})

\* The start of a service of Hajime's own.
OwnStart(s) ==
  CASE s = "hajime_workflow" -> StartWorkflow(env, dir, TokenFile(s))
    [] s = "hajime_wa" -> StartWa(env, dir, TokenFile(s))
    [] OTHER -> StartGuarded(env, dir, TokenFile(s))

MayStart(s) == s \in Own => OwnStart(s).up

\* What the processes of S loaded is gone with them.
Forgotten(S) ==
  /\ asks' = [s \in Own |-> IF s \in S THEN None ELSE asks[s]]
  /\ copies' = IF "hajime_console" \in S THEN [s \in Asked |-> None] ELSE copies
  /\ used' = (used /\ "hajime_ai" \notin S)

\* What s loads: the token it will ask for and, the console, its copies, as the
\* files have them.
Loaded(s) ==
  /\ asks' = IF s \in Own THEN [asks EXCEPT ![s] = OwnStart(s).asks] ELSE asks
  /\ copies' = IF s = "hajime_console"
               THEN [a \in Asked |-> TryGet(dir, TokenFile(a))] ELSE copies
  /\ used' = (used /\ s # "hajime_ai")
  /\ edited' = IF s \in Own THEN [edited EXCEPT ![s] = {}] ELSE edited

----------------------------------------------------------------------------
\* After a boot, in which the start of a service of Hajime's own may have been
\* refused.
MachineInit ==
  /\ env \in Environments
  /\ dir = FirstDir
  /\ phase = [s \in Services |-> IF MayStart(s) THEN "up" ELSE "down"]
  /\ asks = [s \in Own |-> OwnStart(s).asks]
  /\ copies = [a \in Asked |-> IF phase["hajime_console"] = "up"
                               THEN TryGet(dir, TokenFile(a)) ELSE None]
  /\ used = FALSE
  /\ changes = 0
  /\ edited = [s \in Own |-> {}]

Change(s, p) ==
  /\ changes' = changes + 1
  /\ phase' = [phase EXCEPT ![s] = p]

\* A stopped service comes up, by rc or by hand; its own main may refuse.
StartService(s) ==
  /\ phase[s] = "down" /\ MayStart(s)
  /\ \E p \in Started(s) \cup {"byhand"} : Change(s, p)
  /\ Loaded(s)
  /\ UNCHANGED <<env, dir>>

\* restart: what was loaded is read again, and a main that refuses leaves the
\* service down.
RestartService(s) ==
  /\ Alive(s)
  /\ Change(s, IF MayStart(s) THEN "up" ELSE "down")
  /\ IF MayStart(s) THEN Loaded(s) ELSE Forgotten({s}) /\ UNCHANGED edited
  /\ UNCHANGED <<env, dir>>

\* A service is stopped, or dies.
StopService(s) ==
  /\ Alive(s)
  /\ Change(s, "down")
  /\ Forgotten({s})
  /\ UNCHANGED <<env, dir, edited>>

\* A service that listens stops answering.
Hang(s) ==
  /\ PortOpen(s) /\ phase[s] \in {"up", "loading"}
  /\ Change(s, "hung")
  /\ UNCHANGED <<env, dir, asks, copies, used, edited>>

\* A service that was on its way to answering gets there.
Recover(s) ==
  /\ phase[s] \in {"deaf", "hung", "loading"}
  /\ Change(s, "up")
  /\ UNCHANGED <<env, dir, asks, copies, used, edited>>

\* A person writes or removes a file of the directory.
Edit(n, f) ==
  /\ dir[n] # f
  /\ dir' = [dir EXCEPT ![n] = f]
  /\ changes' = changes + 1
  /\ edited' = [s \in Own |-> edited[s] \cup {n}]
  /\ UNCHANGED <<phase, env, asks, copies, used>>

\* The gateway in hajime-ai records a call.
UseTool ==
  /\ Answers("hajime_ai") /\ ~used
  /\ used' = TRUE
  /\ UNCHANGED <<phase, env, dir, asks, copies, changes, edited>>

\* A request with what `presented` stands for, to a service that answers.
Admits(s, presented) ==
  IF s = "hajime_wa" THEN Authorised(asks[s], presented)
  ELSE Accepts(asks[s], presented)
============================================================================
