------------------------------ MODULE HostNodes ------------------------------
(***************************************************************************)
(* The nodes of hajime-workflow that reach outside the process, inside the *)
(* run of the engine: executeCommand, ssh, readWriteFile and httpRequest.  *)
(* Each takes its input item by item, awaits one piece of work per item    *)
(* and stops at the first that fails; what the earlier items did stays.    *)
(* The work goes on in a world of its own: a shell whose time is up, or    *)
(* whose caller is gone, is not killed.                                    *)
(*                                                                         *)
(* What the items hold is left out, their number is kept.  Paths have no   *)
(* symbolic links and are absolute.                                        *)
(***************************************************************************)
EXTENDS Engine

CONSTANTS
  Cases,      \* the runs to look at: [graph, executor], executor : [Names -> Registered]
  Policies,   \* what the environment lets the nodes do, of EveryPolicy
  Roots,      \* HAJIME_FILE_ROOTS, when it is set
  Paths,      \* paths that fileName may resolve to, as sequences of components
  MaxItems    \* bound: items of a node that are looked at

\* Registry::with_policy, the triggers taken together, and the two ways of
\* readWriteFile and of httpRequest apart.
Registered ==
  {"executeCommand", "ssh", "readFile", "writeFile", "httpGet", "httpPost",
   "code", "rssFeedRead", "respondToWebhook", "trigger"}

\* NodeExecutor::effect. Whatever does not only read counts as a write.
Effect(e) ==
  IF e \in {"executeCommand", "ssh", "writeFile", "httpPost"} THEN "write" ELSE "read"

\* The executors that await one piece of work for each item.
Looping == {"executeCommand", "ssh", "readFile", "writeFile", "httpGet", "httpPost"}

Items == 1..MaxItems

\* Policy::from_env, and whether the environment names an ssh target: each
\* switch is off unless it is set, and without roots no file is touched.
EveryPolicy == [command : BOOLEAN, ssh : BOOLEAN, target : BOOLEAN, roots : {{}, Roots}]

ASSUME HostAssumption ==
  /\ MaxItems \in Nat \ {0}
  /\ \A c \in Cases : /\ c.graph \in Graphs
                      /\ c.executor \in [Names -> Registered]
                      /\ \A n \in Names : c.graph.kind[n] \in {"read", "write"}
                                            => c.graph.kind[n] = Effect(c.executor[n])
  /\ Policies \subseteq EveryPolicy

VARIABLES
  executor,  \* the executor of each node's kind
  policy,    \* Policy, and whether an ssh target is configured
  count,     \* how many items each name has produced
  at,        \* the await of the run: a node, an item, and how far it is
  work,      \* [node -> [item -> "none", "begun" or "ended"]], outside
  said,      \* [node -> [item -> what the output item says]]
  why,       \* what ended the run early
  touched    \* paths that were opened

hostVars == <<executor, policy, count, at, work, said, why, touched>>
allVars == <<vars, hostVars>>

Idle == [node |-> Start, item |-> 0, phase |-> "idle", code |-> FALSE]

\* normalise: "." and ".." resolved without touching the file system.
Normalise(path) ==
  FoldLeft(LAMBDA out, part : CASE part = ".." -> Front(out)
                                [] part = "." -> out
                                [] OTHER -> Append(out, part), <<>>, path)

\* Policy::file_allowed; without roots nothing is.
Inside(path, roots) ==
  \E root \in roots : IsPrefix(Normalise(root), Normalise(path))

\* The switches of the two shells.
Permitted(n) ==
  CASE executor[n] = "executeCommand" -> policy.command
    [] executor[n] = "ssh" -> policy.ssh /\ policy.target
    [] OTHER -> TRUE

\* The items of every source, as far as they are looked at.
Given(n) ==
  LET all == Cardinality({item \in Awaited(n) \X Items : item[2] <= count[item[1]]})
  IN IF all > MaxItems THEN MaxItems ELSE all

\* An empty list means one pass over an empty item.
Passes(n) == IF Given(n) = 0 THEN 1 ELSE Given(n)

----------------------------------------------------------------------------
(* The run *)

HostInit ==
  /\ \E c \in Cases : graph = c.graph /\ executor = c.executor
  /\ Init
  /\ policy \in Policies
  /\ \E k \in Items : count = [n \in Names |-> IF n = Start THEN k ELSE 0]
  /\ at = Idle
  /\ work = [n \in Names |-> [i \in Items |-> "none"]]
  /\ said = [n \in Names |-> [i \in Items |-> "nothing"]]
  /\ why = "none"
  /\ touched = {}

\* The node whose executor awaits item by item, not held back.
Loops(n) == graph.kind[n] \in {"read", "write"} /\ executor[n] \in Looping /\ ~Held(n)

\* The engine calls the executor, which begins with the first item.
Enter(n) ==
  /\ result = "running" /\ at = Idle
  /\ queue # <<>> /\ n = Head(queue) /\ steps < MaxSteps
  /\ Pending(n) /\ Loops(n)
  /\ at' = [node |-> n, item |-> 1, phase |-> "prepare", code |-> FALSE]
  /\ UNCHANGED <<vars, executor, policy, count, work, said, why, touched>>

\* Only a node that has begun some work can have changed something.
Touches(n) ==
  changed' = IF \E i \in Items : work[n][i] # "none" THEN changed \cup {n} ELSE changed

\* An item fails and ends the node, the items before it included: `?`.
Fail(n, reason) ==
  /\ ExecuteErr(n)
  /\ Touches(n)
  /\ at' = Idle
  /\ why' = reason
  /\ UNCHANGED <<executor, policy, count, work, said, touched>>

\* The item is done: the next one, or the node has produced an item for each.
Answer(n, words) ==
  /\ said' = [said EXCEPT ![n][at.item] = words]
  /\ IF at.item < Passes(n)
     THEN /\ at' = [at EXCEPT !.item = @ + 1, !.phase = "prepare", !.code = FALSE]
          /\ UNCHANGED <<vars, count>>
     ELSE /\ ExecuteOk(n)
          /\ Touches(n)
          /\ count' = [count EXCEPT ![n] = Passes(n)]
          /\ at' = Idle
  /\ UNCHANGED <<executor, policy, work, why, touched>>

Preparing(n) == at.phase = "prepare" /\ n = at.node
Waiting(n) == at.phase = "wait" /\ n = at.node
WorkOf(n) == work[n][at.item]

Waits(n, begun) ==
  /\ at' = [at EXCEPT !.phase = "wait"]
  /\ work' = [work EXCEPT ![n][at.item] = begun]
  /\ UNCHANGED <<vars, executor, policy, count, said, why>>

\* A parameter is missing or resolves to nothing, or a switch is off.
Unfit(n) ==
  /\ Preparing(n)
  /\ \/ Permitted(n) /\ Fail(n, "parameter")
     \/ ~Permitted(n) /\ Fail(n, "refused")

\* /bin/sh is started, or cannot be.
RunCommand(n) ==
  /\ Preparing(n) /\ executor[n] = "executeCommand" /\ Permitted(n)
  /\ \/ Waits(n, "begun") /\ touched' = touched
     \/ Fail(n, "io")

\* wait_with_output: the exit code, or -1 for a process that a signal ended.
CommandEnds(n) ==
  /\ Waiting(n) /\ executor[n] = "executeCommand"
  /\ WorkOf(n) = "ended"
  /\ \E words \in {"code", "unknown"} : Answer(n, words)

\* A command past its time is reported as one that ended without a code.
CommandTimesOut_AsAnswer(n) ==
  /\ Waiting(n) /\ executor[n] = "executeCommand"
  /\ Answer(n, "unknown")

\* Past command_timeout_secs the node fails; the child is dropped, not killed.
CommandTimesOut(n) ==
  /\ Waiting(n) /\ executor[n] = "executeCommand"
  /\ Fail(n, "timeout")

\* Connect, check the host key, authenticate, open a channel, ask for exec.
\* Each may fail; a server that refuses exec just closes the channel.
SshExec(n) ==
  /\ Preparing(n) /\ executor[n] = "ssh" /\ Permitted(n)
  /\ \/ (\E begun \in {"none", "begun"} : Waits(n, begun)) /\ touched' = touched
     \/ Fail(n, "lost")

\* ExitStatus: the loop goes on.
SshStatus(n) ==
  /\ Waiting(n) /\ executor[n] = "ssh"
  /\ WorkOf(n) = "ended" /\ ~at.code
  /\ at' = [at EXCEPT !.code = TRUE]
  /\ UNCHANGED <<vars, executor, policy, count, work, said, why, touched>>

\* The exit code of a channel that closed is taken for the command's.
SshCloses_AsSuccess(n) ==
  /\ Waiting(n) /\ executor[n] = "ssh"
  /\ Answer(n, "code")

\* Eof or Close, which may come before the exit status, more output than
\* max_bytes, or no message at all any more: the item is what there is.
SshCloses(n) ==
  /\ Waiting(n) /\ executor[n] = "ssh"
  /\ Answer(n, IF at.code THEN "code" ELSE "unknown")

\* The path is resolved and held against the roots, then opened.
OpenFile(n) ==
  /\ Preparing(n) /\ executor[n] \in {"readFile", "writeFile"}
  /\ \E path \in Paths :
       IF Inside(path, policy.roots)
       THEN /\ Waits(n, IF executor[n] = "writeFile" THEN "begun" ELSE "none")
            /\ touched' = touched \cup {path}
       ELSE Fail(n, "refused")

\* A file read or written, missing, too long, or cut short by a full disk.
FileEnds(n) ==
  /\ Waiting(n) /\ executor[n] \in {"readFile", "writeFile"}
  /\ WorkOf(n) # "begun"
  /\ Answer(n, "body") \/ Fail(n, "io")

\* request_once: what the other side does with a GET is no change.
SendRequest(n) ==
  /\ Preparing(n) /\ executor[n] \in {"httpGet", "httpPost"}
  /\ \E begun \in (IF executor[n] = "httpPost" THEN {"none", "begun"} ELSE {"none"}) :
       Waits(n, begun)
  /\ touched' = touched

\* An answer of any status, whenever it comes: the other side may still be at
\* what was asked, or have done nothing. Without one the node fails.
RequestEnds(n) ==
  /\ Waiting(n) /\ executor[n] \in {"httpGet", "httpPost"}
  /\ Answer(n, "body") \/ Fail(n, "lost")

\* The world outside ends what was begun there, awaited or not.
WorkEnds(n, i) ==
  /\ work[n][i] = "begun"
  /\ work' = [work EXCEPT ![n][i] = "ended"]
  /\ UNCHANGED <<vars, executor, policy, count, at, said, why, touched>>

\* The task is dropped at an await.
HostDrop(n) ==
  /\ at.node = n /\ at # Idle
  /\ Drop(n)
  /\ Touches(n)
  /\ at' = Idle
  /\ why' = "dropped"
  /\ UNCHANGED <<executor, policy, count, work, said, touched>>

Await(n) ==
  \/ Unfit(n) \/ RunCommand(n) \/ CommandEnds(n) \/ CommandTimesOut(n)
  \/ SshExec(n) \/ SshStatus(n) \/ SshCloses(n)
  \/ OpenFile(n) \/ FileEnds(n) \/ SendRequest(n) \/ RequestEnds(n) \/ HostDrop(n)

\* Code::to_items: a list, nothing, or one item for anything else.
ScriptItems == 0..MaxItems

\* RssFeedRead::parse: an item for each entry.
FeedItems == 0..MaxItems

\* RespondToWebhook replies from the first item and hands on that one alone.
ReplyItems == {1}

\* How many items a node yields that does not loop: one if it is held back, and
\* its input if it is disabled, a trigger, or of a kind without an executor.
Yields(n) ==
  IF graph.kind[n] \in {"disabled", "unported"} THEN {Given(n)}
  ELSE IF Held(n) THEN {1}
  ELSE CASE executor[n] = "code" -> ScriptItems
         [] executor[n] = "rssFeedRead" -> FeedItems
         [] executor[n] = "respondToWebhook" -> ReplyItems
         [] OTHER -> {Given(n)}

\* The rest of the engine's loop.
PlainStep(n) ==
  /\ at = Idle
  /\ \/ (Skip(n) \/ Requeue(n)) /\ UNCHANGED <<count, why>>
     \/ /\ ~Loops(n)
        /\ PassDisabled(n) \/ ExecuteOk(n)
        /\ changed' = changed
        /\ \E k \in Yields(n) : count' = [count EXCEPT ![n] = k]
        /\ why' = why
     \/ /\ ~Loops(n) /\ ExecuteErr(n) /\ changed' = changed
        /\ why' = "node" /\ count' = count
     \/ /\ ~Loops(n) /\ executor[n] = "rssFeedRead" /\ Drop(n) /\ changed' = changed
        /\ why' = "dropped" /\ count' = count
  /\ UNCHANGED <<executor, policy, at, work, said, touched>>

HostFinish == at = Idle /\ (Finish \/ OutOfSteps) /\ UNCHANGED hostVars

HostStep == (\E n \in Names : Enter(n) \/ Await(n) \/ PlainStep(n)) \/ HostFinish

HostNext == HostStep \/ \E n \in Names, i \in Items : WorkEnds(n, i)

\* One task runs the loop, and a write to a file ends. Commands need not: the
\* time limits of the shell and of the client end those awaits, and the limits
\* on silence and on output those of ssh.
HostSpec ==
  /\ HostInit /\ [][HostNext]_allVars
  /\ WF_allVars(HostStep)
  /\ WF_allVars(\E n \in Names, i \in Items : executor[n] = "writeFile" /\ WorkEnds(n, i))

----------------------------------------------------------------------------
(* Properties *)

\* Types, and the await is that of the node at the head of the queue.
HostTypeOK ==
  /\ executor \in [Names -> Registered]
  /\ count \in [Names -> 0..MaxItems]
  /\ at \in [node : Names, item : 0..MaxItems, phase : {"idle", "prepare", "wait"},
             code : BOOLEAN]
  /\ work \in [Names -> [Items -> {"none", "begun", "ended"}]]
  /\ said \in [Names -> [Items -> {"nothing", "code", "unknown", "body"}]]
  /\ why \in {"none", "node", "parameter", "refused", "timeout", "lost", "io", "dropped"}
  /\ touched \subseteq Paths

Acts(n) == executor[n] \in {"executeCommand", "ssh", "writeFile", "httpPost"}

\* An item that was answered while its work may be going on: an ssh channel
\* that closed without an exit code, and a request, whose answer may be no more
\* than the other side's own time-out.
MayGoOn(n, i) ==
  \/ executor[n] = "ssh" /\ said[n][i] = "unknown"
  \/ executor[n] = "httpPost" /\ said[n][i] = "body"

\* The transcript is true to what happened outside. Work is begun only for a
\* node whose sources have all produced, item after item, the next one after
\* the last has answered; a node that produced has an answer for each of its
\* items; and an exit code, or a file said to be written, is of work that ended,
\* whatever was lost, cut off or refused on the way (run_one, the ssh channel,
\* ReadWriteFile::execute). Of what a request set going, an answer says nothing.
TranscriptIsTrue ==
  \A n \in Names : \A i \in Items :
    /\ work[n][i] # "none" =>
         /\ Needs(n) \subseteq done
         /\ i <= Passes(n)
         /\ \A j \in 1..(i - 1) : said[n][j] # "nothing"
         /\ n \in done => said[n][i] # "nothing"
    /\ said[n][i] \in {"code", "body"} /\ Acts(n) =>
         work[n][i] = "ended" \/ executor[n] = "httpPost"
    /\ n \in done \ {Start} /\ Loops(n) /\ i <= Passes(n) => said[n][i] # "nothing"

\* Nothing is done behind the run's back. What is under way outside is awaited
\* by the run, or the run ended early at it and says why, or it is an item whose
\* answer leaves that open (MayGoOn); it was permitted, the run is not a rehearsal, and no
\* file outside the roots was opened (Policy, Mode::Shadow).
NothingBehindTheRun ==
  /\ \A n \in Names : \A i \in Items : work[n][i] # "none" =>
       /\ Permitted(n) /\ ~shadow
       /\ work[n][i] = "begun" =>
            \/ at.node = n /\ at.item = i /\ at.phase = "wait"
            \/ n \notin done /\ result \in {"failure", "dropped"}
               /\ why \in {"timeout", "lost", "dropped"}
            \/ MayGoOn(n, i)
  /\ \A path \in touched : Inside(path, policy.roots)
=============================================================================
