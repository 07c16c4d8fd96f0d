# A TLA+ model of Hajime

Hajime is a single-machine system for FreeBSD: a workflow engine with a cron
scheduler, a tool gateway in front of everything that touches the outside, a
doctor and a planner for the machine's services, gateways for WhatsApp, social
networks and a local language model, a console, and the scripts that install
it. This directory holds TLA+ modules for the parts of it whose correctness
depends on order, concurrency or failure, the TLC configurations that check
them, and TLAPS proofs of the properties that matter most.

Paths below are relative to the repository's root; `*.tla` files are here.

    tlc -workers 2 -config MCScheduler.cfg MCScheduler     checks a run
    tlapm SchedulerProofs.tla                              checks a proof module

## Inventory

| Component | Keeps | Does | Talks to | Hard because of |
|---|---|---|---|---|
| Scheduler (`hajime-workflow/src/scheduler.rs`, `main.rs`, `hajime-core/src/lock.rs`) | tick file, lock file, the window `(previous, now]` | looks once a minute for what came due and spawns a detached run per schedule; at start reports what came due while it was down, and may run it once | engine, history, store | crashes between spawn and save, failed writes, late wake-ups, clock changes, a second process |
| Tool gateway (`hajime-core/src/tools.rs`) | counters per tool and per run, consecutive failures, audit log | checks budgets and circuit, counts, calls the provider, records | providers; used by the AI gateway and the executor | three critical sections around one await, callers that interleave or vanish, `begin_run` in the middle |
| Workflow engine (`hajime-workflow/src/engine.rs`, `model.rs`) | queue, data per node, runs | walks the graph from a trigger, re-queues a node whose sources have not produced | nodes | cycles, merges, dead branches, disabled and failing nodes, rehearsals |
| History (`hajime-core/src/history.rs`) | one JSON line per run | `append` under a mutex, `recent`/`read_all` | every runner writes, the server and the console read | a write cut short, then more appends |
| Doctor (`hajime-model/src/repair.rs`, `world.rs`) | a simulated copy of the machine's state | finds faults, plans stops and starts, proves the plan | world tables, service table | order of steps, memory at every step, giving up too early |
| World model, planner, executor (`hajime-model/src/world.rs`, `plan.rs`, `execute.rs`, `main.rs`) | nothing between two questions | from a request to a plan to act, to confirm, or none; requirements, the memory veto; tools that run them | rc, and a person who runs the plan | the machine changes during the look and after it; a request that names nothing, or a jail |
| Classifier, slots, corpus, features (`hajime-model/src`) | weights | text to intent | planner | numeric, no state |
| Service control (`hajime-sys/src/main.rs`, `service.rs`) | nothing; rc does | start, stop, restart, save, resume in table order | rc.d, services, other people's commands | a look and an act apart, one service of several fails, the table's order |
| Jails and snapshots (`hajime-sys/src/jail.rs`, `snapshot.rs`, `hajime-jails/`) | ZFS snapshots | create, snapshot, roll back | zfs, jls | the running list and the list of what will be lost are stale when used, or missing |
| Readiness (`hajime-sys/src/readiness.rs`) | nothing | probes folded into a report | the services' ports | services that change between two probes; what counts as a failure and what as a warning |
| Workflow server and store (`hajime-workflow/src/server.rs`, `store.rs`, `main.rs`) | loaded workflows | loads an export, routes webhooks, manual runs and rehearsals, history queries | scheduler, engine, history; called by the WhatsApp bridge | clients that hang up inside a run, ids and addresses claimed twice, hash-map order, a scheduler that starts before the server |
| Nodes (`hajime-workflow/src/nodes`, `expression.rs`) | nothing | what one node does, item by item | shells, ssh, files, HTTP, feeds, JavaScript | work that fails half-way, is lost, or goes on after its time-out or without its caller |
| WhatsApp gateway and bridge (`hajime-wa`, `hajime-wa/bridge`) | the session's status, the device store, sends in flight | sends and records; pairs; forwards what comes in to a webhook | WhatsApp, workflow server, history | two processes and four timers around one message, answers late or lost, a session that comes and goes |
| AI gateway (`hajime-ai`) | the tool gateway and its audit log, a token | health, chats forwarded to llama.cpp, the audit | tool gateway, llama.cpp; asked by the console | a backend that is down, hung or loading; conversations share one gateway |
| Fetch, social (`hajime-fetch`, `hajime-social`) | the platforms' secrets | a post to one of four platforms; a page through redirects, as text | platforms, network; called through the gateway | answers lost or late after the post was taken, addresses that redirect |
| Core config, secrets, policy, tokens (`hajime-core`) | read at start by each process | the address and its guard, the secrets directory, the token a service demands, what nodes may do | every service | files and variables edited between the starts of different processes |
| Console (`hajime-console`) | copies of two tokens | asks every service in turn and renders a page | all services, history, audit log | what it asks changes while it asks; an answer that is missing is not an empty one |
| Installer, web, desktop, brand | files | run by hand once | - | - |

What makes each modelled component correct:

- *Scheduler*: an occurrence is never lost without a word, never run twice by
  the tick, and is run while the process is up.
- *Gateway and its tools*: budgets and circuit hold under concurrency, up to a
  bound one can name; the audit log misses only calls that were dropped at their
  provider, and what it says of the world is true of it; a dry run is dry; a
  post and a fetch come to an end.
- *Engine and nodes*: everything that can run runs, once, after what it needs; a
  run ends; a rehearsal changes nothing; an output claims no more of what was done
  outside than it can know, and what goes on outside has a run that waits, says
  why it stopped, or holds an answer that leaves it open.
- *History*: a fault hides little, unless it cuts a character, and a record that
  was read stays in sight.
- *Doctor*: a plan can be followed command by command; "impossible" is exact.
- *Service control and planner*: a command left alone does what it says and no
  more; an exit code tells the truth whatever else happens; a planned start
  fits in memory; no service runs without what it needs while a command is
  under way; what a person did not agree to is not done.
- *Jails*: what was reported as saved is there; a jail that runs is not rolled
  back; what is destroyed was announced in full, or a call failed and nothing was.
- *Server and store*: a request reaches the workflow that owns its address; a
  schedule that was validated is scheduled; records and replies agree with what
  was done.
- *Console, status, self-check, chat*: good news and bad news are true of what did
  not change meanwhile; the answer to a chat names its cause; a panel without data says why.
- *Configuration and tokens*: no service is open beyond the machine without a
  token; services and console agree on theirs until somebody changes one.
- *WhatsApp and its replies*: whoever is told "sent" or "not connected" is told
  the truth; a reply that went out leaves a trace unless two are lost; confirmed replies go out
  in the order of the messages.

`PROJECT.json` lists the components with their sources and the hazards with
their lines.

## Modules

| Module | Models | Built on |
|---|---|---|
| `TickLedger` | what the tick file promises, abstractly | |
| `Scheduler` | `run_forever`, `due`, `missed`, `save_tick`, `lock::acquire` | implements `TickLedger` |
| `Gateway` | `Gateway::call` and `begin_run` | |
| `Agent` | the tools behind the gateway: `hajime-social`, `hajime-fetch`, `SystemTools`; the platforms and hosts they talk to | implements `Gateway` |
| `Dataflow` | what a workflow run promises, without a queue | |
| `Engine` | `Engine::run`, `execute_node`, `reachable_from`, `sources`, `targets` | implements `Dataflow` |
| `HostNodes` | executeCommand, ssh, readWriteFile and httpRequest item by item, `Policy`, how many items every node yields | implements `Engine` |
| `History` | `append`, `read_all`, `recent` over a file | |
| `World` | the service table's operators, `World::check`, `plan_start`'s arithmetic | |
| `Doctor` | `Doctor::repair` | `World` |
| `Planner` | `Planner::plan`: from an intent and a name to a plan | `World` |
| `Hajimectl` | `hajimectl` start, stop, restart, save, resume, snapshots; `hajime-model ask`, `running_now`, `print_plan`, and the person's yes or no | `Planner` |
| `Jails` | `hajimectl` jail-snapshot and jail-rollback, `jail.rs`, `snapshot.rs` | |
| `Store` | `Store::from_export`, `routes`, `schedules`, `broken_schedules`; the trigger nodes | |
| `Server` | the workflow service's `main`, `webhook`, `run_manually`, scheduled runs, records and replies | `Store` |
| `Startup` | `config.rs`, `secrets.rs`, `auth.rs` and the mains up to where they listen | |
| `Machine` | the services as others see them, the files and tokens they started with | `World`, `Startup` |
| `Console` | `collect.rs`, `render.rs`, `hajimectl status`, `readiness.rs`, chats with `hajime-ai` over its backend | `Machine`, `History` |
| `ServiceTable` | the repository's own tables: `SERVICES`, `REQUIREMENTS` | |
| `WhatsApp` | hajime-wa's `sendText`, its client of the bridge, the bridge's session and send handler | |
| `AutoReply` | the bridge's `forwardMessage`, the webhook handler with its run, the `httpRequest` node | `WhatsApp` |
| `MC...` | instances for TLC | the module named; `MCDoctor`, `MCHajimectl` also `ServiceTable` |
| `...Proofs` | theorems and proofs | the module named |

An operator such as `EndTick_NoSave` beside `EndTick` is the same step with a
plausible mistake in it. No specification uses them: each shows that a property
notices the mistake, and `PROJECT.json` says which.

### Scheduler

`pc[p]` is where process `p` stands in `run_forever`: reporting the gap, running
the catch-up, at the end of start-up, asleep, or in the loop over `due`.
`previous`, `now` and `todo` are the loop's locals (`boot` and `last` share the
first two, as their lives do not overlap), `saved` is the tick file, `holder`
the flock. `runs` and `reports` collect what was spawned and reported, each
entry with the window it stands for, which is how the code's "one run per
schedule, however many occurrences" is expressed. A cron expression is a set of
minutes. Each await, file write and iteration is a step of its own, so a crash
can fall between any two. `SaveTick` has the two outcomes that
write-and-rename leaves; `Report` has the two that `append` has, since it tells
nobody when it fails.

### Gateway

A call is the steps `Check`, `Count`, `Settle`, `Record`, cut where
`Gateway::call` releases its mutex or awaits; a rehearsed call is `Check`,
`Count`, `Rehearse`. `Drop` is the future dropped at the await. `BeginRun` may
come between any two, as hajime-ai calls it for every chat request on the one
gateway its requests share. Tool arguments and answers are left out. A panic
while the lock is held cannot happen: the sections do arithmetic on counters.

### Agent

The provider's part of a call, which `Gateway` leaves open between `Count` and
`Settle`. `work[c]` is where it is: a post's request is `out`, or the platform's
answer is on its way back (`success`, `unauthorized`, `expiredToken`, `error`);
a fetch is at `check` or waits for its `request`. `Post` is `Social::call` up to
the request, with `check_length`; `Arrive` is the platform; `Deliver` is what
each platform's `post` makes of a status; `Lose` is the client's 30 seconds or a
broken connection, wherever the request was. A request nobody waits for any
more stays in `strays` and may still arrive (`StrayEnds`). `Round` and
`Redirected` are the loop of `Fetcher::get`. A host has a set of answers that
looking it up may give, each a set of kinds of address: `check_url` looks it up
in every round (`CheckUrl`), and the client once more for the request, so that a
name may pass with one answer and be requested by another. `RunSystem` is one step, since `SystemTools` runs
`hajimectl` without an await. `Answered` is a `Settle` of `Gateway` whose
outcome the provider chose, so every step here is a step there.

`SystemTools` is put behind a gateway by its own tests alone, and no program of
the repository calls `Gateway::call` outside tests: hajime-ai builds the gateway,
lists its tools, begins its runs and shows its audit log. `Agent` is the
composition those tests make.

### Engine

One step is one iteration of the loop: `Skip` (a dangling name or a node that
has run), `Requeue` (a source is missing), `PassDisabled`, `ExecuteOk`,
`ExecuteErr`, `Drop` (the task is dropped at the executor's await), and
`Finish` or `OutOfSteps` at the end. Items are abstracted to "has produced": the
engine queues every target of a node whatever its items are, and an empty
output counts as an output. The wires `sources` sees
and `targets` does not (other connection types, ports from 4 up) are kept apart.
`reachable` and `Runnable` are written as least sets, since a module with
theorems declares no recursive operator.

### HostNodes

An iteration of the engine's loop whose node awaits something outside is cut at
its awaits: `Enter` calls the executor, each item is prepared and waited for
(`at` is the node, the item and how far it is), and the last `Answer`, the first
`Fail` or a `HostDrop` is the step of `Engine` that the node makes. Until then
`Engine`'s variables stand still. What goes on outside is `work[n][i]`, which
`WorkEnds` ends whether or not anyone waits: a shell is dropped at its time-out
and not killed, a request may have arrived before its answer was lost, a remote
command outlives its channel. `said` is what the output item says: an exit
`code`, `unknown` for -1, or a `body`, which any HTTP response is, at any time:
hajime-wa answers 503 at its own time-out while the bridge still sends.

`RunCommand`, `CommandEnds` and `CommandTimesOut` are executeCommand. `SshExec`
is everything up to the `exec` request, `SshStatus` the exit status, `SshCloses`
the ends of the loop: Eof or Close, which may come first, too much output, or
silence for the inactivity limit, which the code takes for an end like any
other. `OpenFile` resolves a path with `Normalise` and holds it against the
roots; `FileEnds` is the read or write; `SendRequest` and `RequestEnds` are
`request_once`. `Unfit` is a missing parameter or a switch that is off. Nodes
that do not loop (`PlainStep`) keep how many items they yield (`Yields`).
`HostStep` maps to `Engine`'s steps with no refinement mapping but the common
variables.

Paths are absolute and have no symbolic links; items are counted up to
`MaxItems`; what they hold is left out, and with it the expressions that read
them.

### History

The file is a sequence of texts and line ends; `writeln!` on an unbuffered
`File` is two writes. A fault may leave a text whole, cut, or cut inside a
multi-byte character, which ends `lines().map_while(Result::ok)`: what comes
`Behind` such a text is read by nobody. A power cut takes a tail of what no
fsync made durable.

### Doctor

`repair` is cut into its phases; a pass looks at one service per step so that
the order of the table matters as it does in the code. Its initial states, steps and
specification are `RepairInit`, `RepairNext` and `RepairSpec`, so that one module
can extend it together with `Hajimectl`. `ServiceTable` holds the
11 services with their memory and tiers and the requirements exactly as
`service.rs` and `world.rs` list them.

### Planner and Hajimectl

`Planner` is `Planner::plan` as operators: the classifier's intent and whether
it is sure are inputs, and the outcome is a plan to act, to confirm, to refuse,
or unclear. The four intents that only read (status, check, history, explain)
are left out.

A command is the loop it runs over the table: `script[p]` holds what is left of
the loop of session `p`, and every `service` call is a step, so that commands
of several sessions, failing calls and dying services fall between any two.
`CheckUp` is `cmd_start`'s look and `Start` its act; `resume` has no look, so
rc refuses what runs already and the command ends in a failure. `Ask` is
`hajime-model ask`: `running_now` looks at one service per step, `Plan` makes
the plan of what was seen. Of the intents only a start reads what runs, so that
the looks of the others are left out. The command of a plan to act is run, one
to confirm waits for `Answer`, which is the person's yes or no, and `Run` is
`hajimectl` taking the command or turning it down (exit "usage"), as a separate
process would, with everything that happened meanwhile. The planner
says which requirements "have to come up first" and proposes the one command
all the same; the model shows what that command does. `before`, `lost` and
`gained` are history variables: what was up when a command was given, and what
others changed since. rc is external: a start of a running service and a stop
of a stopped one fail, and the services are taken to be enabled in `rc.conf`.
Two assumptions are for the proofs: requirements stay within a tier, as those of
`world.rs` do (`OneTierAssumption`), and no session is called "none", which is the
name under which a service dies by itself.

### Jails

`jail-snapshot` is `Name` (the dataset is there; the name is made of the reason
and the second) and `Take` (zfs refuses a name that is used). `jail-rollback`
is `Look` (jls), `List` (what would be lost, and the announcement) and `Roll`
(the two checks of `rollback`, then `zfs rollback -r`). Other commands, jails
that start, stop and write, and the clock come between any two; a call may fail
without need (`MaxFaults`). Each step asks `zpool` for the pool anew, so a call
that fails may be that one: `pool` then takes "zroot" for it, and what the step
says of a dataset is said of another one or of none. A dataset is the version of what it holds and the
list of its snapshots. `destroyed`, `since`, `newer`, `missed` and `receipts`
are history variables. A listing that fails, or does not hold the snapshot
under the name that is looked for, is one of nothing to lose to the code
(`unwrap_or_default`), which `missed` remembers.

### Store and Server

A workflow is its id, whether it is active, its triggers, and the kinds of the
nodes they lead to in a row ("act" changes something outside, "read" only asks,
"respond" is `respondToWebhook`, any other passes its input on); other graphs are
`Engine`'s. `loads` remembers what
each process loaded, with the order of its hash map, which a start draws anew;
the export is whatever lies there at a start. A route is the place of its
workflow in that order with the place of its trigger, so that the first one is a
minimum. `Launch` is `main` up to the
scheduler, `Bind` the server after it: `Fire` needs the first alone. A call is
begun by `Webhook`, `Manual` (with or without `?shadow=1`) or `Fire`, runs node
by node (`Step`, `Fail`), and ends in `End`, where no await parts the record
from the answer. `HangUp` drops a handler, only where it waits for something
outside; `Stop` ends the process with all its runs. Of an item the model keeps
which `respondToWebhook` left its reply on it, and whether the key under which
it does shows inside that reply.

### Startup, Machine and Console

`Startup` is how a process gets from its environment and the secrets directory
to an address and a token, as functions: a file is what it holds, whether blanks
stand around it and who may read it, and each `Start...` says whether the
process listens and which token it demands. hajime-wa keeps its key as it is
read, hajime-workflow gets its token from the environment that rc.d fills, and
the other two trim what they read.

`Machine` is what others see of the services: `phase` (`down`, `up`, `deaf`,
`hung`, `loading`, or started `byhand`, which rc does not know of), what each
demands since it started (`asks`), the console's copies of two tokens, and
whether hajime-ai's audit log holds a call. Services stop, hang, load and
restart, and a person edits the files, in any order; what a process loaded stays
until it starts again. A service that hangs sends no headers; one that is loading
answers 503 on its health path. hajime-ai's health path waits for llama.cpp's
list of models, with a limit of 300 seconds, and hajime-wa's for the bridge, with
one of 30; the console waits for three. These `Fronts` may be seen as up or as
down while they answer, whatever the timing.

`Console` is four looks at that machine: the page, `hajimectl status`, the
self-check, and a chat with hajime-ai. A look asks one service (or file, or
backend) per step, so that anything may change between two. `HistoryPanel`
reads the file of `History` through the workflow service; its appends and
faults are in the model, so that a record may be torn or spoilt between two
pages. `Headline`, `Tone`, `Constraints`, `StatusOk` and `Ready` fold what was
seen. `changed`, `edited` and `before` are history variables, by which the
properties speak only of what stayed as it was.

A chat is taken up (`ChatArrives`), connects to llama.cpp or cannot
(`ChatConnects`), and ends with what became of the connection (`ChatEnds`).
`link` says what stands of it: it is `held` while llama.cpp goes on, `broken` when
that stops, and the chat is `cut` when hajime-ai does. Over a connection that is held,
llama.cpp replies, refuses (404, or any other status, which is `Rejected`), answers
something unreadable, or lets the 300 seconds pass; one that hangs may have sent
its headers before. A llama.cpp that runs is taken not to hang up on a request.

### WhatsApp and AutoReply

A send has two ends: `asked[r]` is its handler in hajime-wa, `serving[r]` its
handler in the bridge, and either may outlive the other. hajime-wa's `Look`
asks for the session and posts; the bridge's `Accept` looks again and sends;
`Transmit` is WhatsApp taking the message and `Ack` its receipt on the way
back. `Answer` is a record and an answer in one step, as no await lies between
them; the append may fail, which `append` only logs, or the history be switched
off, and the record is then `lost`. `Timeout`, `Leave`, `Notice` and the crashes may come between any two of
these. Timers are not ordered by their lengths: they run in different processes
and start at different moments.

`AutoReply` closes the loop. A message that comes in (`Arrive`) waits its turn,
is posted to the webhook (`Post`), starts a run whose one node posts a reply to
hajime-wa (`NodePosts`, which is `WhatsApp`'s `Ask`), and the answer travels
back (`NodeDone`, `EndRun`). Cancellation travels the other way, one process at a time and
each when it notices: the forwarder gives up (`GiveUp`), the webhook's handler
is dropped with its run (`Cut`), then hajime-wa's (`Dropped`), then the
bridge's (`Notice`). `Direct` sends are another caller's. `NodeDone` takes any
HTTP status, as `request_once` does, so that a refused reply ends in a
successful run.

whatsmeow and WhatsApp are external: a session event is raised and handled
later, in any order with other such events; messages are handed over one at a
time in the order they came; `SendMessage` may fail before or after WhatsApp
took the message, and takes it once. An orderly stop of the bridge is a crash
after a pause that looks like a time-out from outside.

## Runs

| Run | Instance | Shows |
|---|---|---|
| `scheduler` (pass) | two schedules with one and two occurrences, a clock of three minutes, three process starts or clocks set back | nothing silently skipped; a tick runs an occurrence once per setting of the clock; exactly one account of it in a clean history; refines `TickLedger`; liveness while up |
| `agent` (pass) | two callers, three tools (a post, a page, a command), budgets 1 and 2, threshold 1, four calls, three of one tool, two runs, a host that stays and one that resolves to a public address, to a loopback one as well, or to none, two rounds of redirects | overrun and circuit bounds, audit, an open circuit stays open; the audit log brackets the posts that are there; a dry run is dry; posts and fetches end |
| `engine` (pass) | every graph of a trigger and three names with up to three main wires and some others, every kind of node, both modes; and a chain and a fork with a merge, with every pair of seven executors, two items, an open and a closed policy | runs exactly what is runnable; refines `Dataflow`; a rehearsal is harmless; ends; the transcript claims no more than it can know; nothing goes on behind the run in silence |
| `history` (pass) | five records, three faults of three kinds | how many kept records a fault hides; what was read stays in sight |
| `history_torn` (violation) | four records, one kill | the next record is lost with the torn one |
| `doctor` (pass) | the repository's tables, every set of running services, four budgets | plans can be followed; the verdict is exact; ends |
| `hajimectl` (pass) | four rows of the table with two requirements, one along its order and one against it; one of them and one jail to name; two sessions, two commands or requests, one fault, every set of services up at first | commands and requests do what they say; exit codes are honest, a restart's over the old process included; the veto holds; the order protects what follows it |
| `hajimectl_order` (violation) | the same rows, one session, one command, no fault | `stop` takes llamacpp down under hajime_ai |
| `jails` (pass) | two jails, two sessions, three commands, one fault, two seconds, one write | what was reported as taken is there; only stopped jails go back; losses are announced, in full or after a failed call not at all |
| `server` (pass) | five exports of two workflows that compete for ids and addresses, two processes, two runs, one failed append | requests reach their workflow; validated schedules are scheduled; records and replies agree with the runs |
| `autoreply` (pass) | two messages and one other caller, two changes of the session, one crash, broken connection or lost record | answers are honest; a reply that leaves no trace has lost two; confirmed replies keep their order |
| `console` (pass) | seven services of the table (two that Hajime does not own, one without a port), two records, five files of secrets, two changes or faults in a behaviour | good news and bad news are true; panels are honest; tokens hold; a chat's answer names its cause |

### Why the bounds are enough

- *Scheduler*: three starts are a start, a crash and a restart with a second
  crash or a clock set back in between; a window of three minutes holds a late
  wake-up over two occurrences, and a schedule that fires in the middle of a
  window only. The bounds on the clock and on `boots + backs` end every
  behaviour, which is why deadlock is not checked. A crash is counted in no
  bound of its own: it needs a start still to come, so that the last process
  lives on and liveness has someone to hold to account. The proofs need none of these bounds.
- *Agent*: two callers is the first number at which the check and the count can
  be separated, and at which one can wait for a platform while another is cut
  off. Four calls over three tools exceed both budgets and the threshold. The
  texts are a blank one, one that just fits Bluesky and one a character longer;
  a redirect may lead to a host that resolves anew and back to the same host, and
  two rounds are the first number at which the loop can go round. The proofs cover every number of callers, tools and rounds.
- *Engine*: four names hold a merge, a diamond, a cycle with an exit, a
  self-loop, a second unreachable source and a dangling name. With nine steps
  every run on an acyclic graph of this size ends by itself and every cycle is
  cut off. Three main wires leave cycles, self-loops and merges in; the fork has
  a fourth. Two items are the first number at which one fails after another has
  acted, and two nodes the first at which work of one is left behind while the
  other runs. Nodes come in pairs because the engine runs one at a time.
- *Console*: two changes are one before a look and one within, or two within, or
  a fault of the file and a restart; a third adds services, not cases, since a
  look asks each service once. The seven services hold every combination of
  port, health path, tier and owner in the table, and two requirements.
- *History*: a fault concerns at most the record it cuts and the next one; five
  records leave room for three faults with untouched ones around them.
- *Hajimectl*: two commands are the first number at which one runs inside
  another or after it; `MaxFaults = 1` is one failed call or one death inside
  either. The rows hold an essential and an optional pair of services with a
  requirement each. 2740 MB is less than the four need (2755) and enough for
  any three, so the veto decides some starts each way. Commands name the service
  whose requirement stands below it, or none, and requests the jail besides; the
  order run names others too.
- *Jails*: three commands are two snapshots and a rollback, or one and two,
  of which two may overlap; one fault suffices for a listing that fails, and
  two seconds for names that differ and names that clash. One write tells a
  dataset that went back from one that did not.
- *Server*: two runs are the first number that can share a process and an
  address, or meet a restart in between. The exports hold two workflows on one
  address, two on one id (with ids given and made up), a schedule with a bad
  interval beside a good one, one without intervals, a webhook without a path,
  and disabled and inactive ones; the bodies hold a chain of two
  `respondToWebhook`s, with and without a node between them.
- *AutoReply*: two messages are the first number that has an order, and the
  third send competes with both for the session. Two changes of the session
  are a connection and its loss or logout, or a pairing and a connection, with
  their events handled in either order; time-outs and hang-ups are bounded by
  nothing; one fault, which may be a lost record, falls at any point of all of
  them. With one, no reply is without a trace but one whose caller hung up; the
  proof covers any number.
- *Doctor*: no bound on the machine; 512 MB is less than the essential tier
  needs, 1150 just enough, 3400 short of everything, 6144 the default.

### Fairness

- *Scheduler*: weak fairness on the steps of a live process and nothing else.
  rc.d runs `daemon(8)` without `-r`, so a restart is never promised, and the
  liveness property ends with the process.
- *Engine*: weak fairness on the run's own step (`HostStep`), which includes the
  time-outs that executors have (HTTP 60 s, feeds 45 s, commands a time-out, code
  30 s, ssh limits on silence and on output), and on the end of a write to a file,
  which has none. Nothing is assumed of commands and remote machines: they may
  go on for ever.
- *Doctor*: a function that returns.
- *Agent*: weak fairness on what a call does of its own, per caller (`Proceed`): the
  gateway's steps, and a request's, which the two clients end after 30 seconds.
  That a platform answers, or that a command of `hajimectl` ends, is not assumed,
  and `CallsEnd` leaves out the tools that run one.
- *Console*, *History*, *Hajimectl*, *Jails*, *Server* and *AutoReply* are given
  none: hajimectl puts no limit on a `service` call, nobody retries a reply that was lost, and a page is only asked
  for again by a person, so no liveness of them is stated.

## Proofs

Eight modules hold theorems; the configurations' bounds appear in none of their
hypotheses beyond being naturals.

**SchedulerProofs.** `TypeCorrect`; `TickFileIsHonest` (`NothingSilentlySkipped`);
`SchedulerKeepsLedger` (the refinement of `TickLedger`); `OccurrencesRunOnce`
(`NothingRunsTwice`). `NothingSilentlySkipped` speaks of
the tick file alone and is not inductive: that a save is honest depends on what
the saving process knows about its window. `IInv` adds that only the lock's
holder is up (`LockInv`), that the file keeps its promise (`FileInv`), and for
the live process that everything up to `previous` is handled and that its
window is, but for the schedules still on its list (`LoopInv`). `WindowDone` joins the two at
the end of a loop, `Saving` carries them into the file. The refinement follows
step by step: steps that leave the file alone only add to what was handled;
steps that save change nothing about it. That nothing runs twice needs two more
invariants. `TickInv` counts: the ticks that ran an occurrence, with one more
while its run is pending on the live loop's list and one while it is still ahead
of the clock, are no more than one for each time the clock passes it. `CleanInv`
holds until the first fault: what was begun has windows that do not meet, but
for a catch-up and the report it follows (`DisjointInv`, `TwinInv`); the live
process has begun nothing past its mark (`MarkInvOf`), and a stopped one left
the file at the end of what was begun (`HaltInv`).

**AgentProofs**, the gateway. `TypeCorrect`, `OverrunIsBounded`, `BreakerIsBounded`,
`ReceiptsAlwaysMatch`, `OpenIsForEver`. The idea common to the bounds: a counter
plus the callers that passed the check and have not yet counted (or settled)
never exceeds the ceiling by as much as there are callers, and the last to pass
did so below the ceiling. Callers need only be a finite set; `BeginRun` may
reset the counters under any of them.

**AgentProofs**, the tools. `AgentImplementsGateway`: every behaviour of `AgentSpec` is one of
`Gateway`'s `Spec`, so that `AgentOverrunIsBounded`, `AgentReceiptsMatch` and
`AgentBreakerIsBounded` follow from the theorems above without another
induction. That the dropped calls, the only ones
without an entry, are bounded by the budgets is `DropInv`: each was counted
against its tool in one of the runs. `DryRunsAreDry` rests on `WorkInv`: a provider
is at work only for a call that was sent to it, which a rehearsed one never is.
`AuditAlwaysBrackets`
(`AuditBracketsPosts`) is a count: `BracketInv` says that posts recorded as sent,
or about to be, are no more than the posts there are, and those with what is
still under way no more than the former with the answers that left it open. A step
moves each side by what one caller adds to it (`SumsMove`, `BracketKept`).
`AgentTypeCorrect` is its type invariant.

**HostNodesProofs**, the engine. `TypeCorrect`, `RehearsalsAreHarmless`
(`RehearsalIsHarmless`) and `QueueIsATopologicalSort` (`RunsTheRunnable`): on
every graph a run produces only at runnable nodes and, when it empties its queue
within its limit, at all of them. The invariant says that `reachable` is closed under targets and nothing in it is there without a
source (`ReachInv`), that every target of a done node is done, queued or no
node (`QueueInv`), and that what is done is runnable (`SoundInv`). With the
queue empty, what is done is then closed under the rule that defines
`Runnable`, the least such set, so the two are equal.
`QueueImplementsDataflow` is the refinement of `Dataflow`, under the hypothesis
`StepsEnough`: the step limit is at least the square of the number of nodes, as
the code's 1000 is for a workflow of up to 31 nodes. It is needed because a
re-queued name costs a step: `RoundInv` divides the queue into what is left of
the round and what was tested since a node last produced, so that a node
produces once a round or none can any more, and a run is cut off only
when nothing in the queue may run. A larger workflow may be cut off with
work left, and no abstract run ends so; the run on the small graphs shows that
far fewer steps suffice there.

**HostNodesProofs**, the nodes. `HostImplementsEngine`: with the nodes cut into items and
awaits, every step is one of `Engine` or leaves its variables alone, for any
graphs, executors, policies, paths and numbers of items; by it
`HostRunsTheRunnable`, `HostRehearsalsAreHarmless` and `HostImplementsDataflow`
carry the engine's theorems over. `HostTranscriptIsTrue` (`TranscriptIsTrue`) and `HostNothingBehind`
(`NothingBehindTheRun`) need an invariant of their own, `HInv`, whose heart is one
statement per item. `AwaitInv`: at the await of item `i` the items before it have
answered and nothing was begun for those after it. `BegunInv`: work that was
begun was permitted, was begun when its turn came, and while it is under way is
`Covered`, by the await, by a run that ended at it, or by an answer that leaves it
open (`MayGoOn`): an ssh item without an exit code, or an HTTP response. `FreshInv`: a node whose turn has not come has done nothing. A node's
input is settled once its sources have produced (`GivenStays`), which is why
`Passes` does not move under what was begun. `Frame` says what a step keeps that
touches other items; one lemma per kind of step does the rest.

**AutoReplyProofs.** `TypeCorrect`, `HonestAnswers` (`AnswersAreHonest`),
`TraceIsLeft` (`SentLeavesATrace`) and `RepliesKeepOrder` (`ConfirmedInOrder`),
for any number of messages and callers, and any bounds.
Honesty needs the fact that what WhatsApp took was posted, and that "not
connected" is said before anything is (`HonestInv`). The trace follows from
`RunInv`: a reply that is under way or was dropped has a run that waits, was cut
or failed; it names, for each of the two histories, what can be missing from it,
and nothing of it depends on the record being kept. Order needs three facts: a message is posted only when every earlier
one was answered or given up (`OrderInv`); a send whose run is over changes its
answer no more (`RunInv`, `Settling`); and a send that goes out only now has no
id yet (`HonestInv`). So a reply that goes out late is never confirmed, and
`ConfirmedInOrder` is carried over each step (`Confirmations`).

**JailsProofs.** `TypeCorrect`, `ReceiptsStayTrue` (`ReceiptsAreTrue`),
`OnlyStoppedRollBack` (`RollsBackOnlyStopped`) and `LossIsSaidFirst`
(`LossIsAnnounced`), for any number of jails, sessions and reasons. Receipts
need that a dataset uses a name once, which is part of the type invariant. That
only stopped jails go back follows from `LookInv`: whatever runs was listed or
has been started since. `ListInv` says of a command past its listing that every
snapshot behind the one it names was announced or taken since, or that it
missed its listing and announced none; what `Roll` destroys are those.

**WorldProofs**, the doctor. `TypesHold`, `PlansAreFollowable` (`PlanCanBeFollowed`) and
`VerdictsAreExact` (`VerdictIsExact`), for every table, every set of running
services and every budget. `PlanInv` says of each step of the plan what has to
be true of it, whatever is appended later (`Sound`), and that room is made before
anything is started; so a plan that is offered can be followed. `VerdictInv` adds
what a pass leaves behind: after one that started nothing, nothing it came by
could be started. That "impossible" is then exact needs `TierAssumption`: an
essential service requires only essential ones, and the requirements among the
essential have no cycle, as in `world.rs`. With a table of another shape the
doctor could say "impossible" of what a smarter order repairs. `MemoryOf` folds
over a set, which the library defines by a recursion; `MemoryFrom`, `Smallest` and
`MemoryEquations` get its equations by a least counterexample, and
`MemoryGrows` follows.

**WorldProofs**, the commands. `ServicesTyped`, `CommandsKeepTheirWord`
(`CommandsDoAsTheySay`), `CodesAreHonest` (`ExitCodeIsHonest`), `VetoStands`
(`VetoHolds`) and `TableProtects` (`OrderProtects`), for every table within
`OneTierAssumption`, any number of sessions, commands and faults, and any budget.
The invariant says the same of every session, `SessionInv(p)`, and a step is
looked at twice. For the other sessions it is only a service that came up or went
down, which `Bystander` shows to keep all they know, whatever it was; the history
variables `lost` and `gained` take the blame. For its own session there is one
lemma per step. `LoopInv` is what the rest follows from: what a command has done lies
on one side of what it has left, in the order of the table, and a restart stops
before it starts. `GoalInv` (what a start came by is up, was taken down, or
failed), `BlameInv` (why one failed), `StartInv` (what a start finds up already) and
`RestartInv` give the exit codes, `ExitInv` ties the code to the flag that counts
failures. `AloneInv` computes the machine of an undisturbed command at every step from what is
left of its loop; with nothing left that is what it promises, and before that
it gives `TableProtects`: of a requirement that broke, the side that is done and the
side that is left tell the order. That needs `OneTierAssumption`, without which a
save or a resume moves one end of a requirement alone. `ThinkInv` says that what is up and was not
started by others is seen or about to be looked at, so that the veto was decided
on no less than that, and `RoomInv` carries it past the start. `PlannedInv` is what
the planner makes of each intent. `InOrderSweeps` and the lemmas around it are about
`InOrder`, which is written as a recursive function for their sake.

**ConsoleProofs**, the history. `FaultsHideFew` (`FaultHidesFew`) and
`SeenAlwaysStaysSeen` (the action property), for any number of records and
faults. That few are hidden is an account: `CostInv` says that
the records that are `Hidden`, and those the next append is going to hide
(`Debt`: itself, and the one it runs into if that was read so far), are paid for
by the faults there were, two for a power cut. An append moves a debt to what is
hidden, a fault makes a debt of what it allows.

**ConsoleProofs**, the machine and the looks. `ConsoleImplementsHistory`: with
the services, the looks and the chats around it, the file behaves as `History`
says. `TokensAlwaysHold` (`TokensHold`), `GoodNewsIsAlwaysTrue`
(`GoodNewsIsTrue`), `BadNewsIsAlwaysTrue` (`BadNewsIsTrue`), `ChatsNameTheCause`
(`ChatNamesTheCause`) and `PanelsAreAlwaysHonest` (`PanelsAreHonest`), for every
table, token, file and number of changes. `TokenInv` ties what a
service and the console loaded to the files, but for what was edited since.
`LookInv` says of every service that was asked and has not changed that asking
it now might give the same (of a front, either answer); when a look has come by all of them, its headline
is a fold of the present. `PanelInv` says the same of the two panels, where
the history's needs a measure: what `recent` could see when the page began, it
still sees unless a fault came since (`FinishedStays`). `LinkInv` says of a chat that its
connection is held only by a llama.cpp that listens, and broken or cut only by one of
the two that changed, from which `ChatInv` has the cause of each status.
`ConsoleAssumption` names llama.cpp, which the code asks by name, and says that the
fronts are neither essential nor required by another service, as in `service.rs` and
`world.rs`: an alarm over one of them could be false.

**ServerProofs.** `ServerTyped` (the type invariant), `RequestsAlwaysReach`
(`RequestsReachTheirWorkflow`) and `RecordsAlwaysAgree` (`RecordsAndAnswersAgree`),
for any exports, any order of the hash map and any number of starts, calls and
failed appends. What is known of a call is an operator of the call and of the
variables it depends on (`Good`), since a step changes one call or none.
`LoadsInv` says that a process holds what `from_export` makes of some export.
`RouteOK` says of each webhook that its route is the first that its process has
for the address, or that there is none; that such a route is of an active
workflow no later one replaced, and that a claimed address has one, is
`RoutesReach`, a lemma about the store and the order alone. `RunOK` says how far a
run is, what it has done by then, and, node by node, what reply its items carry
(`OutputOK`): the replies that `take_response` may pick are of nodes that ran, a
marker shows only in an echo of an earlier one. `RecordOK` and `HistoryInv` tie
records to calls, both ways. `ServerAssumption` asks for exports that are well
formed and have no trigger called "shadow": the code writes the label of a
rehearsal and the name of a trigger in the same field, so a scheduled run of a
trigger with that name would be read as a rehearsal.

Not proved, and why. `DueIsHandledWhileUp`, `CallsEnd` and both `Terminates` are liveness
under fairness, which is out of TLAPS's reach. `hajimectl_order` and
`history_torn` check what does not hold. Every other property of a run is proved,
and so is the type invariant of every module that states one; no run spends
itself on those.

## Where the code and its documents part

1. A record appended after a torn line is lost with it (`history_torn`).
2. The table's order, which stopping reverses so that "dependants go down before
   what they depend on", holds two services above what they require
   (`hajimectl_order`).

`PROJECT.json` quotes their lines. More the models show without a run of their
own, where a property of a passing run states exactly what the code does:

- `Gateway::call` checks under one lock and counts under another: "calls allowed
  across all tools, per run" (tools.rs:112) are overrun by up to the number of
  other callers (`OverrunBounded`).
- The doctor says "Impossible" of an optional service without its optional
  requirement, which one start would repair (`VerdictIsExact`).
- "An audit line per call" (tools.rs:18): a call dropped at its provider
  (tools.rs:289) has none, and neither has a call of a tool nobody provides
  (tools.rs:219-221) (`ReceiptsMatch`).
- "a truncated tail from an unclean shutdown must not hide the rest of the history"
  (history.rs:146-147):
  a text cut inside a character ends the reading there, and all that is appended
  after it is hidden (`FaultHidesFew`, which sets what is `Behind` it apart).
- "A failed send is recorded too" (hajime-wa's api.rs:163): not when the caller has
  hung up, hajime-wa went down, the append failed, which is only logged
  (history.rs:114-141), or HAJIME_WA_HISTORY is not set (main.rs:51-53); and a run
  whose caller went away after 15 seconds leaves no record at all
  (`SentLeavesATrace`).
- An HTTP node's output is that of whatever was answered, whenever it was:
  hajime-wa's 503 at 30 seconds (bridge.rs:78, 134-136) is an item of a successful
  run, and the message may go out after it (`TranscriptIsTrue`,
  `NothingBehindTheRun`).
- "Say what will be lost before doing it" (hajimectl's main.rs:303): when the
  listing fails, or a `zpool list` before it, for which `pool` puts "zroot"
  (jail.rs:76-95), the rollback goes on in silence (`LossIsAnnounced`).
- A fetch looks a name up to check it and again to request it (lib.rs:160-163), so
  that the address it checked need not be the one it asks (`Round`, `Response`).
- The console calls hajime-ai or hajime-wa down when llama.cpp or the bridge is slow
  to answer their health paths (`Reach`).
- A llama.cpp whose answer stops half-way counts as one that answered nothing: the
  chat gets 500, 502 or 404 and not 504, even when the 300 seconds passed
  (backend.rs:158, `BackendSays`).
- Names of snapshots sort by time only among those of one reason
  (snapshot.rs:34); nothing sorts them.
- The planner proposes commands that hajimectl turns down: `start ai`, since a
  jail is taken for the name of what to start, and `jail-rollback ai` without
  the snapshot it wants (`ExitCodeIsHonest`).
- `system_start` (execute.rs) checks the veto against an empty machine, since no
  caller passes what runs; no program registers it yet.
- "The internal marker never reaches the caller" (respond_to_webhook.rs:161, a
  test of the mode lastNode): in the mode responseNode a node without a body
  echoes the marker that an earlier one left (`RecordsAndAnswersAgree`).
- A schedule without any interval is neither scheduled nor reported by
  `--validate`, nor is a webhook without a path (`RequestsReachTheirWorkflow`).
- "Reply immediately, then run." (triggers.rs:116) of a webhook in the mode
  onReceived: the handler awaits the run (server.rs:212), answers when it has
  ended, and is dropped with it when the caller hangs up (`SentLeavesATrace`).
- "Ceiling on a single command's runtime" (policy.rs:25): executeCommand's
  time-out ends the wait and not the child, and ssh has only a limit on silence,
  which ends the item as a success with the exit code -1. So does an Eof that
  comes before the exit status, and a server that refuses to run the command
  (`NothingBehindTheRun`, `TranscriptIsTrue`).
- "The rest ride along unchanged" (respond_to_webhook.rs:38): the node hands on its
  first item alone (`ReplyItems`).
- A rehearsal does not ask the policy: a node that is switched off passes in a
  rehearsal and fails in the run (`Held` before `Permitted`).
- "A machine that announces "up" while the tunnel is down and last night's backup
  never ran has told you nothing useful." (readiness.rs:4-6): the self-check
  leaves out a service without a port, which the tunnel's cloudflared is, and only
  warns of a backup that never ran, so that `GoodNewsIsTrue` speaks of essential
  services with a port. The console's constraints always list cloudflared as
  missing.
- `hajimectl status` counts "started, not listening" as up, and a service without a
  port that was started by hand as down (`GoodNewsIsTrue`, `BadNewsIsTrue`).
- The audit log lives in hajime-ai's memory: after a restart the console says that
  no tool was used (`PanelsAreHonest`).
- A reply of the model with the words "not found" in it is answered with 404, as
  a model that is missing (backend.rs:160, `ChatNamesTheCause`).
- "Secrets never travel through the environment." (secrets.rs:9): hajime-workflow's
  token does, by rc.d and HAJIME_TOKEN (`StartWorkflow`). hajime-wa keeps its key with
  the spaces around it, which no header can carry (`StartWa`).
- Bluesky's 401 is reported as a rejected post, that of the others as expired
  credentials (`Bluesky`, `Expires401`).
- `/api/chat` begins no run of the gateway, `/v1/chat/completions` does
  (`Converse`).
- A workflow run that the step limit cuts off counts as a success (`Engine`,
  `OutOfSteps`); a missed job's report may fail unseen while the tick is saved
  all the same (`Scheduler`, `Report`); a reply that hajime-wa refused leaves a
  successful run in the workflow's history (`AutoReply`, `NodeDone`).

## Not modelled

The classifier with its slots and corpus (numeric and textual, without state);
the interpreter of code nodes, expressions, feed parsing and the extraction of
text from HTML, which compute on characters; the words and languages of the
console's page; the disk and clock checks of the self-check, one probe each, and
`check_certificate`, which nothing calls; the installer and desktop scripts, which
a person runs once; assets. The reasons are per component in `PROJECT.json`.

Within the modelled components: cron's own arithmetic and time zones (a schedule
is a set of minutes), an unreadable tick file (treated by the code as a first
start), the text of reports, what items hold, most HTTP status codes, requests
that hajime-wa refuses unread (a wrong key, an empty text), symbolic links and
relative paths, a tick file that a power cut takes (it is written without fsync),
answers a platform gives to a post other than taken, refused and expired (`Arrive`
takes any 2xx for a post that is there), answers to the console that are neither
the service's own nor its refusal (an unreadable one, or another status, is drawn as
an error, like a refusal), and the look and the read of a file being two steps (its
size may change between them).

## Plan

Done, in this order: the scheduler and its ledger, the gateway, the engine and
its dataflow, the history, the doctor, service control with the planner's
requests, WhatsApp with the replies through the workflow server, jails and
snapshots, the store and the server; then the start of the services, the machine
as the console sees it, the tools behind the gateway, and the nodes that reach
outside, with the proofs above.

Next:

1. The doctor's plan followed by hand with hajimectl on a machine that changes
   (`Doctor` and `Hajimectl` composed over `World`).
2. A composition of `Scheduler`, `Server`, `Engine` and `History`, so that an
   occurrence and its record are tied from tick to console, through an export
   that changes between two starts.
3. The invariants that these two compositions need, and their proofs.
