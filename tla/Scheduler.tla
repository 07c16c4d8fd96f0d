------------------------------ MODULE Scheduler ------------------------------
(***************************************************************************)
(* The cron scheduler of hajime-workflow: Scheduler::run_forever, its tick *)
(* file, the start-up report of what came due while the service was down,  *)
(* the detached runs, and the lock that lets one process schedule at a     *)
(* time.                                                                   *)
(*                                                                         *)
(* What a detached run does once spawned is the engine's business: `runs`  *)
(* remembers that it was spawned, not how it ends.                         *)
(*                                                                         *)
(* Time is counted in minutes: a cron occurrence is a minute, and a clock  *)
(* reading k stands for any instant of minute k.  Fires[s] is the set of   *)
(* minutes at which schedule s has an occurrence.  A process may crash     *)
(* between any two steps; the tick file, the history and the clock         *)
(* survive, everything else is lost.  The wall clock may also be set back  *)
(* (NTP, an operator).                                                     *)
(***************************************************************************)
EXTENDS Integers, FiniteSets

CONSTANTS
  Schedules,   \* enabled schedule triggers of active workflows
  Fires,       \* [Schedules -> set of minutes]: what the cron expression means
  Catchups,    \* values HAJIME_CATCHUP may have: "Report", "RunOnce"
  None,        \* no tick file, no lock holder
  MaxTime,     \* bound: last minute of the clock
  MaxEras      \* bound: process starts and clocks set back, together

ASSUME SchedulerAssumption ==
  /\ Fires \in [Schedules -> SUBSET Nat]
  /\ Catchups \subseteq {"Report", "RunOnce"}
  /\ None \notin Nat
  /\ MaxTime \in Nat
  /\ MaxEras \in Nat

VARIABLES
  clock,     \* the wall clock, in minutes
  holder,    \* the process holding the lock file's flock, or None
  pc,        \* [Procs -> where run_forever stands]
  previous,  \* [Procs -> start of the current window (exclusive)]
  now,       \* [Procs -> end of the current window (inclusive)]
  todo,      \* [Procs -> schedules the current loop has still to visit]
  saved,     \* contents of the tick file, or None
  runs,      \* detached runs spawned so far, by any process
  reports,   \* missed schedules: "missed" in the history, "logged" in the log alone
  boots,     \* how many times a process took the lock
  backs,     \* how many times the clock was set back
  \* history variables, read by the properties alone
  origin,    \* first tick ever written to the tick file, or None
  clean      \* no crash outside the minute sleep, no failed write, no clock set back

vars == <<clock, holder, pc, previous, now, todo, saved, runs, reports,
          boots, backs, origin, clean>>

local == <<pc, previous, now, todo>>

\* Processes are numbered in the order in which they take the lock.
Procs == 1..MaxEras

----------------------------------------------------------------------------
(* Windows, runs and records *)

\* Occurrences of s after `from`, up to and including `upto`.
\* find_next_occurrence(&cursor, false) excludes the cursor itself.
Window(s, from, upto) == {t \in Fires[s] : from < t /\ t <= upto}

\* due() asking only whether the schedule fires in the minute the loop woke in.
Due_ThisMinute(from, upto) == {s \in Schedules : upto \in Fires[s]}

\* due(): one Pending per schedule with an occurrence in the window, however
\* many occurrences the window holds.
Due(from, upto) == {s \in Schedules : Window(s, from, upto) # {}}

\* missed(): the same schedules, each with its number of occurrences (at most
\* CAP), which goes into the text of the record alone.
Missed(since, upto) == {s \in Schedules : Window(s, since, upto) # {}}

\* A detached run or a history record for schedule s, standing for every
\* occurrence in its window.  `via` is what produced it; two entries of one
\* process for one window differ in `era`, as the clock was set back between.
Entry(p, s, via) ==
  [proc |-> p, sched |-> s, from |-> previous[p], upto |-> now[p],
   via |-> via, era |-> backs]

EntriesVia(via) ==
  [proc : Procs, sched : Schedules, from : Nat, upto : Nat, via : via, era : Nat]

----------------------------------------------------------------------------
Init ==
  /\ clock = 0
  /\ holder = None
  /\ pc = [p \in Procs |-> "down"]
  /\ previous = [p \in Procs |-> 0]
  /\ now = [p \in Procs |-> 0]
  /\ todo = [p \in Procs |-> {}]
  /\ saved = None
  /\ runs = {}
  /\ reports = {}
  /\ boots = 0
  /\ backs = 0
  /\ origin = None
  /\ clean = TRUE

\* lock::acquire: try_lock_exclusive succeeds when nobody holds the flock.  A
\* refused process exits with status 3 and changes nothing.
LockFree == holder = None

\* The service starts as it did before the tick was persisted: the loop begins
\* at the clock reading and the gap is not looked at.
Boot_NoGap(p) ==
  /\ p = boots + 1
  /\ boots + backs < MaxEras
  /\ LockFree
  /\ holder' = p
  /\ boots' = p
  /\ now' = [now EXCEPT ![p] = clock]
  /\ previous' = [previous EXCEPT ![p] = clock]
  /\ pc' = [pc EXCEPT ![p] = "booted"]
  /\ UNCHANGED <<clock, todo, saved, runs, reports, backs, origin, clean>>

\* The service starts: it takes the lock, reads the clock and the tick file.
\* A tick before the clock reading is a gap; none, or a tick at or after the
\* reading, is no gap.  `previous` stands for `last` until the report is over.
Boot(p) ==
  /\ p = boots + 1
  /\ boots + backs < MaxEras
  /\ LockFree
  /\ holder' = p
  /\ boots' = p
  /\ now' = [now EXCEPT ![p] = clock]
  /\ IF saved # None /\ saved < clock
     THEN /\ previous' = [previous EXCEPT ![p] = saved]
          /\ todo' = [todo EXCEPT ![p] = Missed(saved, clock)]
          /\ pc' = [pc EXCEPT ![p] = "report"]
     ELSE /\ previous' = [previous EXCEPT ![p] = clock]
          /\ todo' = [todo EXCEPT ![p] = {}]
          /\ pc' = [pc EXCEPT ![p] = "booted"]
  /\ UNCHANGED <<clock, saved, runs, reports, backs, origin, clean>>

\* One missed schedule is logged and appended to the history as a failed run.
\* append gives no answer: when the write fails, the log line is all there is.
Report(p, s) ==
  /\ pc[p] = "report"
  /\ s \in todo[p]
  /\ \E via \in {"missed", "logged"} :
       /\ reports' = reports \cup {Entry(p, s, via)}
       /\ clean' = (clean /\ via = "missed")
  /\ todo' = [todo EXCEPT ![p] = @ \ {s}]
  /\ UNCHANGED <<clock, holder, pc, previous, now, saved, runs, boots, backs,
                 origin>>

\* Every missed schedule is reported; HAJIME_CATCHUP decides whether each one
\* is now run once.
EndReport(p) ==
  /\ pc[p] = "report"
  /\ todo[p] = {}
  /\ \E c \in Catchups :
       IF c = "RunOnce"
       THEN /\ todo' = [todo EXCEPT ![p] = Missed(previous[p], now[p])]
            /\ pc' = [pc EXCEPT ![p] = "catchup"]
       ELSE /\ todo' = todo
            /\ pc' = [pc EXCEPT ![p] = "booted"]
  /\ UNCHANGED <<clock, holder, previous, now, saved, runs, reports, boots,
                 backs, origin, clean>>

\* A detached run is spawned for one schedule of the list.
Detach(p, s, via) ==
  /\ s \in todo[p]
  /\ runs' = runs \cup {Entry(p, s, via)}
  /\ todo' = [todo EXCEPT ![p] = @ \ {s}]
  /\ UNCHANGED <<clock, holder, pc, previous, now, saved, reports, boots,
                 backs, origin, clean>>

CatchUp(p, s) == pc[p] = "catchup" /\ Detach(p, s, "catchup")

EndCatchUp(p) ==
  /\ pc[p] = "catchup"
  /\ todo[p] = {}
  /\ pc' = [pc EXCEPT ![p] = "booted"]
  /\ UNCHANGED <<clock, holder, previous, now, todo, saved, runs, reports,
                 boots, backs, origin, clean>>

\* save_tick: write a temporary file and rename it.  The file holds the new
\* tick, or, when the write or the rename fails, the old one (a warning at
\* most).  There is no third outcome: the rename is atomic.
SaveTick(at) ==
  \/ /\ saved' = at
     /\ origin' = IF origin = None THEN at ELSE origin
     /\ clean' = clean
  \/ /\ clean' = FALSE
     /\ UNCHANGED <<saved, origin>>

\* The end of start-up: previous = boot, and it is saved.
SaveBoot(p) ==
  /\ pc[p] = "booted"
  /\ previous' = [previous EXCEPT ![p] = now[p]]
  /\ pc' = [pc EXCEPT ![p] = "asleep"]
  /\ SaveTick(now[p])
  /\ UNCHANGED <<clock, holder, now, todo, runs, reports, boots, backs>>

\* The tick is saved as the loop wakes, before the due runs are spawned.
Wake_SavesFirst(p) ==
  /\ pc[p] = "asleep"
  /\ clock # previous[p]
  /\ now' = [now EXCEPT ![p] = clock]
  /\ todo' = [todo EXCEPT ![p] = Due(previous[p], clock)]
  /\ pc' = [pc EXCEPT ![p] = "tick"]
  /\ SaveTick(clock)
  /\ UNCHANGED <<clock, holder, previous, runs, reports, boots, backs>>

\* The minute sleep ends, late by any amount: the loop reads the clock and
\* asks what is due.
Wake(p) ==
  /\ pc[p] = "asleep"
  /\ clock # previous[p]
  /\ now' = [now EXCEPT ![p] = clock]
  /\ todo' = [todo EXCEPT ![p] = Due(previous[p], clock)]
  /\ pc' = [pc EXCEPT ![p] = "tick"]
  /\ UNCHANGED <<clock, holder, previous, saved, runs, reports, boots, backs,
                 origin, clean>>

Spawn(p, s) == pc[p] = "tick" /\ Detach(p, s, "tick")

\* The end of a tick that forgets to save.
EndTick_NoSave(p) ==
  /\ pc[p] = "tick"
  /\ todo[p] = {}
  /\ previous' = [previous EXCEPT ![p] = now[p]]
  /\ pc' = [pc EXCEPT ![p] = "asleep"]
  /\ UNCHANGED <<clock, holder, now, todo, saved, runs, reports, boots, backs,
                 origin, clean>>

\* The end of the tick: previous = now, then save_tick(now).
EndTick(p) ==
  /\ pc[p] = "tick"
  /\ todo[p] = {}
  /\ previous' = [previous EXCEPT ![p] = now[p]]
  /\ pc' = [pc EXCEPT ![p] = "asleep"]
  /\ SaveTick(now[p])
  /\ UNCHANGED <<clock, holder, now, todo, runs, reports, boots, backs>>

\* The process dies, at any point: a crash, a power cut, or exit(1) because the
\* port cannot be bound, which happens with the scheduler already running.  The
\* kernel drops the flock and the detached runs go with the process.
Crash(p) ==
  /\ pc[p] # "down"
  /\ boots + backs < MaxEras
  /\ holder' = IF holder = p THEN None ELSE holder
  /\ pc' = [pc EXCEPT ![p] = "down"]
  /\ previous' = [previous EXCEPT ![p] = 0]
  /\ now' = [now EXCEPT ![p] = 0]
  /\ todo' = [todo EXCEPT ![p] = {}]
  /\ clean' = (clean /\ pc[p] = "asleep")
  /\ UNCHANGED <<clock, saved, runs, reports, boots, backs, origin>>

\* Time passes.
ClockForward ==
  /\ clock < MaxTime
  /\ clock' = clock + 1
  /\ UNCHANGED <<holder, local, saved, runs, reports, boots, backs, origin,
                 clean>>

\* The clock is set back.
ClockBack ==
  /\ boots + backs < MaxEras
  /\ clock' \in 0..(clock - 1)
  /\ backs' = backs + 1
  /\ clean' = FALSE
  /\ UNCHANGED <<holder, local, saved, runs, reports, boots, origin>>

Step(p) ==
  \/ \E s \in Schedules : Report(p, s) \/ CatchUp(p, s) \/ Spawn(p, s)
  \/ EndReport(p) \/ EndCatchUp(p) \/ SaveBoot(p) \/ Wake(p) \/ EndTick(p)

Next ==
  \/ \E p \in Procs : Boot(p) \/ Step(p) \/ Crash(p)
  \/ ClockForward
  \/ ClockBack

\* The loop's own steps are taken for as long as the process lives.  Nothing
\* obliges anyone to start the service again (daemon(8) is run without -r), a
\* run to end, or the clock to move.
Fairness == \A p \in Procs : WF_vars(Step(p))

Spec == Init /\ [][Next]_vars /\ Fairness

----------------------------------------------------------------------------
(* Properties *)

\* Every run ever spawned and every missed report ever made.
Begun == runs \cup reports

Covers(e, s, t) == e.sched = s /\ e.from < t /\ t <= e.upto

\* Entries of one kind that stand for the occurrence of s at t.
For(via, s, t) == {e \in Begun : e.via = via /\ Covers(e, s, t)}

\* The occurrence was given to a run or reported as missed.
Accounted(s, t) == \E e \in Begun : Covers(e, s, t)

\* The occurrence lies after the first tick ever saved.
Owed(t) == origin # None /\ origin < t

\* Types; a run is never filed as a report or the other way round, and only a
\* process in one of its three loops has schedules left to visit.
TypeOK ==
  /\ clock \in Nat
  /\ holder \in Procs \cup {None}
  /\ pc \in [Procs -> {"down", "report", "catchup", "booted", "asleep", "tick"}]
  /\ previous \in [Procs -> Nat]
  /\ now \in [Procs -> Nat]
  /\ todo \in [Procs -> SUBSET Schedules]
  /\ saved \in Nat \cup {None}
  /\ origin \in Nat \cup {None}
  /\ runs \subseteq EntriesVia({"tick", "catchup"})
  /\ reports \subseteq EntriesVia({"missed", "logged"})
  /\ boots \in Nat
  /\ backs \in Nat
  /\ clean \in BOOLEAN
  /\ \A p \in Procs : todo[p] # {} => pc[p] \in {"report", "catchup", "tick"}

\* Whatever the tick file says was dealt with was dealt with: every occurrence
\* between the first saved tick and the saved one was handed to a run or was
\* reported as missed, over any crashes, failed saves, late wake-ups and clock
\* changes.  It is what "after the tick, not before" in run_forever buys
\* (scheduler.rs:347-350): a minute the file covers never went unnoticed.
NothingSilentlySkipped ==
  \A s \in Schedules : \A t \in Fires[s] :
    Owed(t) /\ saved # None /\ t <= saved => Accounted(s, t)

\* A tick fires an occurrence once, and once more for each time the clock was
\* set back, whatever crashes and second processes there are: nothing is run
\* again from `due` because a process died (run_forever, lock::acquire).
TickRunsOnce ==
  \A s \in Schedules : \A t \in Fires[s] :
    Cardinality(For("tick", s, t)) <= 1 + backs

\* While writes succeed, the clock is not set back and processes die only in
\* the minute sleep, an occurrence is run by a tick or reported as missed and
\* never both or twice, and a catch-up runs only what was reported, once: no
\* false alarm in the history, no doubled post (Catchup::RunOnce, "still one
\* run per schedule").
CleanMeansExactlyOnce ==
  clean =>
    \A s \in Schedules : \A t \in Fires[s] :
      /\ Cardinality(For("tick", s, t) \cup For("missed", s, t)) <= 1
      /\ Cardinality(For("catchup", s, t)) <= Cardinality(For("missed", s, t))

\* No occurrence is handled twice but for a reason: a tick runs it once, and
\* without a fault a run and a report exclude each other (run_forever).
NothingRunsTwice == TickRunsOnce /\ CleanMeansExactlyOnce

\* The scheduler keeps the tick file's promise step by step: the record of what
\* was handled only grows, and the file is moved only to what is handled
\* (save_tick after the loop over due).
Occurrences == UNION {{s} \X Fires[s] : s \in Schedules}
Ledger ==
  INSTANCE TickLedger WITH
    Items <- Occurrences,
    handled <- {o \in Occurrences : Accounted(o[1], o[2])},
    claimed <- {o \in Occurrences : Owed(o[2]) /\ saved # None /\ o[2] <= saved}
KeepsLedger == Ledger!Spec

\* An occurrence that came due after the first saved tick is run or reported,
\* unless the service goes down first or the clock is set back before it; when
\* the service comes up again the promise starts over, from the tick file.
DueIsHandledWhileUp ==
  \A s \in Schedules : \A t \in Fires[s] :
    (Owed(t) /\ t <= clock /\ holder # None) ~>
      (Accounted(s, t) \/ holder = None \/ clock < t)
==============================================================================
