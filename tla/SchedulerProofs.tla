--------------------------- MODULE SchedulerProofs ---------------------------
(***************************************************************************)
(* The scheduler's tick file never covers an occurrence that went          *)
(* unnoticed, no occurrence is run twice but for a reason, and the         *)
(* scheduler implements TickLedger, for every set of schedules, every cron *)
(* expression and every number of crashes, failed saves and clock changes. *)
(***************************************************************************)
EXTENDS Scheduler, FiniteSetTheorems, TLAPS

\* Every occurrence after the first saved tick, up to x, was run or reported.
HandledUpTo(x) ==
  \A s \in Schedules : \A t \in Fires[s] : Owed(t) /\ t <= x => Accounted(s, t)

\* Every occurrence of the window of p was run or reported, or its schedule is
\* still on the list of p.
WindowServed(p) ==
  \A s \in Schedules : \A t \in Fires[s] :
    previous[p] < t /\ t <= now[p] => s \in todo[p] \/ Accounted(s, t)

\* Only the holder of the lock is up: it takes the lock before anything else.
LockInv == \A p \in Procs : pc[p] # "down" => holder = p

\* The tick file exists once a tick was saved, and it keeps its promise.
FileInv ==
  /\ saved = None <=> origin = None
  /\ saved # None => HandledUpTo(saved)

\* What a live process knows about its own window.
LoopInvOf(p) ==
  /\ pc[p] \in {"catchup", "booted"} => HandledUpTo(now[p])
  /\ pc[p] \in {"report", "tick", "asleep"} => HandledUpTo(previous[p])
  /\ pc[p] \in {"report", "tick"} => WindowServed(p)

LoopInv == \A p \in Procs : LoopInvOf(p)

IInv == TypeOK /\ LockInv /\ FileInv /\ LoopInv

----------------------------------------------------------------------------
(* Types *)

LEMMA EntryType ==
  ASSUME TypeOK, NEW p \in Procs, NEW s \in Schedules, NEW via
  PROVE  Entry(p, s, via) \in EntriesVia({via})
BY DEF TypeOK, Entry, EntriesVia

LEMMA TypeInit == Init => TypeOK
BY SchedulerAssumption DEF Init, TypeOK, EntriesVia

LEMMA TypeStep == TypeOK /\ [Next]_vars => TypeOK'
<1> SUFFICES ASSUME TypeOK, [Next]_vars PROVE TypeOK'
  OBVIOUS
<1> USE SchedulerAssumption
<1>1. ASSUME NEW p \in Procs, Boot(p) PROVE TypeOK'
  <2>1. p \in Nat
    BY DEF Procs
  <2>2. CASE saved # None /\ saved < clock
    BY <1>1, <2>1, <2>2 DEF TypeOK, Boot, Missed
  <2>3. CASE ~(saved # None /\ saved < clock)
    BY <1>1, <2>1, <2>3 DEF TypeOK, Boot
  <2> QED BY <2>2, <2>3
<1>2. ASSUME NEW p \in Procs, NEW s \in Schedules, Report(p, s) PROVE TypeOK'
  <2>1. PICK via \in {"missed", "logged"} :
          reports' = reports \cup {Entry(p, s, via)} /\ clean' = (clean /\ via = "missed")
    BY <1>2 DEF Report
  <2>2. reports' \subseteq EntriesVia({"missed", "logged"})
    <3>1. Entry(p, s, via) \in EntriesVia({"missed", "logged"})
      BY EntryType DEF EntriesVia
    <3> QED BY <2>1, <3>1 DEF TypeOK
  <2>3. clean' \in BOOLEAN
    BY <2>1, Zenon
  <2>4. /\ UNCHANGED <<clock, holder, pc, previous, now, saved, runs, boots,
                      backs, origin>>
        /\ todo' = [todo EXCEPT ![p] = @ \ {s}] /\ s \in todo[p]
    BY <1>2 DEF Report
  <2> QED BY <2>2, <2>3, <2>4 DEF TypeOK
<1>3. ASSUME NEW p \in Procs, NEW s \in Schedules, CatchUp(p, s) PROVE TypeOK'
  <2>1. Entry(p, s, "catchup") \in EntriesVia({"tick", "catchup"})
    BY EntryType DEF EntriesVia
  <2> QED BY <1>3, <2>1 DEF TypeOK, CatchUp, Detach
<1>4. ASSUME NEW p \in Procs, NEW s \in Schedules, Spawn(p, s) PROVE TypeOK'
  <2>1. Entry(p, s, "tick") \in EntriesVia({"tick", "catchup"})
    BY EntryType DEF EntriesVia
  <2> QED BY <1>4, <2>1 DEF TypeOK, Spawn, Detach
<1>5. ASSUME NEW p \in Procs, EndReport(p) PROVE TypeOK'
  BY <1>5 DEF TypeOK, EndReport, Missed
<1>6. ASSUME NEW p \in Procs, EndCatchUp(p) PROVE TypeOK'
  BY <1>6 DEF TypeOK, EndCatchUp
<1>7. ASSUME NEW p \in Procs, SaveBoot(p) PROVE TypeOK'
  BY <1>7 DEF TypeOK, SaveBoot, SaveTick
<1>8. ASSUME NEW p \in Procs, Wake(p) PROVE TypeOK'
  BY <1>8 DEF TypeOK, Wake, Due
<1>9. ASSUME NEW p \in Procs, EndTick(p) PROVE TypeOK'
  BY <1>9 DEF TypeOK, EndTick, SaveTick
<1>10. ASSUME NEW p \in Procs, Crash(p) PROVE TypeOK'
  BY <1>10 DEF TypeOK, Crash
<1>11. CASE ClockForward
  BY <1>11 DEF TypeOK, ClockForward, local
<1>12. CASE ClockBack
  <2>1. clock' \in Nat
    BY <1>12 DEF TypeOK, ClockBack
  <2>2. backs' \in Nat
    BY <1>12 DEF TypeOK, ClockBack
  <2>3. clean' \in BOOLEAN
    BY <1>12, Zenon DEF ClockBack
  <2>4. UNCHANGED <<holder, local, saved, runs, reports, boots, origin>>
    BY <1>12 DEF ClockBack
  <2> QED BY <2>1, <2>2, <2>3, <2>4 DEF TypeOK, local
<1>13. CASE UNCHANGED vars
  BY <1>13 DEF TypeOK, vars
<1> QED
  BY <1>1, <1>2, <1>3, <1>4, <1>5, <1>6, <1>7, <1>8, <1>9, <1>10, <1>11,
     <1>12, <1>13 DEF Next, Step

\* TypeOK holds in every reachable state.
THEOREM TypeCorrect == Spec => []TypeOK
BY TypeInit, TypeStep, PTL DEF Spec

----------------------------------------------------------------------------
(* What the steps have in common *)

\* What was handled stays handled.
LEMMA AccountedStays ==
  ASSUME runs \subseteq runs', reports \subseteq reports',
         NEW s, NEW t, Accounted(s, t)
  PROVE  Accounted(s, t)'
BY DEF Accounted, Begun, Covers

LEMMA HandledStays ==
  ASSUME runs \subseteq runs', reports \subseteq reports', origin' = origin,
         NEW x, HandledUpTo(x)
  PROVE  \A s \in Schedules : \A t \in Fires[s] :
           Owed(t)' /\ t <= x => Accounted(s, t)'
<1> TAKE s \in Schedules
<1> TAKE t \in Fires[s]
<1> HAVE Owed(t)' /\ t <= x
<1>1. Owed(t)
  BY DEF Owed
<1>2. Accounted(s, t)
  BY <1>1 DEF HandledUpTo
<1> QED BY <1>2, AccountedStays

\* A process that has served its whole window has handled everything up to its end.
LEMMA WindowDone ==
  ASSUME TypeOK, NEW p \in Procs, todo[p] = {}, WindowServed(p),
         HandledUpTo(previous[p])
  PROVE  HandledUpTo(now[p])
<1> SUFFICES ASSUME NEW s \in Schedules, NEW t \in Fires[s], Owed(t), t <= now[p]
             PROVE  Accounted(s, t)
  BY DEF HandledUpTo
<1>1. t \in Nat /\ previous[p] \in Nat
  BY SchedulerAssumption DEF TypeOK
<1>2. CASE t <= previous[p]
  BY <1>2 DEF HandledUpTo
<1>3. CASE previous[p] < t
  BY <1>3 DEF WindowServed
<1> QED BY <1>1, <1>2, <1>3

\* An entry for a schedule of the list serves that schedule's part of the window.
LEMMA EntryServes ==
  ASSUME NEW p \in Procs, NEW s \in Schedules, NEW via, TypeOK,
         WindowServed(p),
         runs \subseteq runs', reports \subseteq reports',
         Entry(p, s, via) \in Begun',
         UNCHANGED <<previous, now>>,
         todo' = [todo EXCEPT ![p] = @ \ {s}]
  PROVE  WindowServed(p)'
<1> SUFFICES ASSUME NEW r \in Schedules, NEW t \in Fires[r],
                    previous[p] < t, t <= now[p], r \notin todo'[p]
             PROVE  Accounted(r, t)'
  BY DEF WindowServed
<1>1. CASE r = s
  <2>1. Entry(p, s, via).sched = s /\ Entry(p, s, via).from = previous[p]
        /\ Entry(p, s, via).upto = now[p]
    BY DEF Entry
  <2>2. Covers(Entry(p, s, via), r, t)
    BY <1>1, <2>1 DEF Covers
  <2>3. \E e \in Begun' : Covers(e, r, t)
    BY <2>2
  <2> QED BY <2>3 DEF Accounted, Covers
<1>2. CASE r # s
  <2>1. r \notin todo[p]
    BY <1>2 DEF TypeOK
  <2>2. Accounted(r, t)
    BY <2>1 DEF WindowServed
  <2> QED BY <2>2, AccountedStays
<1> QED BY <1>1, <1>2

\* Saving the end of a handled window keeps the file's promise, whether the
\* save succeeds or not, and the first tick ever saved owes nothing before it.
LEMMA Saving ==
  ASSUME TypeOK, FileInv, NEW p \in Procs, HandledUpTo(now[p]),
         SaveTick(now[p]), UNCHANGED <<runs, reports, now>>
  PROVE  /\ FileInv'
         /\ \A s \in Schedules : \A t \in Fires[s] :
              Owed(t)' /\ t <= now[p] => Accounted(s, t)'
<1>1. now[p] \in Nat /\ now[p] # None
  BY SchedulerAssumption DEF TypeOK
<1>2. ASSUME NEW s \in Schedules, NEW t \in Fires[s], Owed(t)', t <= now[p]
      PROVE  Accounted(s, t)'
  <2>1. t \in Nat
    BY SchedulerAssumption
  <2>2. CASE origin' = origin
    BY <2>2, <1>2, HandledStays
  <2>3. CASE origin' = now[p]
    BY <2>3, <2>1, <1>1, <1>2 DEF Owed
  <2> QED BY <2>2, <2>3 DEF SaveTick
<1>3. CASE saved' = now[p] /\ origin' = IF origin = None THEN now[p] ELSE origin
  <2>1. saved' # None /\ origin' # None
    BY <1>1, <1>3
  <2> QED BY <2>1, <1>2, <1>3 DEF FileInv, HandledUpTo
<1>4. CASE UNCHANGED <<saved, origin>>
  <2>1. saved # None => \A s \in Schedules : \A t \in Fires[s] :
                          Owed(t)' /\ t <= saved => Accounted(s, t)'
    BY <1>4, HandledStays DEF FileInv
  <2> QED BY <2>1, <1>2, <1>4 DEF FileInv, HandledUpTo
<1> QED BY <1>2, <1>3, <1>4 DEF SaveTick

----------------------------------------------------------------------------
(* The inductive invariant *)

\* Runs and reports are never taken back.
LEMMA Grows ==
  ASSUME [Next]_vars
  PROVE  runs \subseteq runs' /\ reports \subseteq reports'
BY DEF Next, Step, Boot, Report, EndReport, CatchUp, EndCatchUp, Detach,
       SaveBoot, Wake, Spawn, EndTick, Crash, ClockForward, ClockBack, vars

\* A step of a live process finds every other process down.
LEMMA OthersDown ==
  ASSUME LockInv, NEW p \in Procs, pc[p] # "down", NEW q \in Procs, q # p
  PROVE  pc[q] = "down"
BY DEF LockInv

LEMMA LockStep == TypeOK /\ LockInv /\ [Next]_vars => LockInv'
<1> SUFFICES ASSUME TypeOK, LockInv, [Next]_vars PROVE LockInv'
  OBVIOUS
<1>1. ASSUME NEW p \in Procs, Boot(p) PROVE LockInv'
  <2>1. \A q \in Procs : pc[q] = "down"
    BY <1>1, SchedulerAssumption DEF Boot, LockFree, LockInv, Procs
  <2> QED BY <1>1, <2>1 DEF Boot, LockInv, TypeOK
<1>2. ASSUME NEW p \in Procs, Step(p) PROVE LockInv'
  BY <1>2 DEF LockInv, TypeOK, Step, Report, EndReport, CatchUp, EndCatchUp,
              Detach, SaveBoot, Wake, Spawn, EndTick
<1>3. ASSUME NEW p \in Procs, Crash(p) PROVE LockInv'
  BY <1>3 DEF LockInv, TypeOK, Crash
<1>4. CASE ClockForward
  BY <1>4 DEF LockInv, ClockForward, local
<1>5. CASE ClockBack
  BY <1>5 DEF LockInv, ClockBack, local
<1>6. CASE UNCHANGED vars
  BY <1>6 DEF LockInv, vars
<1> QED BY <1>1, <1>2, <1>3, <1>4, <1>5, <1>6 DEF Next

\* Steps that save no tick keep the file's promise.
LEMMA FileStays ==
  ASSUME FileInv, UNCHANGED <<saved, origin>>,
         runs \subseteq runs', reports \subseteq reports'
  PROVE  FileInv'
<1>1. saved # None => \A s \in Schedules : \A t \in Fires[s] :
                        Owed(t)' /\ t <= saved => Accounted(s, t)'
  BY HandledStays DEF FileInv
<1> QED BY <1>1 DEF FileInv, HandledUpTo

\* A step that does not move a process's window or list leaves its part of the
\* invariant as it is.
LEMMA LoopStays ==
  ASSUME NEW p \in Procs, LoopInvOf(p), UNCHANGED origin,
         runs \subseteq runs', reports \subseteq reports',
         pc'[p] = pc[p], previous'[p] = previous[p], now'[p] = now[p],
         todo'[p] = todo[p]
  PROVE  LoopInvOf(p)'
<1>1. HandledUpTo(now[p]) => HandledUpTo(now[p])'
  BY HandledStays DEF HandledUpTo
<1>2. HandledUpTo(previous[p]) => HandledUpTo(previous[p])'
  BY HandledStays DEF HandledUpTo
<1>3. WindowServed(p) => WindowServed(p)'
  BY AccountedStays DEF WindowServed
<1> QED BY <1>1, <1>2, <1>3 DEF LoopInvOf

\* A process that is down knows nothing.
LEMMA DownKnowsNothing ==
  ASSUME NEW p \in Procs, pc'[p] = "down"
  PROVE  LoopInvOf(p)'
BY DEF LoopInvOf

LEMMA BootKeeps ==
  ASSUME IInv, NEW p \in Procs, Boot(p), TypeOK'
  PROVE  FileInv' /\ LoopInv'
<1> USE DEF IInv
<1>1. UNCHANGED <<saved, origin, runs, reports>>
  BY DEF Boot
<1>2. \A q \in Procs : pc[q] = "down"
  BY SchedulerAssumption DEF Boot, LockFree, LockInv, Procs
<1>3. FileInv'
  BY <1>1, FileStays
<1>4. ASSUME NEW q \in Procs, q # p PROVE LoopInvOf(q)'
  <2>1. pc'[q] = "down"
    BY <1>2, <1>4 DEF Boot, TypeOK
  <2> QED BY <2>1, DownKnowsNothing
<1>5. CASE saved # None /\ saved < clock
  <2>1. /\ pc'[p] = "report" /\ previous'[p] = saved /\ now'[p] = clock
        /\ todo'[p] = Missed(saved, clock)
    BY <1>5 DEF Boot, TypeOK
  <2>2. HandledUpTo(previous[p])'
    BY <1>1, <1>5, <2>1, HandledStays DEF FileInv, HandledUpTo
  <2>3. WindowServed(p)'
    BY <2>1 DEF WindowServed, Missed, Window
  <2> QED BY <1>3, <1>4, <2>1, <2>2, <2>3 DEF LoopInv, LoopInvOf
<1>6. CASE ~(saved # None /\ saved < clock)
  <2>1. pc'[p] = "booted" /\ now'[p] = clock
    BY <1>6 DEF Boot, TypeOK
  <2>2. ASSUME NEW s \in Schedules, NEW t \in Fires[s], Owed(t), t <= clock
        PROVE  Accounted(s, t)
    <3>1. saved # None
      BY <2>2 DEF Owed, FileInv
    <3>2. t \in Nat /\ saved \in Nat /\ clock \in Nat
      BY <3>1, SchedulerAssumption DEF TypeOK
    <3>3. t <= saved
      BY <1>6, <2>2, <3>1, <3>2
    <3> QED BY <2>2, <3>1, <3>3 DEF FileInv, HandledUpTo
  <2>3. HandledUpTo(now[p])'
    BY <1>1, <2>1, <2>2, HandledStays DEF HandledUpTo
  <2> QED BY <1>3, <1>4, <2>1, <2>3 DEF LoopInv, LoopInvOf
<1> QED BY <1>5, <1>6

\* Report, CatchUp and Spawn: one entry is added, one schedule leaves the list.
LEMMA EntryKeeps ==
  ASSUME IInv, NEW p \in Procs, NEW s \in Schedules,
         Report(p, s) \/ CatchUp(p, s) \/ Spawn(p, s)
  PROVE  FileInv' /\ LoopInv'
<1> USE DEF IInv
<1>1. /\ UNCHANGED <<pc, previous, now, saved, origin>>
      /\ runs \subseteq runs' /\ reports \subseteq reports'
      /\ todo' = [todo EXCEPT ![p] = @ \ {s}]
      /\ pc[p] \in {"report", "catchup", "tick"}
      /\ \E via \in {"missed", "logged", "catchup", "tick"} : Entry(p, s, via) \in Begun'
  BY DEF Report, CatchUp, Spawn, Detach, Begun
<1>2. FileInv'
  BY <1>1, FileStays
<1>3. ASSUME NEW q \in Procs, q # p PROVE LoopInvOf(q)'
  BY <1>1, <1>3, LoopStays DEF LoopInv, TypeOK
<1>4. LoopInvOf(p)'
  <2>1. LoopInvOf(p)
    BY DEF LoopInv
  <2>2. WindowServed(p) => WindowServed(p)'
    BY <1>1, EntryServes
  <2>3. HandledUpTo(now[p]) => HandledUpTo(now[p])'
    BY <1>1, HandledStays DEF HandledUpTo
  <2>4. HandledUpTo(previous[p]) => HandledUpTo(previous[p])'
    BY <1>1, HandledStays DEF HandledUpTo
  <2> QED BY <1>1, <2>1, <2>2, <2>3, <2>4 DEF LoopInvOf
<1> QED BY <1>2, <1>3, <1>4 DEF LoopInv

\* EndReport and EndCatchUp: start-up goes on with the window handled.
LEMMA EndKeeps ==
  ASSUME IInv, NEW p \in Procs, EndReport(p) \/ EndCatchUp(p)
  PROVE  FileInv' /\ LoopInv'
<1> USE DEF IInv
<1>1. UNCHANGED <<previous, now, saved, origin, runs, reports>>
  BY DEF EndReport, EndCatchUp
<1>2. FileInv'
  BY <1>1, FileStays
<1>3. ASSUME NEW q \in Procs, q # p PROVE LoopInvOf(q)'
  <2>1. pc'[q] = pc[q] /\ todo'[q] = todo[q]
    BY <1>3 DEF EndReport, EndCatchUp, TypeOK
  <2> QED BY <1>1, <2>1, LoopStays DEF LoopInv
<1>4. HandledUpTo(now[p])
  <2>1. CASE EndReport(p)
    BY <2>1, WindowDone DEF EndReport, LoopInv, LoopInvOf
  <2>2. CASE EndCatchUp(p)
    BY <2>2 DEF EndCatchUp, LoopInv, LoopInvOf
  <2> QED BY <2>1, <2>2
<1>5. HandledUpTo(now[p])'
  BY <1>1, <1>4, HandledStays DEF HandledUpTo
<1>6. pc'[p] \in {"catchup", "booted"}
  BY DEF EndReport, EndCatchUp, TypeOK
<1> QED BY <1>2, <1>3, <1>5, <1>6 DEF LoopInv, LoopInvOf

\* SaveBoot and EndTick: the end of the handled window is saved and becomes the
\* start of the next one.
LEMMA SaveKeeps ==
  ASSUME IInv, NEW p \in Procs, SaveBoot(p) \/ EndTick(p)
  PROVE  FileInv' /\ LoopInv'
<1> USE DEF IInv
<1>1. /\ UNCHANGED <<now, todo, runs, reports>> /\ SaveTick(now[p])
      /\ previous' = [previous EXCEPT ![p] = now[p]]
      /\ pc' = [pc EXCEPT ![p] = "asleep"]
      /\ pc[p] # "down"
  BY DEF SaveBoot, EndTick
<1>2. HandledUpTo(now[p])
  <2>1. CASE SaveBoot(p)
    BY <2>1 DEF SaveBoot, LoopInv, LoopInvOf
  <2>2. CASE EndTick(p)
    BY <2>2, WindowDone DEF EndTick, LoopInv, LoopInvOf
  <2> QED BY <2>1, <2>2
<1>3. /\ FileInv'
      /\ \A s \in Schedules : \A t \in Fires[s] :
           Owed(t)' /\ t <= now[p] => Accounted(s, t)'
  BY <1>1, <1>2, Saving
<1>4. ASSUME NEW q \in Procs, q # p PROVE LoopInvOf(q)'
  <2>1. pc'[q] = "down"
    BY <1>1, <1>4, OthersDown DEF TypeOK
  <2> QED BY <2>1, DownKnowsNothing
<1>5. pc'[p] = "asleep" /\ previous'[p] = now[p]
  BY <1>1 DEF TypeOK
<1>6. HandledUpTo(previous[p])'
  BY <1>3, <1>5 DEF HandledUpTo
<1> QED BY <1>3, <1>4, <1>5, <1>6 DEF LoopInv, LoopInvOf

LEMMA WakeKeeps ==
  ASSUME IInv, NEW p \in Procs, Wake(p)
  PROVE  FileInv' /\ LoopInv'
<1> USE DEF IInv
<1>1. UNCHANGED <<previous, saved, origin, runs, reports>>
  BY DEF Wake
<1>2. FileInv'
  BY <1>1, FileStays
<1>3. ASSUME NEW q \in Procs, q # p PROVE LoopInvOf(q)'
  <2>1. pc'[q] = pc[q] /\ now'[q] = now[q] /\ todo'[q] = todo[q]
    BY <1>3 DEF Wake, TypeOK
  <2> QED BY <1>1, <2>1, LoopStays DEF LoopInv
<1>4. pc'[p] = "tick" /\ now'[p] = clock /\ todo'[p] = Due(previous[p], clock)
  BY DEF Wake, TypeOK
<1>5. HandledUpTo(previous[p])'
  BY <1>1, HandledStays DEF Wake, LoopInv, LoopInvOf, HandledUpTo
<1>6. WindowServed(p)'
  BY <1>1, <1>4 DEF WindowServed, Due, Window
<1> QED BY <1>2, <1>3, <1>4, <1>5, <1>6 DEF LoopInv, LoopInvOf

LEMMA CrashKeeps ==
  ASSUME IInv, NEW p \in Procs, Crash(p)
  PROVE  FileInv' /\ LoopInv'
<1> USE DEF IInv
<1>1. UNCHANGED <<saved, origin, runs, reports>>
  BY DEF Crash
<1>2. FileInv'
  BY <1>1, FileStays
<1>3. ASSUME NEW q \in Procs PROVE LoopInvOf(q)'
  <2>1. pc'[q] = "down"
    BY <1>3, OthersDown DEF Crash, TypeOK
  <2> QED BY <2>1, DownKnowsNothing
<1> QED BY <1>2, <1>3 DEF LoopInv

\* Time does not matter to what was handled.
LEMMA ClockKeeps ==
  ASSUME IInv, UNCHANGED <<local, saved, origin, runs, reports>>
  PROVE  FileInv' /\ LoopInv'
<1>1. FileInv'
  BY FileStays DEF IInv
<1>2. LoopInv'
  BY LoopStays DEF IInv, LoopInv, local
<1> QED BY <1>1, <1>2

LEMMA IInvStep == IInv /\ [Next]_vars => IInv'
<1> SUFFICES ASSUME IInv, [Next]_vars, TypeOK' PROVE FileInv' /\ LoopInv'
  BY TypeStep, LockStep DEF IInv
<1>1. ASSUME NEW p \in Procs, Boot(p) PROVE FileInv' /\ LoopInv'
  BY <1>1, BootKeeps
<1>2. ASSUME NEW p \in Procs, Step(p) PROVE FileInv' /\ LoopInv'
  BY <1>2, EntryKeeps, EndKeeps, SaveKeeps, WakeKeeps DEF Step
<1>3. ASSUME NEW p \in Procs, Crash(p) PROVE FileInv' /\ LoopInv'
  BY <1>3, CrashKeeps
<1>4. CASE ClockForward
  BY <1>4, ClockKeeps DEF ClockForward
<1>5. CASE ClockBack
  BY <1>5, ClockKeeps DEF ClockBack
<1>6. CASE UNCHANGED vars
  BY <1>6, ClockKeeps DEF vars, local
<1> QED BY <1>1, <1>2, <1>3, <1>4, <1>5, <1>6 DEF Next

LEMMA IInvInit == Init => IInv
BY TypeInit, SchedulerAssumption
   DEF Init, IInv, LockInv, FileInv, LoopInv, LoopInvOf

LEMMA Invariance == Spec => []IInv
BY IInvInit, IInvStep, PTL DEF Spec

\* Whatever the tick file says was dealt with was dealt with, for every set of
\* schedules and any crashes, failed saves and clock changes: the order
\* "after the tick, not before" of run_forever is enough, given the lock.
THEOREM TickFileIsHonest == Spec => []NothingSilentlySkipped
<1>1. IInv => NothingSilentlySkipped
  BY DEF IInv, FileInv, HandledUpTo, NothingSilentlySkipped
<1> QED BY <1>1, Invariance, PTL

----------------------------------------------------------------------------
(* The refinement *)

\* The occurrences handled so far and the ones the tick file speaks for, as the
\* refinement mapping of Ledger names them.
Handled == {o \in Occurrences : Accounted(o[1], o[2])}
Claimed == {o \in Occurrences : Owed(o[2]) /\ saved # None /\ o[2] <= saved}

LEMMA OccurrenceParts ==
  ASSUME NEW o \in Occurrences
  PROVE  o[1] \in Schedules /\ o[2] \in Fires[o[1]]
BY DEF Occurrences

LEMMA LedgerInit == Init => Ledger!Init
BY DEF Init, Ledger!Init, Accounted, Begun, Owed

\* Steps that leave the tick file alone only add to what was handled.
LEMMA LedgerHandle ==
  ASSUME UNCHANGED <<saved, origin>>, runs \subseteq runs', reports \subseteq reports'
  PROVE  Ledger!Handle
<1>1. Handled \subseteq Handled'
  BY AccountedStays DEF Handled
<1>2. Claimed' = Claimed
  BY DEF Claimed, Owed
<1> QED BY <1>1, <1>2 DEF Ledger!Handle, Handled, Claimed

\* Steps that save a tick change nothing about what was handled, and the saved
\* tick speaks for nothing else.
LEMMA LedgerClaim ==
  ASSUME FileInv', UNCHANGED <<runs, reports>>
  PROVE  Ledger!Claim
<1>1. Handled' = Handled
  BY DEF Handled, Accounted, Begun
<1>2. Claimed' \subseteq Handled'
  BY OccurrenceParts DEF Claimed, Handled, FileInv, HandledUpTo
<1> QED BY <1>1, <1>2 DEF Ledger!Claim, Handled, Claimed

LEMMA LedgerStep ==
  IInv /\ IInv' /\ [Next]_vars =>
    [Ledger!Next]_<<{o \in Occurrences : Accounted(o[1], o[2])},
                   {o \in Occurrences : Owed(o[2]) /\ saved # None /\ o[2] <= saved}>>
<1> SUFFICES ASSUME IInv, IInv', [Next]_vars PROVE Ledger!Next
  OBVIOUS
<1>1. CASE UNCHANGED <<saved, origin>>
  BY <1>1, Grows, LedgerHandle DEF Ledger!Next
<1>2. CASE UNCHANGED <<runs, reports>>
  BY <1>2, LedgerClaim DEF Ledger!Next, IInv
<1>3. UNCHANGED <<saved, origin>> \/ UNCHANGED <<runs, reports>>
  BY DEF Next, Step, Boot, Report, EndReport, CatchUp, EndCatchUp, Detach,
         SaveBoot, Wake, Spawn, EndTick, Crash, ClockForward, ClockBack, vars
<1> QED BY <1>1, <1>2, <1>3

\* The scheduler implements the ledger: the record of what was handled only
\* grows, and the tick file is moved only to what is handled already.
THEOREM SchedulerKeepsLedger == Spec => KeepsLedger
BY LedgerInit, LedgerStep, Invariance, PTL DEF Spec, KeepsLedger, Ledger!Spec
----------------------------------------------------------------------------
(* No occurrence is run twice by ticks *)

\* 1 when P holds, else 0.
Once(P) == IF P THEN 1 ELSE 0

\* A tick under way still has the occurrence of s at t to run.
Pending(s, t) ==
  \E p \in Procs : pc[p] = "tick" /\ s \in todo[p] /\ previous[p] < t /\ t <= now[p]

\* Where the next window of p starts.
NextStart(p) == IF pc[p] = "asleep" THEN previous[p] ELSE now[p]

\* A later tick may come to minute t without the clock being set back: it is
\* still to come, or a live process has not taken it into a window yet.
Ahead(t) == clock < t \/ \E p \in Procs : pc[p] # "down" /\ NextStart(p) < t

\* Runs already spawned for an occurrence, the one on the list and the one the
\* loop may still come to are no more than one for each time the clock passes.
TickInvOf(s, t) ==
  Cardinality(For("tick", s, t)) + Once(Pending(s, t)) + Once(Ahead(t)) <= 1 + backs

TickInv ==
  /\ IsFiniteSet(runs) /\ IsFiniteSet(reports)
  /\ \A s \in Schedules : \A t \in Fires[s] : TickInvOf(s, t)


LEMMA ForFinite ==
  ASSUME IsFiniteSet(runs), IsFiniteSet(reports), NEW via, NEW s, NEW t
  PROVE  IsFiniteSet(For(via, s, t)) /\ Cardinality(For(via, s, t)) \in Nat
<1>1. IsFiniteSet(Begun)
  BY FS_Union DEF Begun
<1>2. For(via, s, t) \subseteq Begun
  BY DEF For
<1> QED BY <1>1, <1>2, FS_Subset, FS_CardinalityType

\* Steps that begin nothing keep the entries of every kind.
LEMMA ForStays ==
  ASSUME UNCHANGED <<runs, reports>>, NEW via, NEW s, NEW t
  PROVE  For(via, s, t)' = For(via, s, t)
BY DEF For, Begun, Covers

LEMMA EntryFields ==
  ASSUME NEW p \in Procs, NEW s \in Schedules, NEW via
  PROVE  /\ Entry(p, s, via).proc = p /\ Entry(p, s, via).sched = s
         /\ Entry(p, s, via).from = previous[p] /\ Entry(p, s, via).upto = now[p]
         /\ Entry(p, s, via).via = via /\ Entry(p, s, via).era = backs
BY DEF Entry

\* A step that runs nothing for the occurrence, and gives it to a tick only
\* when no later one can come to it.
LEMMA TickStays ==
  ASSUME TypeOK, IsFiniteSet(runs), IsFiniteSet(reports),
         NEW s \in Schedules, NEW t \in Fires[s], TickInvOf(s, t),
         For("tick", s, t)' = For("tick", s, t), backs' = backs,
         Pending(s, t)' => Pending(s, t) \/ (Ahead(t) /\ ~Ahead(t)'),
         Ahead(t)' => Ahead(t)
  PROVE  TickInvOf(s, t)'
<1> DEFINE n == Cardinality(For("tick", s, t))
<1>1. n \in Nat /\ backs \in Nat /\ Cardinality(For("tick", s, t)')  = n
  BY ForFinite DEF TypeOK
<1>2. n + Once(Pending(s, t)) + Once(Ahead(t)) <= 1 + backs
  BY DEF TickInvOf
<1>3. Once(Pending(s, t)') + Once(Ahead(t)') <= Once(Pending(s, t)) + Once(Ahead(t))
  BY DEF Once
<1>4. /\ Once(Pending(s, t)) \in Nat /\ Once(Ahead(t)) \in Nat
      /\ Once(Pending(s, t)') \in Nat /\ Once(Ahead(t)') \in Nat
  BY DEF Once
<1> HIDE DEF n
<1>5. n + Once(Pending(s, t)') + Once(Ahead(t)') <= 1 + backs
  BY <1>1, <1>2, <1>3, <1>4
<1> QED BY <1>1, <1>5 DEF TickInvOf, Once

\* Only the process that holds the lock ticks.
LEMMA NoTick ==
  ASSUME NEW p \in Procs, pc'[p] # "tick", \A q \in Procs \ {p} : pc'[q] # "tick",
         NEW s, NEW t
  PROVE  ~Pending(s, t)'
BY DEF Pending

\* What the loop may still come to does not depend on the processes that are down.
LEMMA AheadIs ==
  ASSUME LockInv, NEW p \in Procs, pc[p] # "down", NEW t
  PROVE  Ahead(t) <=> clock < t \/ NextStart(p) < t
BY DEF LockInv, Ahead

LEMMA SpawnKeeps ==
  ASSUME IInv, TickInv, NEW p \in Procs, NEW r \in Schedules, Spawn(p, r),
         NEW s \in Schedules, NEW t \in Fires[s]
  PROVE  TickInvOf(s, t)'
<1> DEFINE e == Entry(p, r, "tick")
<1>1. /\ pc[p] = "tick" /\ r \in todo[p] /\ runs' = runs \cup {e}
      /\ todo' = [todo EXCEPT ![p] = @ \ {r}]
      /\ UNCHANGED <<clock, pc, previous, now, reports, backs>>
  BY DEF Spawn, Detach
<1>2. /\ e.via = "tick" /\ e.sched = r /\ e.from = previous[p] /\ e.upto = now[p]
  BY EntryFields
<1>3. Ahead(t)' <=> Ahead(t)
  BY <1>1 DEF Ahead, NextStart
<1>4. Pending(s, t)' => Pending(s, t)
  BY <1>1 DEF Pending, IInv, TypeOK
<1>5. TickInvOf(s, t)
  BY DEF TickInv
<1>6. CASE ~Covers(e, s, t)
  <2>1. For("tick", s, t)' = For("tick", s, t)
    BY <1>1, <1>6 DEF For, Begun, Covers
  <2> QED BY <1>1, <1>3, <1>4, <1>5, <2>1, TickStays DEF IInv, TickInv
<1>7. CASE Covers(e, s, t)
  <2> DEFINE n == Cardinality(For("tick", s, t))
  <2>1. r = s /\ previous[p] < t /\ t <= now[p]
    BY <1>2, <1>7 DEF Covers
  <2>2. Pending(s, t)
    BY <1>1, <2>1 DEF Pending
  <2>3. ~Pending(s, t)'
    BY <1>1, <2>1 DEF Pending, IInv, LockInv, TypeOK
  <2>4. For("tick", s, t)' = For("tick", s, t) \cup {e}
    BY <1>1, <1>2, <1>7 DEF For, Begun, Covers
  <2>5. n \in Nat /\ IsFiniteSet(For("tick", s, t)) /\ backs \in Nat
    BY ForFinite DEF TickInv, IInv, TypeOK
  <2>6. Cardinality(For("tick", s, t)') <= n + 1 /\ Cardinality(For("tick", s, t)') \in Nat
    <3> HIDE DEF e
    <3>1. Cardinality(For("tick", s, t) \cup {e}) \in {n, n + 1}
      BY <2>5, FS_AddElement
    <3>2. Cardinality(For("tick", s, t)') \in {n, n + 1} /\ n \in Nat
      BY <2>4, <2>5, <3>1
    <3> HIDE DEF n
    <3> QED BY <3>2
  <2>7. n + 1 + Once(Ahead(t)) <= 1 + backs
    BY <1>5, <2>2 DEF TickInvOf, Once
  <2>8. Once(Ahead(t)) \in Nat /\ Once(Ahead(t)') = Once(Ahead(t)) /\ Once(Pending(s, t)') = 0
    BY <1>3, <2>3 DEF Once
  <2> HIDE DEF n, e
  <2>9. Cardinality(For("tick", s, t)') + 0 + Once(Ahead(t)) <= 1 + backs
    BY <2>5, <2>6, <2>7, <2>8
  <2> QED BY <1>1, <2>8, <2>9 DEF TickInvOf, Once
<1> QED BY <1>6, <1>7

LEMMA TickInvStep == IInv /\ TickInv /\ [Next]_vars => TickInv'
<1> SUFFICES ASSUME IInv, TickInv, [Next]_vars PROVE TickInv'
  OBVIOUS
<1>1. IsFiniteSet(runs)' /\ IsFiniteSet(reports)'
  <2>1. runs' = runs \/ \E e : runs' = runs \cup {e}
    BY DEF Next, Step, Boot, Report, EndReport, CatchUp, EndCatchUp, Detach,
           SaveBoot, Wake, Spawn, EndTick, Crash, ClockForward, ClockBack, vars
  <2>2. reports' = reports \/ \E e : reports' = reports \cup {e}
    BY DEF Next, Step, Boot, Report, EndReport, CatchUp, EndCatchUp, Detach,
           SaveBoot, Wake, Spawn, EndTick, Crash, ClockForward, ClockBack, vars
  <2> QED BY <2>1, <2>2, FS_AddElement DEF TickInv
<1> SUFFICES ASSUME NEW s \in Schedules, NEW t \in Fires[s] PROVE TickInvOf(s, t)'
  BY <1>1 DEF TickInv
<1>2. /\ TickInvOf(s, t) /\ TypeOK /\ LockInv
      /\ IsFiniteSet(runs) /\ IsFiniteSet(reports)
  BY DEF TickInv, IInv
<1>3. t \in Nat
  BY SchedulerAssumption
<1>4. ASSUME NEW p \in Procs, Boot(p) PROVE TickInvOf(s, t)'
  <2>1. \A q \in Procs : pc[q] = "down"
    BY <1>2, <1>4, SchedulerAssumption DEF Boot, LockFree, LockInv, Procs
  <2>2. /\ pc'[p] \in {"report", "booted"} /\ \A q \in Procs \ {p} : pc'[q] = "down"
        /\ now'[p] = clock /\ UNCHANGED <<clock, runs, reports, backs>>
    BY <1>2, <1>4, <2>1 DEF Boot, TypeOK
  <2>3. ~Pending(s, t)'
    BY <2>2 DEF Pending
  <2>4. Ahead(t)' => Ahead(t)
    BY <2>2 DEF Ahead, NextStart
  <2> QED BY <1>2, <2>2, <2>3, <2>4, ForStays, TickStays
<1>5. ASSUME NEW p \in Procs,
             \/ EndReport(p) \/ EndCatchUp(p) \/ SaveBoot(p) \/ EndTick(p)
             \/ \E r \in Schedules : Report(p, r) \/ CatchUp(p, r)
      PROVE  TickInvOf(s, t)'
  <2>1. /\ pc[p] # "down" /\ pc'[p] \notin {"tick", "down"}
        /\ NextStart(p)' = NextStart(p) /\ UNCHANGED <<clock, backs>>
        /\ \A q \in Procs \ {p} : pc'[q] = pc[q]
    BY <1>2, <1>5 DEF EndReport, EndCatchUp, SaveBoot, EndTick, Report, CatchUp,
                     Detach, NextStart, TypeOK
  <2>2. \A q \in Procs \ {p} : pc'[q] = "down"
    BY <1>2, <2>1, OthersDown
  <2>3. ~Pending(s, t)'
    BY <2>1, <2>2 DEF Pending
  <2>4. Ahead(t)' => Ahead(t)
    BY <2>1, <2>2 DEF Ahead
  <2>5. For("tick", s, t)' = For("tick", s, t)
    <3>1. CASE EndReport(p) \/ EndCatchUp(p) \/ SaveBoot(p) \/ EndTick(p)
      BY <3>1, ForStays DEF EndReport, EndCatchUp, SaveBoot, EndTick
    <3>2. ASSUME NEW r \in Schedules, Report(p, r) \/ CatchUp(p, r)
          PROVE  For("tick", s, t)' = For("tick", s, t)
      <4>1. PICK via \in {"missed", "logged", "catchup"} : Begun' = Begun \cup {Entry(p, r, via)}
        BY <3>2 DEF Report, CatchUp, Detach, Begun
      <4> QED BY <4>1, EntryFields DEF For, Covers
    <3> QED BY <1>5, <3>1, <3>2
  <2> QED BY <1>2, <2>1, <2>3, <2>4, <2>5, TickStays
<1>6. ASSUME NEW p \in Procs, NEW r \in Schedules, Spawn(p, r) PROVE TickInvOf(s, t)'
  BY <1>6, SpawnKeeps
<1>7. ASSUME NEW p \in Procs, Wake(p) PROVE TickInvOf(s, t)'
  <2>1. /\ pc[p] = "asleep" /\ pc'[p] = "tick" /\ now'[p] = clock
        /\ UNCHANGED <<clock, runs, reports, backs, previous>>
        /\ \A q \in Procs \ {p} : pc'[q] = pc[q]
    BY <1>2, <1>7 DEF Wake, TypeOK
  <2>2. \A q \in Procs \ {p} : pc'[q] = "down"
    BY <1>2, <2>1, OthersDown
  <2>3. clock \in Nat
    BY <1>2 DEF TypeOK
  <2>4. Ahead(t)' <=> clock < t
    BY <2>1, <2>2 DEF Ahead, NextStart
  <2>5. ASSUME Pending(s, t)' PROVE Ahead(t) /\ ~Ahead(t)'
    <3>1. previous[p] < t /\ t <= clock
      BY <2>1, <2>2, <2>5 DEF Pending
    <3> QED BY <1>3, <2>1, <2>3, <2>4, <3>1 DEF Ahead, NextStart
  <2> QED BY <1>2, <2>1, <2>4, <2>5, ForStays, TickStays DEF Ahead
<1>8. ASSUME NEW p \in Procs, Crash(p) PROVE TickInvOf(s, t)'
  <2>1. /\ \A q \in Procs : pc'[q] = "down"
        /\ UNCHANGED <<clock, runs, reports, backs>>
    BY <1>2, <1>8, OthersDown DEF Crash, TypeOK
  <2>2. ~Pending(s, t)' /\ (Ahead(t)' => Ahead(t))
    BY <2>1 DEF Pending, Ahead
  <2> QED BY <1>2, <2>1, <2>2, ForStays, TickStays
<1>9. CASE ClockForward
  <2>1. clock' = clock + 1 /\ clock \in Nat /\ UNCHANGED <<local, runs, reports, backs>>
    BY <1>2, <1>9 DEF ClockForward, TypeOK
  <2>2. Pending(s, t)' <=> Pending(s, t)
    BY <2>1 DEF Pending, local
  <2>3. Ahead(t)' => Ahead(t)
    BY <1>3, <2>1 DEF Ahead, NextStart, local
  <2> QED BY <1>2, <2>1, <2>2, <2>3, ForStays, TickStays
<1>10. CASE ClockBack
  <2>1. backs' = backs + 1 /\ UNCHANGED <<local, runs, reports>> /\ backs \in Nat
    BY <1>2, <1>10 DEF ClockBack, TypeOK
  <2>2. Pending(s, t)' <=> Pending(s, t)
    BY <2>1 DEF Pending, local
  <2>3. For("tick", s, t)' = For("tick", s, t) /\ Cardinality(For("tick", s, t)) \in Nat
    BY <1>2, <2>1, ForStays, ForFinite
  <2> QED BY <1>2, <2>1, <2>2, <2>3 DEF TickInvOf, Once
<1>11. CASE UNCHANGED vars
  <2>1. UNCHANGED <<clock, pc, previous, now, todo, runs, reports, backs>>
    BY <1>11 DEF vars
  <2>2. (Pending(s, t)' <=> Pending(s, t)) /\ (Ahead(t)' <=> Ahead(t))
    BY <2>1 DEF Pending, Ahead, NextStart
  <2> QED BY <1>2, <2>1, <2>2, ForStays, TickStays
<1> QED BY <1>4, <1>5, <1>6, <1>7, <1>8, <1>9, <1>10, <1>11 DEF Next, Step

LEMMA TickInvInit == Init => TickInv
<1> SUFFICES ASSUME Init PROVE TickInv
  OBVIOUS
<1>1. IsFiniteSet(runs) /\ IsFiniteSet(reports)
  BY FS_EmptySet DEF Init
<1>2. ASSUME NEW s \in Schedules, NEW t \in Fires[s] PROVE TickInvOf(s, t)
  <2>1. For("tick", s, t) = {} /\ backs = 0
    BY DEF Init, For, Begun
  <2>2. ~Pending(s, t)
    BY DEF Init, Pending
  <2>3. Cardinality(For("tick", s, t)) = 0
    BY <2>1, FS_EmptySet
  <2> QED BY <2>1, <2>2, <2>3 DEF TickInvOf, Once
<1> QED BY <1>1, <1>2 DEF TickInv

LEMMA TickInvariance == Spec => []TickInv
BY TickInvInit, TickInvStep, Invariance, PTL DEF Spec

\* An occurrence is run by ticks once, and once more for each time the clock was
\* set back, over any crashes, restarts and second processes.
LEMMA TicksRunOnce == Spec => []TickRunsOnce
<1>1. IInv /\ TickInv => TickRunsOnce
  <2> SUFFICES ASSUME IInv, TickInv, NEW s \in Schedules, NEW t \in Fires[s]
               PROVE  Cardinality(For("tick", s, t)) <= 1 + backs
    BY DEF TickRunsOnce
  <2>1. TickInvOf(s, t)
    BY DEF TickInv
  <2>2. Cardinality(For("tick", s, t)) \in Nat /\ backs \in Nat
    BY ForFinite DEF TickInv, IInv, TypeOK
  <2> QED BY <2>1, <2>2 DEF TickInvOf, Once
<1> QED BY <1>1, Invariance, TickInvariance, PTL

----------------------------------------------------------------------------
(* Without a fault, exactly once *)

\* Everything begun lies at or before minute x.
Behind(x) == \A e \in Begun : e.upto <= x

\* The entries that say an occurrence was dealt with.
Deeds == {e \in Begun : e.via \in {"tick", "missed"}}

\* No two of them speak of the same occurrence.
DisjointInv ==
  \A d, e \in Deeds : d.sched = e.sched => d = e \/ d.upto <= e.from \/ e.upto <= d.from

\* A catch-up was reported as missed before it was run.
Missing(e) == [proc |-> e.proc, sched |-> e.sched, from |-> e.from,
               upto |-> e.upto, via |-> "missed", era |-> e.era]
TwinInv == \A e \in runs : e.via = "catchup" => Missing(e) \in reports

\* Where a live process stands: the tick file has the start of its window, and
\* only the schedules it has visited have entries of that window.
MarkInvOf(p) ==
  /\ pc[p] # "down" => previous[p] <= now[p] /\ now[p] <= clock
  /\ pc[p] \in {"report", "catchup", "tick", "asleep"} => saved = previous[p]
  /\ pc[p] = "booted" => Behind(now[p])
  /\ pc[p] = "asleep" => Behind(previous[p])
  /\ pc[p] \in {"report", "catchup", "tick"} =>
       \A e \in Begun :
         \/ e.upto <= previous[p]
         \/ e.upto = now[p] /\ (e.sched \notin todo[p] \/ pc[p] = "catchup")
  /\ pc[p] = "report" =>
       \A s \in Missed(previous[p], now[p]) \ todo[p] : Entry(p, s, "missed") \in reports
  /\ pc[p] = "catchup" => \A s \in todo[p] : Entry(p, s, "missed") \in reports

\* While nobody runs, the tick file is ahead of everything begun.
HaltInv ==
  holder = None =>
    \/ saved = None /\ Begun = {}
    \/ saved # None /\ saved <= clock /\ Behind(saved)

CleanInv ==
  clean => DisjointInv /\ TwinInv /\ HaltInv /\ \A p \in Procs : MarkInvOf(p)

\* A fault is not forgotten.
LEMMA CleanOnlyFalls ==
  ASSUME TypeOK, [Next]_vars, clean'
  PROVE  clean /\ ~ClockBack
BY DEF TypeOK, Next, Step, Boot, Report, EndReport, CatchUp, EndCatchUp, Detach, SaveTick,
       SaveBoot, Wake, Spawn, EndTick, Crash, ClockForward, ClockBack, vars

LEMMA ProcIsNotNone ==
  ASSUME NEW p \in Procs
  PROVE  p # None
BY SchedulerAssumption DEF Procs

\* Steps that begin nothing.
LEMMA DeedsStay ==
  ASSUME UNCHANGED <<runs, reports>>
  PROVE  /\ DisjointInv => DisjointInv'
         /\ TwinInv => TwinInv'
         /\ Begun' = Begun
BY DEF DisjointInv, TwinInv, Deeds, Begun, Missing

LEMMA DownMark ==
  ASSUME NEW p \in Procs, pc'[p] = "down"
  PROVE  MarkInvOf(p)'
BY DEF MarkInvOf

\* The entry of a schedule still on the list speaks of nothing an earlier one
\* spoke of.
LEMMA NewDeed ==
  ASSUME TypeOK, DisjointInv, NEW p \in Procs, MarkInvOf(p), pc[p] \in {"report", "tick"},
         NEW s \in todo[p], NEW via, Begun' = Begun \cup {Entry(p, s, via)}
  PROVE  DisjointInv'
<1> DEFINE new == Entry(p, s, via)
<1>1. s \in Schedules
  BY DEF TypeOK
<1>2. new.sched = s /\ new.from = previous[p]
  BY <1>1, EntryFields
<1>3. \A d \in Begun : d.sched = s => d.upto <= previous[p]
  BY DEF MarkInvOf
<1>4. Deeds' \subseteq Deeds \cup {new} /\ Deeds \subseteq Begun
  BY DEF Deeds
<1> HIDE DEF new
<1>5. ASSUME NEW d \in Deeds', NEW e \in Deeds', d.sched = e.sched
      PROVE  d = e \/ d.upto <= e.from \/ e.upto <= d.from
  <2>1. CASE d \in Deeds /\ e \in Deeds
    BY <1>5, <2>1 DEF DisjointInv
  <2>2. CASE d = new
    BY <1>2, <1>3, <1>4, <1>5, <2>2
  <2>3. CASE e = new
    BY <1>2, <1>3, <1>4, <1>5, <2>3
  <2> QED BY <1>4, <2>1, <2>2, <2>3
<1> QED BY <1>5 DEF DisjointInv

LEMMA CleanBoot ==
  ASSUME IInv, CleanInv, clean, NEW p \in Procs, Boot(p)
  PROVE  CleanInv'
<1> USE DEF IInv
<1>1. \A q \in Procs : pc[q] = "down"
  BY SchedulerAssumption DEF Boot, LockFree, LockInv, Procs
<1>2. /\ UNCHANGED <<runs, reports, saved, clock>> /\ holder = None /\ holder' = p
      /\ now'[p] = clock /\ \A q \in Procs \ {p} : pc'[q] = "down"
  BY <1>1 DEF Boot, LockFree, TypeOK
<1>3. DisjointInv' /\ TwinInv' /\ Begun' = Begun
  BY <1>2, DeedsStay DEF CleanInv
<1>4. HaltInv'
  BY <1>2, ProcIsNotNone DEF HaltInv
<1>5. \/ saved = None /\ Begun = {}
      \/ saved # None /\ saved <= clock /\ Behind(saved)
  BY <1>2 DEF CleanInv, HaltInv
<1>6. clock \in Nat
  BY DEF TypeOK
<1>7. CASE saved # None /\ saved < clock
  <2>1. /\ previous'[p] = saved /\ todo'[p] = Missed(saved, clock) /\ pc'[p] = "report"
        /\ saved \in Nat
    BY <1>7 DEF Boot, TypeOK
  <2>2. MarkInvOf(p)'
    BY <1>2, <1>3, <1>5, <1>6, <1>7, <2>1 DEF MarkInvOf, Behind
  <2> QED BY <1>2, <1>3, <1>4, <2>2, DownMark DEF CleanInv
<1>8. CASE ~(saved # None /\ saved < clock)
  <2>1. pc'[p] = "booted" /\ previous'[p] = clock
    BY <1>8 DEF Boot, TypeOK
  <2>2. Behind(clock)
    BY <1>5, <1>6, <1>8 DEF Behind, TypeOK
  <2>3. MarkInvOf(p)'
    BY <1>2, <1>3, <1>6, <2>1, <2>2 DEF MarkInvOf, Behind
  <2> QED BY <1>2, <1>3, <1>4, <2>3, DownMark DEF CleanInv
<1> QED BY <1>7, <1>8

\* A live process: the others are down, and it holds the lock.
LEMMA CleanStepOf ==
  ASSUME IInv, NEW p \in Procs, pc[p] # "down", holder' = holder,
         \A q \in Procs \ {p} : pc'[q] = pc[q],
         DisjointInv', TwinInv', MarkInvOf(p)'
  PROVE  CleanInv'
<1>1. holder = p /\ holder' # None
  BY ProcIsNotNone DEF IInv, LockInv
<1>2. \A q \in Procs \ {p} : pc'[q] = "down"
  BY OthersDown DEF IInv
<1> QED BY <1>1, <1>2, DownMark DEF CleanInv, HaltInv

LEMMA CleanReport ==
  ASSUME IInv, CleanInv, clean, clean', NEW p \in Procs, NEW s \in Schedules, Report(p, s)
  PROVE  CleanInv'
<1> DEFINE new == Entry(p, s, "missed")
<1>1. /\ pc[p] = "report" /\ s \in todo[p] /\ reports' = reports \cup {new}
      /\ todo' = [todo EXCEPT ![p] = @ \ {s}]
      /\ UNCHANGED <<clock, holder, pc, previous, now, saved, runs, backs>>
  BY DEF Report, IInv, TypeOK
<1>2. Begun' = Begun \cup {new} /\ new.sched = s /\ new.upto = now[p]
  BY <1>1, EntryFields DEF Begun
<1>3. MarkInvOf(p) /\ DisjointInv /\ TwinInv
  BY DEF CleanInv
<1>4. DisjointInv'
  BY <1>1, <1>2, <1>3, NewDeed DEF IInv
<1>5. TwinInv'
  BY <1>1, <1>3 DEF TwinInv, Missing
<1>6. todo'[p] = todo[p] \ {s}
  BY <1>1 DEF IInv, TypeOK
<1>7. MarkInvOf(p)'
  <2>1. \A e \in Begun' : e.upto <= previous[p] \/ (e.upto = now[p] /\ e.sched \notin todo'[p])
    <3> HIDE DEF new
    <3> QED BY <1>1, <1>2, <1>3, <1>6 DEF MarkInvOf
  <2>2. \A r \in Missed(previous[p], now[p]) \ todo'[p] : Entry(p, r, "missed") \in reports'
    BY <1>1, <1>3, <1>6 DEF MarkInvOf
  <2>3. \A r : Entry(p, r, "missed")' = Entry(p, r, "missed")
    BY <1>1 DEF Entry
  <2>4. Missed(previous[p], now[p])' = Missed(previous[p], now[p])
    BY <1>1
  <2> QED BY <1>1, <1>3, <2>1, <2>2, <2>3, <2>4 DEF MarkInvOf
<1> QED BY <1>1, <1>4, <1>5, <1>7, CleanStepOf

LEMMA CleanSpawn ==
  ASSUME IInv, CleanInv, clean, NEW p \in Procs, NEW s \in Schedules, Spawn(p, s)
  PROVE  CleanInv'
<1> DEFINE new == Entry(p, s, "tick")
<1>1. /\ pc[p] = "tick" /\ s \in todo[p] /\ runs' = runs \cup {new}
      /\ todo' = [todo EXCEPT ![p] = @ \ {s}]
      /\ UNCHANGED <<clock, holder, pc, previous, now, saved, reports>>
  BY DEF Spawn, Detach
<1>2. Begun' = Begun \cup {new} /\ new.sched = s /\ new.upto = now[p] /\ new.via = "tick"
  BY <1>1, EntryFields DEF Begun
<1>3. MarkInvOf(p) /\ DisjointInv /\ TwinInv
  BY DEF CleanInv
<1>4. DisjointInv'
  BY <1>1, <1>2, <1>3, NewDeed DEF IInv
<1>5. TwinInv'
  BY <1>1, <1>2, <1>3 DEF TwinInv, Missing
<1>6. todo'[p] = todo[p] \ {s}
  BY <1>1 DEF IInv, TypeOK
<1>7. MarkInvOf(p)'
  <2>1. \A e \in Begun' : e.upto <= previous[p] \/ (e.upto = now[p] /\ e.sched \notin todo'[p])
    <3> HIDE DEF new
    <3> QED BY <1>1, <1>2, <1>3, <1>6 DEF MarkInvOf
  <2> QED BY <1>1, <1>3, <2>1 DEF MarkInvOf
<1> QED BY <1>1, <1>4, <1>5, <1>7, CleanStepOf

LEMMA CleanCatchUp ==
  ASSUME IInv, CleanInv, clean, NEW p \in Procs, NEW s \in Schedules, CatchUp(p, s)
  PROVE  CleanInv'
<1> DEFINE new == Entry(p, s, "catchup")
<1>1. /\ pc[p] = "catchup" /\ s \in todo[p] /\ runs' = runs \cup {new}
      /\ todo' = [todo EXCEPT ![p] = @ \ {s}]
      /\ UNCHANGED <<clock, holder, pc, previous, now, saved, reports, backs>>
  BY DEF CatchUp, Detach
<1>2. Begun' = Begun \cup {new} /\ new.upto = now[p] /\ new.via = "catchup"
  BY <1>1, EntryFields DEF Begun
<1>3. MarkInvOf(p) /\ DisjointInv /\ TwinInv
  BY DEF CleanInv
<1>4. Missing(new) = Entry(p, s, "missed")
  BY EntryFields DEF Missing, Entry
<1>5. Deeds' = Deeds
  <2> HIDE DEF new
  <2> QED BY <1>2 DEF Deeds
<1>6. DisjointInv'
  BY <1>3, <1>5 DEF DisjointInv
<1>7. Entry(p, s, "missed") \in reports
  BY <1>1, <1>3 DEF MarkInvOf
<1>8. TwinInv'
  <2> HIDE DEF new
  <2>1. \A e \in runs' : e.via = "catchup" => Missing(e) \in reports
    BY <1>1, <1>3, <1>4, <1>7 DEF TwinInv
  <2> QED BY <1>1, <2>1 DEF TwinInv, Missing
<1>9. todo'[p] \subseteq todo[p]
  BY <1>1 DEF IInv, TypeOK
<1>10. MarkInvOf(p)'
  <2>1. \A e \in Begun' : e.upto <= previous[p] \/ e.upto = now[p]
    <3> HIDE DEF new
    <3> QED BY <1>1, <1>2, <1>3 DEF MarkInvOf
  <2>2. \A r : Entry(p, r, "missed")' = Entry(p, r, "missed")
    BY <1>1 DEF Entry
  <2> QED BY <1>1, <1>3, <1>9, <2>1, <2>2 DEF MarkInvOf
<1> QED BY <1>1, <1>6, <1>8, <1>10, CleanStepOf

\* EndReport, EndCatchUp, SaveBoot, Wake and EndTick move the window and begin
\* nothing.
LEMMA CleanMove ==
  ASSUME IInv, CleanInv, clean, clean', NEW p \in Procs,
         EndReport(p) \/ EndCatchUp(p) \/ SaveBoot(p) \/ Wake(p) \/ EndTick(p)
  PROVE  CleanInv'
<1> USE DEF IInv
<1>1. /\ UNCHANGED <<clock, holder, runs, reports, backs>> /\ pc[p] # "down"
      /\ \A q \in Procs \ {p} : pc'[q] = pc[q]
  BY DEF EndReport, EndCatchUp, SaveBoot, Wake, EndTick, TypeOK
<1>2. DisjointInv' /\ TwinInv' /\ Begun' = Begun
  BY <1>1, DeedsStay DEF CleanInv
<1>3. MarkInvOf(p)
  BY DEF CleanInv
<1>4. clock \in Nat /\ previous[p] \in Nat /\ now[p] \in Nat
      /\ \A e \in Begun : e.upto \in Nat
  BY DEF TypeOK, Begun, EntriesVia
<1>5. MarkInvOf(p)'
  <2>1. CASE EndReport(p)
    <3>1. \A r : Entry(p, r, "missed")' = Entry(p, r, "missed")
      BY <2>1 DEF Entry, EndReport
    <3>2. UNCHANGED <<previous, now, saved>> /\ pc[p] = "report" /\ todo[p] = {}
          /\ \/ pc'[p] = "booted"
             \/ pc'[p] = "catchup" /\ todo'[p] = Missed(previous[p], now[p])
      BY <2>1 DEF EndReport, TypeOK
    <3>3. Behind(now[p])
      BY <1>3, <1>4, <3>2 DEF MarkInvOf, Behind
    <3> QED BY <1>1, <1>2, <1>3, <3>1, <3>2, <3>3 DEF MarkInvOf, Behind
  <2>2. CASE EndCatchUp(p)
    <3>1. UNCHANGED <<previous, now, saved>> /\ pc[p] = "catchup" /\ pc'[p] = "booted"
      BY <2>2 DEF EndCatchUp, TypeOK
    <3>2. Behind(now[p])
      BY <1>3, <1>4, <3>1 DEF MarkInvOf, Behind
    <3> QED BY <1>1, <1>2, <1>3, <3>1, <3>2 DEF MarkInvOf, Behind
  <2>3. CASE SaveBoot(p) \/ EndTick(p)
    <3>1. /\ UNCHANGED now /\ pc'[p] = "asleep" /\ previous'[p] = now[p] /\ saved' = now[p]
          /\ pc[p] = "booted" \/ (pc[p] = "tick" /\ todo[p] = {})
      BY <2>3 DEF SaveBoot, EndTick, SaveTick, TypeOK
    <3>2. Behind(now[p])
      BY <1>3, <1>4, <3>1 DEF MarkInvOf, Behind
    <3> QED BY <1>1, <1>2, <1>3, <1>4, <3>1, <3>2 DEF MarkInvOf, Behind
  <2>4. CASE Wake(p)
    <3>1. /\ UNCHANGED <<previous, saved>> /\ pc[p] = "asleep" /\ pc'[p] = "tick"
          /\ now'[p] = clock
      BY <2>4 DEF Wake, TypeOK
    <3> QED BY <1>1, <1>2, <1>3, <1>4, <3>1 DEF MarkInvOf, Behind
  <2> QED BY <2>1, <2>2, <2>3, <2>4
<1> QED BY <1>1, <1>2, <1>5, CleanStepOf

\* A process that dies asleep leaves the tick file ahead of everything begun.
LEMMA CleanCrash ==
  ASSUME IInv, CleanInv, clean, clean', NEW p \in Procs, Crash(p)
  PROVE  CleanInv'
<1>1. /\ UNCHANGED <<clock, runs, reports, saved>> /\ pc[p] = "asleep"
      /\ \A q \in Procs : pc'[q] = "down"
  BY OthersDown DEF Crash, IInv, TypeOK
<1>2. DisjointInv' /\ TwinInv' /\ Begun' = Begun
  BY <1>1, DeedsStay DEF CleanInv
<1>3. saved \in Nat /\ saved # None /\ saved <= clock /\ Behind(saved)
  BY <1>1, SchedulerAssumption DEF CleanInv, MarkInvOf, Behind, IInv, TypeOK
<1>4. HaltInv'
  BY <1>1, <1>2, <1>3 DEF HaltInv, Behind
<1> QED BY <1>1, <1>2, <1>4, DownMark DEF CleanInv

\* The clock goes on, or nothing happens.
LEMMA CleanTime ==
  ASSUME IInv, CleanInv, clean, clock' \in Nat, clock <= clock',
         UNCHANGED <<holder, local, saved, runs, reports, backs>>
  PROVE  CleanInv'
<1> USE DEF IInv
<1>1. DisjointInv' /\ TwinInv' /\ Begun' = Begun
  BY DeedsStay DEF CleanInv
<1>2. clock \in Nat /\ saved \in Nat \cup {None} /\ now \in [Procs -> Nat]
  BY DEF TypeOK
<1>3. HaltInv'
  BY <1>1, <1>2 DEF CleanInv, HaltInv, Behind
<1>4. ASSUME NEW p \in Procs PROVE MarkInvOf(p)'
  <2>1. MarkInvOf(p)
    BY DEF CleanInv
  <2>2. \A r : Entry(p, r, "missed")' = Entry(p, r, "missed")
    BY DEF Entry, local
  <2>3. now[p] <= clock => now[p] <= clock'
    BY <1>2
  <2> QED BY <1>1, <2>1, <2>2, <2>3 DEF MarkInvOf, Behind, local
<1> QED BY <1>1, <1>3, <1>4 DEF CleanInv

LEMMA CleanStep == IInv /\ CleanInv /\ [Next]_vars => CleanInv'
<1> SUFFICES ASSUME IInv, CleanInv, [Next]_vars, clean' PROVE CleanInv'
  BY DEF CleanInv
<1>1. clean /\ ~ClockBack
  BY CleanOnlyFalls DEF IInv
<1>2. ASSUME NEW p \in Procs, Boot(p) PROVE CleanInv'
  BY <1>1, <1>2, CleanBoot
<1>3. ASSUME NEW p \in Procs, Step(p) PROVE CleanInv'
  BY <1>1, <1>3, CleanReport, CleanCatchUp, CleanSpawn, CleanMove DEF Step
<1>4. ASSUME NEW p \in Procs, Crash(p) PROVE CleanInv'
  BY <1>1, <1>4, CleanCrash
<1>5. CASE ClockForward
  <2>1. clock' \in Nat /\ clock <= clock'
    BY <1>5 DEF ClockForward, IInv, TypeOK
  <2> QED BY <1>1, <1>5, <2>1, CleanTime DEF ClockForward
<1>6. CASE UNCHANGED vars
  <2>1. clock' \in Nat /\ clock <= clock'
    BY <1>6 DEF vars, IInv, TypeOK
  <2> QED BY <1>1, <1>6, <2>1, CleanTime DEF vars, local
<1> QED BY <1>1, <1>2, <1>3, <1>4, <1>5, <1>6 DEF Next

LEMMA CleanInit == Init => CleanInv
BY DEF Init, CleanInv, DisjointInv, TwinInv, HaltInv, MarkInvOf, Deeds, Begun

LEMMA CleanInvariance == Spec => []CleanInv
BY CleanInit, CleanStep, Invariance, PTL DEF Spec

\* Without a fault an occurrence is run or reported at most once, and a catch-up
\* is run only for a report, and once for each.
LEMMA CleanIsOnce ==
  ASSUME IInv, TickInv, CleanInv
  PROVE  CleanMeansExactlyOnce
<1> SUFFICES ASSUME clean, NEW s \in Schedules, NEW t \in Fires[s]
             PROVE  /\ Cardinality(For("tick", s, t) \cup For("missed", s, t)) <= 1
                    /\ Cardinality(For("catchup", s, t)) <= Cardinality(For("missed", s, t))
  BY DEF CleanMeansExactlyOnce
<1> DEFINE D == For("tick", s, t) \cup For("missed", s, t)
<1>1. /\ IsFiniteSet(For("tick", s, t)) /\ IsFiniteSet(For("missed", s, t))
      /\ IsFiniteSet(For("catchup", s, t))
  BY ForFinite DEF TickInv
<1>2. ASSUME NEW d \in D, NEW e \in D PROVE d = e
  <2>1. /\ d \in Deeds /\ e \in Deeds /\ d.sched = e.sched
        /\ d.from < t /\ t <= d.upto /\ e.from < t /\ t <= e.upto
    BY DEF For, Covers, Deeds
  <2>2. d = e \/ d.upto <= e.from \/ e.upto <= d.from
    BY <2>1 DEF CleanInv, DisjointInv
  <2>3. t \in Nat /\ d.upto \in Nat /\ d.from \in Nat /\ e.upto \in Nat /\ e.from \in Nat
    BY <2>1, SchedulerAssumption DEF IInv, TypeOK, Deeds, Begun, EntriesVia
  <2> QED BY <2>1, <2>2, <2>3
<1>3. Cardinality(D) <= 1
  <2> HIDE DEF D
  <2>1. CASE D = {}
    BY <2>1, FS_EmptySet
  <2>2. CASE D # {}
    <3>1. PICK d : D = {d}
      BY <1>2, <2>2
    <3> QED BY <3>1, FS_Singleton
  <2> QED BY <2>1, <2>2
<1>4. Cardinality(For("catchup", s, t)) <= Cardinality(For("missed", s, t))
  <2> DEFINE twin == [e \in For("catchup", s, t) |-> Missing(e)]
  <2>1. ASSUME NEW e \in For("catchup", s, t)
        PROVE  e \in EntriesVia({"catchup"}) /\ Missing(e) \in For("missed", s, t)
    <3>1. e \in runs /\ e.via = "catchup" /\ Covers(e, s, t)
      BY DEF For, Begun, IInv, TypeOK, EntriesVia
    <3>2. e \in EntriesVia({"catchup"})
      BY <3>1 DEF IInv, TypeOK, EntriesVia
    <3>3. Missing(e) \in reports
      BY <3>1 DEF CleanInv, TwinInv
    <3>4. Missing(e).via = "missed" /\ Covers(Missing(e), s, t)
      BY <3>1 DEF Missing, Covers
    <3> QED BY <3>2, <3>3, <3>4 DEF For, Begun
  <2>2. \A d, e \in EntriesVia({"catchup"}) : Missing(d) = Missing(e) => d = e
    BY DEF Missing, EntriesVia
  <2>3. twin \in Injection(For("catchup", s, t), For("missed", s, t))
    BY <2>1, <2>2 DEF Injection, IsInjective
  <2> QED BY <1>1, <2>3, FS_Injection
<1> QED BY <1>3, <1>4

\* No occurrence is handled twice but for a reason, for every set of schedules,
\* any number of restarts, crashes, failed writes and clock changes: ticks run it
\* once for each time the clock passes it, and without a fault a run and a report
\* of it exclude each other.
THEOREM OccurrencesRunOnce == Spec => []NothingRunsTwice
<1>1. IInv /\ TickInv /\ CleanInv => CleanMeansExactlyOnce
  BY CleanIsOnce
<1> QED BY <1>1, TicksRunOnce, Invariance, TickInvariance, CleanInvariance, PTL
        DEF NothingRunsTwice
==============================================================================
