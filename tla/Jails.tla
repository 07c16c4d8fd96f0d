------------------------------- MODULE Jails -------------------------------
(***************************************************************************)
(* hajimectl's jail-snapshot and jail-rollback: several of them at once,   *)
(* jails that start, stop and write meanwhile, and zfs and jls calls that  *)
(* fail.                                                                   *)
(*                                                                         *)
(* A command is a sequence of calls, each a step; `at` is the next one.    *)
(* jail-snapshot: "name" (the dataset is there, the name is made), "take". *)
(* jail-rollback: "look" (jls), "list" (what would be destroyed), "roll".  *)
(***************************************************************************)
EXTENDS Sequences, Integers, FiniteSets

CONSTANTS
  Jails,        \* JAILS
  Sessions,     \* shells and scripts giving commands
  Reasons,      \* reasons given for snapshots, as name_for cleans them
  None,         \* no command yet
  MaxCommands,  \* bound: commands given
  MaxFaults,    \* bound: calls that fail without need
  MaxSecond,    \* bound: seconds that pass
  MaxVersion    \* bound: writes to the jails' data

ASSUME JailsAssumption ==
  MaxCommands \in Nat /\ MaxFaults \in Nat /\ MaxSecond \in Nat /\ MaxVersion \in Nat

VARIABLES
  created,    \* jails whose dataset is there
  running,    \* jails that run
  data,       \* [Jails -> version of what its dataset holds]
  snaps,      \* [Jails -> snapshots of its dataset, oldest first]
  version,    \* versions written so far
  second,     \* the clock
  at,         \* [Sessions -> its command's next call, or "idle"]
  jail,       \* [Sessions -> the jail its command is about]
  given,      \* [Sessions -> the snapshot it names, <<jail, name>>]
  looked,     \* [Sessions -> jails that jls listed]
  told,       \* [Sessions -> snapshots announced as about to be destroyed]
  commands,   \* commands given
  faults,     \* calls failed
  \* history variables, read by the properties alone
  receipts,   \* snapshots reported as taken, <<jail, name, data>>
  destroyed,  \* snapshots that rollbacks destroyed, <<jail, name>>
  since,      \* [Sessions -> jails started since it looked]
  newer,      \* [Sessions -> snapshots taken since it listed them]
  missed      \* [Sessions -> a call it wanted for saying so failed]

disk == <<created, data, snaps, version>>
session == <<jail, given, looked, told, missed>>
vars == <<disk, running, second, at, session, commands, faults,
          receipts, destroyed, since, newer>>

Names == Reasons \X (0 .. MaxSecond)

----------------------------------------------------------------------------
(* zfs *)

NamesIn(list) == {list[i].name : i \in DOMAIN list}

PositionIn(list, n) == CHOOSE i \in DOMAIN list : list[i].name = n

\* The snapshots of the list after n: what a rollback to n destroys.
NewerThan(list, n) ==
  {list[i].name : i \in (PositionIn(list, n) + 1) .. Len(list)}

----------------------------------------------------------------------------
Init ==
  /\ created \in SUBSET Jails
  /\ running \in SUBSET created
  /\ data = [j \in Jails |-> 0]
  /\ snaps = [j \in Jails |-> <<>>]
  /\ version = 0
  /\ second = 0
  /\ at = [p \in Sessions |-> "idle"]
  /\ jail = [p \in Sessions |-> None]
  /\ given = [p \in Sessions |-> None]
  /\ looked = [p \in Sessions |-> {}]
  /\ told = [p \in Sessions |-> {}]
  /\ missed = [p \in Sessions |-> FALSE]
  /\ commands = 0
  /\ faults = 0
  /\ receipts = {}
  /\ destroyed = {}
  /\ since = [p \in Sessions |-> {}]
  /\ newer = [p \in Sessions |-> {}]

\* A call that could have worked does not.
Fault == faults < MaxFaults /\ faults' = faults + 1

Begin(p, call, j, snapshot) ==
  /\ at[p] = "idle"
  /\ commands < MaxCommands
  /\ commands' = commands + 1
  /\ at' = [at EXCEPT ![p] = call]
  /\ jail' = [jail EXCEPT ![p] = j]
  /\ given' = [given EXCEPT ![p] = snapshot]
  /\ looked' = [looked EXCEPT ![p] = {}]
  /\ told' = [told EXCEPT ![p] = {}]
  /\ missed' = [missed EXCEPT ![p] = FALSE]
  /\ UNCHANGED <<disk, running, second, faults, receipts, destroyed, since, newer>>

\* p makes this call, and goes on to the next or ends.
Call(p, call, next) ==
  /\ at[p] = call
  /\ at' = [at EXCEPT ![p] = next]
  /\ UNCHANGED <<created, version, running, second, jail, commands>>

\* hajimectl jail-snapshot j r.
JailSnapshot(p, j, r) == Begin(p, "name", j, <<j, <<r, second>>>>)

\* jail::snapshot asks whether the dataset is there; name_for stamps the name.
\* The answer "no" is also that of a call that failed.
Name(p) ==
  /\ \/ /\ jail[p] \in created
        /\ Call(p, "name", "take")
        /\ given' = [given EXCEPT ![p] = <<jail[p], <<@[2][1], second>>>>]
        /\ UNCHANGED faults
     \/ /\ Call(p, "name", "idle")
        /\ \/ jail[p] \notin created /\ UNCHANGED faults
           \/ jail[p] \in created /\ Fault
        /\ UNCHANGED given
  /\ UNCHANGED <<data, snaps, looked, told, missed, receipts, destroyed, since, newer>>

Taken(p) == [name |-> given[p][2], data |-> data[jail[p]]]

\* A snapshot that zfs refused, or failed to take, is reported all the same.
Take_Unchecked(p) ==
  /\ Call(p, "take", "idle")
  /\ receipts' = receipts \cup {<<jail[p], given[p][2], data[jail[p]]>>}
  /\ \/ /\ given[p][2] \notin NamesIn(snaps[jail[p]])
        /\ snaps' = [snaps EXCEPT ![jail[p]] = Append(@, Taken(p))]
        /\ newer' = [q \in Sessions |-> newer[q] \cup {<<jail[p], given[p][2]>>}]
        /\ UNCHANGED faults
     \/ /\ UNCHANGED <<snaps, newer>>
        /\ \/ given[p][2] \in NamesIn(snaps[jail[p]]) /\ UNCHANGED faults
           \/ Fault
  /\ UNCHANGED <<data, given, looked, told, missed, destroyed, since>>

\* zfs snapshot, which refuses a name that is taken.
Take(p) ==
  /\ Call(p, "take", "idle")
  /\ \/ /\ jail[p] \in created
        /\ given[p][2] \notin NamesIn(snaps[jail[p]])
        /\ snaps' = [snaps EXCEPT ![jail[p]] = Append(@, Taken(p))]
        /\ receipts' = receipts \cup {<<jail[p], given[p][2], data[jail[p]]>>}
        /\ newer' = [q \in Sessions |-> newer[q] \cup {<<jail[p], given[p][2]>>}]
        /\ UNCHANGED faults
     \/ /\ UNCHANGED <<snaps, receipts, newer>>
        /\ \/ /\ jail[p] \notin created \/ given[p][2] \in NamesIn(snaps[jail[p]])
              /\ UNCHANGED faults
           \/ Fault
  /\ UNCHANGED <<data, given, looked, told, missed, destroyed, since>>

\* hajimectl jail-rollback j s, with s a snapshot of any jail; a bare name is
\* taken as one of j's.
JailRollback(p, j, s) == Begin(p, "look", j, s)

\* jail::running: without it nothing is done.
Look(p) ==
  /\ \/ /\ Call(p, "look", "list")
        /\ looked' = [looked EXCEPT ![p] = running]
        /\ since' = [since EXCEPT ![p] = {}]
        /\ UNCHANGED faults
     \/ /\ Call(p, "look", "idle")
        /\ Fault
        /\ UNCHANGED <<looked, since>>
  /\ UNCHANGED <<data, snaps, given, told, missed, receipts, destroyed, newer>>

\* What is said to be lost, all but the first of it.
Doomed_ButOne(list, n) ==
  {list[i].name : i \in (PositionIn(list, n) + 2) .. Len(list)}

\* What is said to be lost: the listed snapshots after n.
Doomed(list, n) ==
  {list[i].name : i \in (PositionIn(list, n) + 1) .. Len(list)}

\* Whether s, named to a command about j, is on the list of j's snapshots.
Listed(j, s) == s[1] = j /\ s[2] \in NamesIn(snaps[j])

\* What will be lost is said, if the list can be had and s is on it.  It is
\* asked in three calls: zpool for the dataset to list, zfs for the list, and
\* zpool again for the full name of s (Jail::dataset).  A zpool that fails makes
\* the pool "zroot", where there is nothing of these jails; and whichever
\* fails, nothing is said, and it goes on.
List(p) ==
  /\ Call(p, "list", "roll")
  /\ \/ /\ told' = [told EXCEPT ![p] =
             IF jail[p] \in created /\ Listed(jail[p], given[p])
             THEN {jail[p]} \X Doomed(snaps[jail[p]], given[p][2])
             ELSE {}]
        /\ UNCHANGED <<missed, faults>>
     \/ /\ jail[p] \in created
        /\ Fault
        /\ missed' = [missed EXCEPT ![p] = TRUE]
        /\ UNCHANGED told
  /\ newer' = [newer EXCEPT ![p] = {}]
  /\ UNCHANGED <<data, snaps, given, looked, receipts, destroyed, since>>

\* jail::rollback refuses a jail that was listed as running, and a snapshot of
\* another dataset.
Refused_AnyDataset(p) == jail[p] \in looked[p]

Refused(p) == jail[p] \in looked[p] \/ given[p][1] # jail[p]

\* zfs rollback -r: what is newer goes.
Roll(p) ==
  LET j == given[p][1]
      n == given[p][2]
      i == PositionIn(snaps[j], n)
  IN  /\ Call(p, "roll", "idle")
      /\ \/ /\ ~Refused(p)
            /\ n \in NamesIn(snaps[j])
            /\ data' = [data EXCEPT ![j] = snaps[j][i].data]
            /\ snaps' = [snaps EXCEPT ![j] = SubSeq(@, 1, i)]
            /\ destroyed' = destroyed \cup ({j} \X NewerThan(snaps[j], n))
            /\ UNCHANGED faults
         \/ /\ UNCHANGED <<data, snaps, destroyed>>
            /\ \/ Refused(p) /\ UNCHANGED faults
               \/ ~Refused(p) /\ n \notin NamesIn(snaps[j]) /\ UNCHANGED faults
               \/ ~Refused(p) /\ n \in NamesIn(snaps[j]) /\ Fault
      /\ UNCHANGED <<given, looked, told, missed, receipts, since, newer>>

\* service jail start.
StartJail(j) ==
  /\ j \in created \ running
  /\ running' = running \cup {j}
  /\ since' = [p \in Sessions |-> since[p] \cup {j}]
  /\ UNCHANGED <<disk, second, at, session, commands, faults, receipts, destroyed, newer>>

StopJail(j) ==
  /\ j \in running
  /\ running' = running \ {j}
  /\ UNCHANGED <<disk, second, at, session, commands, faults,
                 receipts, destroyed, since, newer>>

\* What runs in a jail writes.
Write(j) ==
  /\ j \in running
  /\ version < MaxVersion
  /\ version' = version + 1
  /\ data' = [data EXCEPT ![j] = version + 1]
  /\ UNCHANGED <<created, snaps, running, second, at, session, commands, faults,
                 receipts, destroyed, since, newer>>

Tick ==
  /\ second < MaxSecond
  /\ second' = second + 1
  /\ UNCHANGED <<disk, running, at, session, commands, faults,
                 receipts, destroyed, since, newer>>

Next ==
  \/ \E p \in Sessions :
       \/ \E j \in Jails, r \in Reasons : JailSnapshot(p, j, r)
       \/ \E j, d \in Jails : \E n \in UNION {NamesIn(snaps[k]) : k \in Jails} :
            JailRollback(p, j, <<d, n>>)
       \/ Name(p) \/ Take(p)
       \/ Look(p) \/ List(p) \/ Roll(p)
  \/ \E j \in Jails : StartJail(j) \/ StopJail(j) \/ Write(j)
  \/ Tick

Spec == Init /\ [][Next]_vars

----------------------------------------------------------------------------
(* Properties *)

\* Types; names are used once in a dataset, only what is created runs or has
\* snapshots, and only a loss in the command's own jail is announced.
TypeOK ==
  /\ created \subseteq Jails /\ running \subseteq created
  /\ data \in [Jails -> 0 .. version]
  /\ snaps \in [Jails -> Seq([name : Names, data : 0 .. version])]
  /\ version \in 0 .. MaxVersion /\ second \in 0 .. MaxSecond
  /\ at \in [Sessions -> {"idle", "name", "take", "look", "list", "roll"}]
  /\ jail \in [Sessions -> Jails \cup {None}]
  /\ given \in [Sessions -> (Jails \X Names) \cup {None}]
  /\ \A p \in Sessions : at[p] # "idle" => jail[p] \in Jails /\ given[p] \in Jails \X Names
  /\ looked \in [Sessions -> SUBSET Jails]
  /\ told \in [Sessions -> SUBSET (Jails \X Names)]
  /\ \A p \in Sessions : told[p] # {} => given[p][1] = jail[p]
  /\ missed \in [Sessions -> BOOLEAN]
  /\ \A p \in Sessions : at[p] \in {"look", "list"} => told[p] = {} /\ ~missed[p]
  /\ \A p \in Sessions : missed[p] => told[p] = {}
  /\ commands \in 0 .. MaxCommands /\ faults \in 0 .. MaxFaults
  /\ receipts \subseteq Jails \X Names \X (0 .. version)
  /\ destroyed \subseteq Jails \X Names
  /\ since \in [Sessions -> SUBSET Jails]
  /\ newer \in [Sessions -> SUBSET (Jails \X Names)]
  /\ \A j \in Jails : snaps[j] # <<>> => j \in created
  /\ \A j \in Jails : \A i, k \in DOMAIN snaps[j] :
       snaps[j][i].name = snaps[j][k].name => i = k

\* A jail's dataset goes back in this step: its data is older than it was, or a
\* snapshot of it is gone.
GoesBack(j) == data'[j] < data[j] \/ Len(snaps'[j]) < Len(snaps[j])

\* A dataset goes back only by a rollback of its own jail, and only when the
\* jail did not run as the command looked: under a running jail it can happen
\* only when the jail was started since (jail::rollback; "the jail is required
\* to be stopped first").
RollsBackOnlyStopped ==
  [][\A j \in Jails : GoesBack(j) =>
       \E p \in Sessions :
         /\ at[p] = "roll" /\ at'[p] = "idle"
         /\ jail[p] = j
         /\ j \in running => j \in since[p]]_vars

\* "Say what will be lost before doing it" (hajimectl's main.rs:303): a rollback
\* that destroys a snapshot announced it, unless the snapshot was taken since it
\* listed them, or one of its zpool and zfs calls failed just then; it then
\* announced nothing at all.  No announcement is of a part.
LossIsAnnounced ==
  [][\A s \in destroyed' \ destroyed :
       \E p \in Sessions :
         /\ at[p] = "roll" /\ at'[p] = "idle"
         /\ s \in told[p] \cup newer[p] \/ (missed[p] /\ told[p] = {})]_vars

\* "Reporting success for a snapshot that was never taken is the failure this
\* whole module exists to prevent" (jail.rs:178-179): what was reported as taken is
\* there, with the data of its moment, until a rollback destroys it.
ReceiptsAreTrue ==
  \A r \in receipts :
    \/ [name |-> r[2], data |-> r[3]] \in {snaps[r[1]][i] : i \in DOMAIN snaps[r[1]]}
    \/ <<r[1], r[2]>> \in destroyed
=============================================================================
