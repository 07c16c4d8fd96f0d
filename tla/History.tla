------------------------------ MODULE History ------------------------------
(***************************************************************************)
(* The run history of hajime-core: one JSON line per run, appended under a *)
(* mutex by the runs of one process and read back whole by /api/history,   *)
(* over full disks, killed processes and power cuts.                       *)
(*                                                                         *)
(* The file is a sequence of pieces: the text of a record, or what a cut   *)
(* write left of it, and line ends.  writeln! on a File is two writes, the *)
(* text and then the line end.                                             *)
(***************************************************************************)
EXTENDS Sequences, Integers, FiniteSets, Functions

CONSTANTS
  Records,    \* runs that finish, each with the record it appends
  NewLine,    \* the line end
  Faults,     \* what may go wrong, of "full", "kill" and "power"
  MaxFaults   \* bound: faults in a behaviour

\* How a write can leave the text of a record: all of it; a beginning of it; or
\* a beginning that ends inside a character of several bytes.
Cuts == {"torn", "broken"}
Texts == [rec : Records, cut : {"whole"} \cup Cuts]

ASSUME HistoryAssumption ==
  /\ NewLine \notin Texts
  /\ Faults \subseteq {"full", "kill", "power"}
  /\ MaxFaults \in Nat

VARIABLES
  file,     \* the history file
  pc,       \* [Records -> where the append of a record stands]
  lock,     \* the records whose appends hold the mutex
  \* history variable, read by the properties and the bound alone
  faults    \* [kind of fault -> how often it happened]

vars == <<file, pc, lock, faults>>

May(kind) == kind \in Faults /\ faults["full"] + faults["kill"] + faults["power"] < MaxFaults
Happened(kind) == faults' = [faults EXCEPT ![kind] = @ + 1]

Whole(r) == [rec |-> r, cut |-> "whole"]

----------------------------------------------------------------------------
Init ==
  /\ file = <<>>
  /\ pc = [r \in Records |-> "ready"]
  /\ lock = {}
  /\ faults = [kind \in {"full", "kill", "power"} |-> 0]

\* No mutex around the append.
Unlocked_Always == TRUE

\* History.lock.
Unlocked == lock = {}

\* append: the lock is taken and the file opened for appending.
Open(r) ==
  /\ pc[r] = "ready"
  /\ Unlocked
  /\ lock' = lock \cup {r}
  /\ pc' = [pc EXCEPT ![r] = "text"]
  /\ UNCHANGED <<file, faults>>

\* The file is opened to be written from its start.
WriteText_Truncates(r) ==
  /\ pc[r] = "text"
  /\ file' = <<Whole(r)>>
  /\ pc' = [pc EXCEPT ![r] = "newline"]
  /\ UNCHANGED <<lock, faults>>

\* The text of the record is written.
WriteText(r) ==
  /\ pc[r] = "text"
  /\ file' = Append(file, Whole(r))
  /\ pc' = [pc EXCEPT ![r] = "newline"]
  /\ UNCHANGED <<lock, faults>>

\* The line end is written, and append returns.
WriteNewLine(r) ==
  /\ pc[r] = "newline"
  /\ file' = Append(file, NewLine)
  /\ pc' = [pc EXCEPT ![r] = "kept"]
  /\ lock' = lock \ {r}
  /\ UNCHANGED faults

\* What a fault in the middle of a write adds to the file.
CutShort(r) ==
  IF pc[r] = "text"
  THEN {file} \cup {Append(file, [rec |-> r, cut |-> c]) : c \in Cuts}
  ELSE {file}

\* A write fails (the disk is full), whatever part of it was written: the
\* error goes to the log, the record is given up and the service goes on.
WriteFails(r) ==
  /\ May("full")
  /\ pc[r] \in {"text", "newline"}
  /\ file' \in CutShort(r)
  /\ pc' = [pc EXCEPT ![r] = "lost"]
  /\ lock' = lock \ {r}
  /\ Happened("full")

\* After a kill or a power cut: the appends under way are gone, and so is the
\* mutex with the process.
Restarted ==
  /\ pc' = [r \in Records |-> IF pc[r] \in {"text", "newline"} THEN "lost" ELSE pc[r]]
  /\ lock' = {}

\* The process is killed while an append is under way, and started again.
Kill ==
  /\ May("kill")
  /\ \E r \in lock : file' \in CutShort(r)
  /\ Happened("kill")
  /\ Restarted

\* The power goes: append flushes and does not sync, so the file comes back
\* with any beginning of it, its last text perhaps cut.
PowerCut ==
  /\ May("power")
  /\ Happened("power")
  /\ \E n \in 0..Len(file) :
       \/ file' = SubSeq(file, 1, n)
       \/ /\ n > 0
          /\ file[n] \in Texts /\ file[n].cut = "whole"
          /\ \E c \in Cuts :
               file' = [SubSeq(file, 1, n) EXCEPT ![n].cut = c]
  /\ Restarted

Next ==
  \/ \E r \in Records : Open(r) \/ WriteText(r) \/ WriteNewLine(r) \/ WriteFails(r)
  \/ Kill
  \/ PowerCut

Spec == Init /\ [][Next]_vars

----------------------------------------------------------------------------
(* Reading the file back *)

\* The read fails as a whole when some line is not UTF-8.
Readable_All(i) ==
  \A j \in DOMAIN file : file[j] # NewLine => file[j].cut # "broken"

\* lines().map_while(Result::ok): reading ends at the first line that is not
\* UTF-8, so the piece at i is reached if none before it is broken.
Readable(i) ==
  \A j \in 1..i : file[j] # NewLine => file[j].cut # "broken"

\* The piece at i is alone on its line.
Alone(i) ==
  /\ i = 1 \/ file[i - 1] = NewLine
  /\ i = Len(file) \/ file[i + 1] = NewLine

\* read_all: the records a reader sees now.  A line parses when it holds one
\* text, whole; any other line is skipped.
Visible ==
  {r \in Records : \E i \in DOMAIN file :
     file[i] = Whole(r) /\ Alone(i) /\ Readable(i)}

----------------------------------------------------------------------------
(* Properties *)

Kept == {r \in Records : pc[r] = "kept"}

\* Records whose append returned without an error and whose text is all there.
Intact == {r \in Kept : \E i \in DOMAIN file : file[i] = Whole(r)}

\* Records that come after a text cut inside a character.
Behind ==
  {r \in Records : \E i, j \in DOMAIN file :
     file[i] = Whole(r) /\ j < i /\ file[j] # NewLine /\ file[j].cut = "broken"}

\* Types; and the file only ever ends in the middle of a line while an append
\* is under way or after a fault.
TypeOK ==
  /\ file \in Seq(Texts \cup {NewLine})
  /\ pc \in [Records -> {"ready", "text", "newline", "kept", "lost"}]
  /\ lock = {r \in Records : pc[r] \in {"text", "newline"}}
  /\ faults \in [{"full", "kill", "power"} -> Nat]
  /\ file # <<>> /\ file[Len(file)] # NewLine =>
       (\E kind \in Faults : faults[kind] > 0) \/ \E r \in Records : pc[r] = "newline"

\* A write cut at a character boundary hides at most one kept record, the next
\* one appended, and a power cut at most two, that one and the one whose line
\* end it took; with no fault every record is read, however many runs finish
\* together (History::append).  Behind a cut inside a character nothing is read
\* any more (the lines end there), and before it no more is lost than by others.
FaultHidesFew ==
  Cardinality((Intact \ Visible) \ Behind)
    <= faults["full"] + faults["kill"] + 2 * faults["power"]

\* A record a reader has seen stays in sight until a power cut, but for the one
\* that ends the file without a line end, which the next append runs into.
SeenStaysSeen ==
  [][\A r \in Visible :
       \/ r \in Visible'
       \/ faults'["power"] # faults["power"]
       \/ file[Len(file)] = Whole(r)]_vars

\* "a crash costs at most the run in flight" (history.rs:8): a record whose
\* append returned, and which is all there, is read.  It does not hold of the
\* code.
CrashCostsOnlyTheRunInFlight == Intact \subseteq Visible
=============================================================================
