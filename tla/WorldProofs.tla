---------------------------- MODULE WorldProofs ----------------------------
(***************************************************************************)
(* Proofs about what stands on the world model, for every table of services *)
(* and every budget.  Doctor: its plans can be followed one command at a   *)
(* time, and it gives up exactly when it has to.  Hajimectl: commands do as *)
(* they say, exit codes are honest, the planner's veto holds, and the order *)
(* of the table protects, for any number of commands at once.              *)
(***************************************************************************)
EXTENDS Doctor, Hajimectl, FiniteSetTheorems, SequenceTheorems, WellFoundedInduction, TLAPS

----------------------------------------------------------------------------
(* The sum that MemoryOf computes *)

\* The element that the fold takes first, and one step of its recursion.
First(S) == CHOOSE s \in S : TRUE
Summed(g, S) == IF S = {} THEN 0 ELSE Mb[First(S)] + g[S \ {First(S)}]

\* g is the recursive function that the fold over T defines.
Adds(g, T) == g = [S \in SUBSET T |-> Summed(g, S)]

\* There are finitely many services, so that sets of them can be compared.
LEMMA FewServices == IsFiniteSet(Services)
<1>1. StartOrder \in [1..Len(StartOrder) -> Services] /\ Len(StartOrder) \in Nat
  BY WorldAssumption
<1>2. StartOrder \in Surjection(1..Len(StartOrder), Services)
  BY <1>1 DEF Surjection, Services, Range
<1>3. IsFiniteSet(1..Len(StartOrder))
  BY <1>1, FS_Interval
<1> QED BY <1>2, <1>3, FS_Surjection

\* Of several sets of services one is smallest.
LEMMA Smallest ==
  ASSUME NEW Q, Q # {}, \A S \in Q : S \in SUBSET Services
  PROVE  \E S \in Q : \A T \in Q : T \subseteq S => T = S
<1>1. FiniteSubsetsOf(Services) = SUBSET Services
  BY FewServices, FS_FiniteSubsetsOfFinite
<1>2. IsWellFoundedOn(StrictSubsetOrdering(Services), SUBSET Services)
  BY <1>1, FS_StrictSubsetOrderingWellFounded
<1>3. PICK S \in Q : \A T \in Q : ~(<<T, S>> \in StrictSubsetOrdering(Services))
  <2>1. Q \subseteq SUBSET Services
    OBVIOUS
  <2> QED BY <1>2, <2>1, WFMin
<1>4. ASSUME NEW T \in Q, T \subseteq S, T # S
      PROVE  FALSE
  <2>1. <<T, S>> \in (SUBSET Services) \X (SUBSET Services)
    OBVIOUS
  <2>2. <<T, S>>[1] = T /\ <<T, S>>[2] = S
    OBVIOUS
  <2>3. <<T, S>> \in StrictSubsetOrdering(Services)
    BY <1>4, <2>1, <2>2 DEF StrictSubsetOrdering
  <2> QED BY <1>3, <2>3
<1> QED BY <1>4

LEMMA FirstIsIn == ASSUME NEW S, S # {} PROVE First(S) \in S
BY DEF First

\* Two such functions agree where both are defined.
LEMMA AddsAgree ==
  ASSUME NEW T \in SUBSET Services, NEW U \in SUBSET Services, NEW g, NEW h,
         Adds(g, T), Adds(h, U)
  PROVE  \A S \in (SUBSET T) \cap (SUBSET U) : g[S] = h[S]
<1> DEFINE Q == {S \in (SUBSET T) \cap (SUBSET U) : g[S] # h[S]}
<1> SUFFICES ASSUME Q # {} PROVE FALSE
  OBVIOUS
<1>0. \A S \in Q : S \in SUBSET Services
  OBVIOUS
<1> HIDE DEF Q
<1>1. PICK S \in Q : \A R \in Q : R \subseteq S => R = S
  BY <1>0, Smallest
<1> USE DEF Q
<1>2. S \in SUBSET T /\ S \in SUBSET U /\ g[S] # h[S]
  OBVIOUS
<1>3. g[S] = Summed(g, S) /\ h[S] = Summed(h, S)
  BY <1>2 DEF Adds
<1>4. S # {}
  BY <1>2, <1>3 DEF Summed
<1> DEFINE R == S \ {First(S)}
<1>5. R \in (SUBSET T) \cap (SUBSET U) /\ R \subseteq S /\ R # S
  BY <1>2, <1>4, FirstIsIn
<1>6. g[R] = h[R]
  BY <1>1, <1>5
<1> QED BY <1>2, <1>3, <1>6 DEF Summed

LEMMA MemoryIsAFold ==
  ASSUME NEW T
  PROVE  MemoryOf(T) = (CHOOSE g : Adds(g, T))[T]
BY DEF MemoryOf, MapThenSumSet, MapThenFoldSet, Adds, Summed, First

\* What MemoryOf is of a set for which there is such a function.
LEMMA MemoryFrom ==
  ASSUME NEW T \in SUBSET Services, NEW g, Adds(g, T), NEW S \in SUBSET T,
         \E h : Adds(h, S)
  PROVE  MemoryOf(S) = g[S]
<1> DEFINE h == CHOOSE h : Adds(h, S)
<1>1. Adds(h, S)
  OBVIOUS
<1>2. MemoryOf(S) = h[S]
  BY MemoryIsAFold
<1> HIDE DEF h
<1> QED BY <1>1, <1>2, AddsAgree

\* There is one for every set of services.
LEMMA AddsExists == \A T \in SUBSET Services : \E g : Adds(g, T)
<1> DEFINE Q == {T \in SUBSET Services : ~\E g : Adds(g, T)}
<1> SUFFICES ASSUME Q # {} PROVE FALSE
  OBVIOUS
<1>0. \A S \in Q : S \in SUBSET Services
  OBVIOUS
<1> HIDE DEF Q
<1>1. PICK T \in Q : \A S \in Q : S \subseteq T => S = T
  BY <1>0, Smallest
<1> USE DEF Q
<1>2. T \in SUBSET Services /\ ~\E g : Adds(g, T)
  OBVIOUS
<1>3. \A S \in SUBSET T : S # T => \E h : Adds(h, S)
  BY <1>1, <1>2
<1> DEFINE g == [S \in SUBSET T |-> IF S = {} THEN 0
                                    ELSE Mb[First(S)] + MemoryOf(S \ {First(S)})]
<1>4. ASSUME NEW S \in SUBSET T, S # {}
      PROVE  g[S \ {First(S)}] = MemoryOf(S \ {First(S)})
  <2> DEFINE R == S \ {First(S)}
  <2>1. R \in SUBSET T /\ R # T
    BY <1>4, FirstIsIn
  <2>2. PICK h : Adds(h, R)
    BY <1>3, <2>1
  <2>3. MemoryOf(R) = h[R]
    BY <1>2, <2>1, <2>2, MemoryFrom
  <2>4. h[R] = Summed(h, R)
    BY <2>2 DEF Adds
  <2>5. CASE R = {}
    BY <2>1, <2>3, <2>4, <2>5 DEF Summed
  <2>6. CASE R # {}
    <3> DEFINE P == R \ {First(R)}
    <3>1. P \in SUBSET R /\ P \in SUBSET T /\ P # T
      BY <2>1, <2>6, FirstIsIn
    <3>2. \E f : Adds(f, P)
      BY <1>3, <3>1
    <3>3. MemoryOf(P) = h[P]
      BY <1>2, <2>1, <2>2, <3>1, <3>2, MemoryFrom
    <3>4. MemoryOf(R) = Mb[First(R)] + MemoryOf(P)
      BY <2>3, <2>4, <2>6, <3>3 DEF Summed
    <3>5. g[R] = Mb[First(R)] + MemoryOf(P)
      BY <2>1, <2>6
    <3> QED BY <3>4, <3>5
  <2> QED BY <2>5, <2>6
<1>5. Adds(g, T)
  BY <1>4 DEF Adds, Summed
<1> QED BY <1>2, <1>5

\* The equations of the sum.
LEMMA MemoryEquations ==
  /\ MemoryOf({}) = 0
  /\ \A S \in SUBSET Services :
       S # {} => MemoryOf(S) = Mb[First(S)] + MemoryOf(S \ {First(S)})
<1>1. ASSUME NEW S \in SUBSET Services
      PROVE  \E g : Adds(g, S) /\ MemoryOf(S) = Summed(g, S)
  <2>1. PICK g : Adds(g, S)
    BY AddsExists
  <2>2. MemoryOf(S) = g[S]
    BY <2>1, MemoryFrom
  <2> QED BY <2>1, <2>2 DEF Adds
<1>2. MemoryOf({}) = 0
  BY <1>1 DEF Summed
<1>3. ASSUME NEW S \in SUBSET Services, S # {}
      PROVE  MemoryOf(S) = Mb[First(S)] + MemoryOf(S \ {First(S)})
  <2> DEFINE R == S \ {First(S)}
  <2>1. PICK g : Adds(g, S) /\ MemoryOf(S) = Summed(g, S)
    BY <1>1
  <2>2. R \in SUBSET S /\ R \in SUBSET Services
    OBVIOUS
  <2>3. MemoryOf(R) = g[R]
    BY <2>1, <2>2, AddsExists, MemoryFrom
  <2> QED BY <1>3, <2>1, <2>3 DEF Summed
<1> QED BY <1>2, <1>3

\* Memory is a number.
LEMMA MemoryType == \A S \in SUBSET Services : MemoryOf(S) \in Nat
<1> DEFINE Q == {S \in SUBSET Services : MemoryOf(S) \notin Nat}
<1> SUFFICES ASSUME Q # {} PROVE FALSE
  OBVIOUS
<1>0. \A S \in Q : S \in SUBSET Services
  OBVIOUS
<1> HIDE DEF Q
<1>1. PICK S \in Q : \A T \in Q : T \subseteq S => T = S
  BY <1>0, Smallest
<1> USE DEF Q
<1>2. S \in SUBSET Services /\ MemoryOf(S) \notin Nat
  OBVIOUS
<1>3. S # {}
  BY <1>2, MemoryEquations
<1> DEFINE R == S \ {First(S)}
<1>4. First(S) \in Services /\ R \in SUBSET Services /\ R \subseteq S /\ R # S
  BY <1>2, <1>3, FirstIsIn
<1>5. MemoryOf(R) \in Nat /\ Mb[First(S)] \in Nat
  BY <1>1, <1>4, WorldAssumption
<1> QED BY <1>2, <1>3, <1>5, MemoryEquations

\* Any service can be taken out of the sum.
LEMMA MemoryWithout ==
  \A S \in SUBSET Services : \A s \in S : MemoryOf(S) = Mb[s] + MemoryOf(S \ {s})
<1> DEFINE Exact(S) == \A s \in S : MemoryOf(S) = Mb[s] + MemoryOf(S \ {s})
           Q == {S \in SUBSET Services : ~Exact(S)}
<1> SUFFICES ASSUME Q # {} PROVE FALSE
  OBVIOUS
<1>0. \A S \in Q : S \in SUBSET Services
  OBVIOUS
<1> HIDE DEF Q
<1>1. PICK S \in Q : \A T \in Q : T \subseteq S => T = S
  BY <1>0, Smallest
<1> USE DEF Q
<1>2. \A T \in SUBSET Services : T \subseteq S /\ T # S => Exact(T)
  BY <1>1
<1>3. PICK s \in S : MemoryOf(S) # Mb[s] + MemoryOf(S \ {s})
  BY <1>1
<1> DEFINE c == First(S)
<1>4. c \in S /\ MemoryOf(S) = Mb[c] + MemoryOf(S \ {c})
  BY <1>1, <1>3, FirstIsIn, MemoryEquations
<1> HIDE DEF c
<1>5. c # s
  BY <1>3, <1>4
<1>6. /\ S \ {c} \in SUBSET Services /\ S \ {s} \in SUBSET Services
      /\ S \ {c} # S /\ S \ {s} # S /\ s \in S \ {c} /\ c \in S \ {s}
      /\ (S \ {c}) \ {s} = (S \ {s}) \ {c} /\ (S \ {c}) \ {s} \in SUBSET Services
  BY <1>1, <1>4, <1>5
<1>7. Exact(S \ {c}) /\ Exact(S \ {s})
  BY <1>2, <1>6
<1> DEFINE m == MemoryOf((S \ {c}) \ {s})
<1>8. MemoryOf(S \ {c}) = Mb[s] + m /\ MemoryOf(S \ {s}) = Mb[c] + m
  BY <1>6, <1>7
<1>9. m \in Nat /\ Mb[s] \in Nat /\ Mb[c] \in Nat
  BY <1>1, <1>4, <1>6, MemoryType, WorldAssumption
<1> HIDE DEF m
<1> QED BY <1>3, <1>4, <1>8, <1>9

\* More services need more memory, or as much.
LEMMA MemoryGrows ==
  ASSUME NEW S \in SUBSET Services, NEW T \in SUBSET Services, S \subseteq T
  PROVE  MemoryOf(S) <= MemoryOf(T)
<1> DEFINE Q == {U \in SUBSET Services : S \subseteq U /\ ~(MemoryOf(S) <= MemoryOf(U))}
<1> SUFFICES ASSUME Q # {} PROVE FALSE
  OBVIOUS
<1>0. \A R \in Q : R \in SUBSET Services
  OBVIOUS
<1> HIDE DEF Q
<1>1. PICK U \in Q : \A V \in Q : V \subseteq U => V = U
  BY <1>0, Smallest
<1> USE DEF Q
<1>2. U \in SUBSET Services /\ S \subseteq U /\ ~(MemoryOf(S) <= MemoryOf(U))
  OBVIOUS
<1>3. U # S
  BY <1>2, MemoryType
<1>4. PICK s \in U : s \notin S
  BY <1>2, <1>3
<1>5. U \ {s} \in SUBSET Services /\ S \subseteq U \ {s} /\ U \ {s} \subseteq U /\ U \ {s} # U
  BY <1>2, <1>4
<1>6. MemoryOf(S) <= MemoryOf(U \ {s})
  BY <1>1, <1>5
<1>7. MemoryOf(U) = Mb[s] + MemoryOf(U \ {s})
  BY <1>2, MemoryWithout
<1>8. MemoryOf(S) \in Nat /\ MemoryOf(U \ {s}) \in Nat /\ Mb[s] \in Nat
  BY <1>2, <1>5, MemoryType, WorldAssumption
<1> QED BY <1>2, <1>6, <1>7, <1>8

----------------------------------------------------------------------------
(* The invariants *)

\* What a step of the plan has to be, the i-th, whatever comes after it.
Sound(i) ==
  LET s == steps[i][2] IN
    IF steps[i][1] = "stop"
    THEN /\ s \in running \ Essential
         /\ MemoryOf(After(i - 1)) > available
    ELSE /\ s \notin After(i - 1)
         /\ Needs(s) \subseteq After(i - 1)
         /\ MemoryOf(After(i)) <= available

\* The steps are sound, room is made before anything is started, and a plan is
\* offered when it ends well.
PlanInv ==
  /\ \A i \in DOMAIN steps : Sound(i)
  /\ phase \in {"diagnose", "room"} => \A i \in DOMAIN steps : steps[i][1] = "stop"
  /\ phase = "diagnose" => steps = <<>>
  /\ phase # "done" => outcome = "none"
  /\ outcome = "Plan" => state = After(Len(steps)) /\ Check(state, available) = {}

RepairInv == RepairTypeOK /\ PlanInv

\* What the passes leave: only essential services are started, and in a pass
\* that started nothing, none that it came by could be.
VerdictInv ==
  /\ \A i \in DOMAIN steps : steps[i][1] = "start" => steps[i][2] \in Essential
  /\ phase \in {"diagnose", "room"} => cursor = 1
  /\ phase = "start" /\ ~started =>
       \A i \in DOMAIN StartOrder : i < cursor => ~Startable(StartOrder[i])
  /\ phase = "proof" => \A s \in Services : ~Startable(s)
  /\ phase = "done" /\ outcome # "Healthy" =>
       /\ state = After(Len(steps))
       /\ \A s \in Services : ~Startable(s)
       /\ outcome = "Plan" <=> Check(state, available) = {}

----------------------------------------------------------------------------
(* The plan so far *)

\* The plan grows by one step.
Grows(act, s) ==
  /\ act \in {"stop", "start"} /\ s \in Services
  /\ steps' = Append(steps, <<act, s>>) /\ running' = running

\* What the others made of the machine stays.
LEMMA Appended ==
  ASSUME RepairTypeOK, NEW act, NEW s, Grows(act, s), NEW k \in Nat, k = Len(steps)
  PROVE  /\ steps' \in Seq({"stop", "start"} \X Services)
         /\ Len(steps') = k + 1
         /\ steps'[k + 1][1] = act /\ steps'[k + 1][2] = s
         /\ \A i \in 1..k : steps'[i] = steps[i]
         /\ DOMAIN steps = 1..k /\ DOMAIN steps' = (1..k) \cup {k + 1}
         /\ \A m \in 0..k : After(m)' = After(m)
         /\ act = "stop" =>
              Stops(k + 1)' = Stops(k) \cup {s} /\ Starts(k + 1)' = Starts(k)
         /\ act = "start" =>
              Stops(k + 1)' = Stops(k) /\ Starts(k + 1)' = Starts(k) \cup {s}
<1> DEFINE e == <<act, s>>
<1>1. steps \in Seq({"stop", "start"} \X Services) /\ e \in {"stop", "start"} \X Services
  BY DEF RepairTypeOK, Grows
<1>2. e[1] = act /\ e[2] = s /\ steps' = Append(steps, e)
  BY DEF Grows
<1> HIDE DEF e
<1>3. /\ steps' \in Seq({"stop", "start"} \X Services)
      /\ Len(steps') = k + 1
      /\ steps'[k + 1] = e
      /\ DOMAIN steps = 1..k /\ DOMAIN steps' = 1..(k + 1)
      /\ \A i \in 1..k : steps'[i] = steps[i]
  BY <1>1, <1>2
<1>4. 1..(k + 1) = (1..k) \cup {k + 1} /\ k + 1 \notin 1..k
  OBVIOUS
<1>5. ASSUME NEW m \in 0..k
      PROVE  After(m)' = After(m)
  <2>1. \A i \in 1..m : steps'[i] = steps[i]
    BY <1>3
  <2>2. Stops(m)' = Stops(m) /\ Starts(m)' = Starts(m)
    BY <2>1 DEF Stops, Starts
  <2> QED BY <2>2 DEF After, Grows
<1>6. \A i \in 1..(k + 1) :
        \/ i \in 1..k /\ steps'[i] = steps[i]
        \/ i = k + 1 /\ steps'[i][1] = act /\ steps'[i][2] = s
  BY <1>2, <1>3, <1>4
<1>7. steps'[k + 1][1] = act /\ steps'[k + 1][2] = s /\ k + 1 \in 1..(k + 1)
  BY <1>2, <1>3, <1>4
<1>8. \A i \in 1..k : i \in 1..(k + 1) /\ steps'[i] = steps[i]
  BY <1>3, <1>4
<1>9. ASSUME act = "stop"
      PROVE  Stops(k + 1)' = Stops(k) \cup {s} /\ Starts(k + 1)' = Starts(k)
  BY <1>6, <1>7, <1>8, <1>9 DEF Stops, Starts
<1>10. ASSUME act = "start"
      PROVE  Stops(k + 1)' = Stops(k) /\ Starts(k + 1)' = Starts(k) \cup {s}
  BY <1>6, <1>7, <1>8, <1>10 DEF Stops, Starts
<1> QED BY <1>3, <1>4, <1>5, <1>7, <1>9, <1>10

\* What a step was, it stays.
LEMMA SoundStays ==
  ASSUME RepairTypeOK, available' = available, NEW act, NEW s, Grows(act, s),
         \A i \in DOMAIN steps : Sound(i)
  PROVE  \A i \in DOMAIN steps : Sound(i)'
<1>1. PICK k \in Nat : k = Len(steps)
  BY DEF RepairTypeOK
<1>2. DOMAIN steps = 1..k
  BY <1>1, Appended
<1> SUFFICES ASSUME NEW i \in 1..k PROVE Sound(i)'
  BY <1>2
<1>3. steps'[i] = steps[i] /\ After(i)' = After(i) /\ After(i - 1)' = After(i - 1)
  <2>1. /\ \A j \in 1..k : steps'[j] = steps[j]
        /\ \A m \in 0..k : After(m)' = After(m)
    BY <1>1, Appended
  <2>2. i \in 0..k /\ i - 1 \in 0..k
    BY <1>1
  <2> QED BY <2>1, <2>2
<1>4. Sound(i)
  BY <1>2
<1> QED BY <1>3, <1>4 DEF Sound, Needs, Grows

\* Nothing but the plan and the calling state counts.
LEMMA AfterStays ==
  ASSUME running' = running, steps' = steps, NEW i
  PROVE  After(i)' = After(i) /\ (available' = available => Sound(i)' = Sound(i))
<1>1. \A m : After(m)' = After(m)
  BY DEF After, Stops, Starts
<1>2. ASSUME available' = available PROVE Sound(i)' <=> Sound(i)
  BY <1>1, <1>2 DEF Sound, Needs
<1> QED BY <1>1, <1>2 DEF Sound

----------------------------------------------------------------------------
LEMMA InitRepairInv == RepairInit => RepairInv
<1> SUFFICES ASSUME RepairInit PROVE RepairInv
  OBVIOUS
<1>1. steps = <<>> /\ steps \in Seq({"stop", "start"} \X Services) /\ DOMAIN steps = {}
  BY DEF RepairInit
<1>2. Len(StartOrder) \in Nat
  BY WorldAssumption
<1>3. started \in BOOLEAN
  BY DEF RepairInit
<1>4. 1 \in 1..(Len(StartOrder) + 1)
  BY <1>2
<1>5. RepairTypeOK
  BY <1>1, <1>3, <1>4 DEF RepairInit, RepairTypeOK
<1>6. PlanInv
  BY <1>1 DEF RepairInit, PlanInv
<1> QED BY <1>5, <1>6 DEF RepairInv

LEMMA StopStep ==
  ASSUME RepairInv, NEW s \in Services, StopLargest(s)
  PROVE  RepairInv'
<1> USE DEF RepairInv
<1>1. /\ phase = "room" /\ s \in state \ Essential /\ MemoryOf(state) > available
      /\ state' = state \ {s} /\ steps' = Append(steps, <<"stop", s>>)
      /\ UNCHANGED <<running, available, phase, cursor, started, outcome>>
  BY DEF StopLargest, Largest, Stoppable
<1>1a. Grows("stop", s)
  BY <1>1 DEF Grows
<1>2. PICK k \in Nat : k = Len(steps)
  BY DEF RepairTypeOK
<1>3. /\ state = After(k) /\ outcome = "none"
      /\ \A i \in DOMAIN steps : steps[i][1] = "stop"
  BY <1>1, <1>2 DEF RepairTypeOK, PlanInv
<1>4. /\ Len(steps') = k + 1
      /\ steps'[k + 1][1] = "stop" /\ steps'[k + 1][2] = s
      /\ \A i \in 1..k : steps'[i] = steps[i]
      /\ DOMAIN steps = 1..k /\ DOMAIN steps' = (1..k) \cup {k + 1}
      /\ steps' \in Seq({"stop", "start"} \X Services)
      /\ After(k)' = After(k)
      /\ Stops(k + 1)' = Stops(k) \cup {s} /\ Starts(k + 1)' = Starts(k)
  <2>1. \A m \in 0..k : After(m)' = After(m)
    BY <1>1a, <1>2, Appended
  <2>2. k \in 0..k
    BY <1>2
  <2>3. /\ Len(steps') = k + 1
        /\ steps'[k + 1][1] = "stop" /\ steps'[k + 1][2] = s
        /\ \A i \in 1..k : steps'[i] = steps[i]
        /\ DOMAIN steps = 1..k /\ DOMAIN steps' = (1..k) \cup {k + 1}
        /\ steps' \in Seq({"stop", "start"} \X Services)
        /\ Stops(k + 1)' = Stops(k) \cup {s} /\ Starts(k + 1)' = Starts(k)
    BY <1>1a, <1>2, Appended
  <2> QED BY <2>1, <2>2, <2>3
<1>5. Starts(k) = {}
  BY <1>3, <1>4 DEF Starts
<1>6. After(k + 1)' = state' /\ s \in running
  BY <1>1, <1>3, <1>4, <1>5 DEF After
<1>7. RepairTypeOK'
  <2>1. state' = After(Len(steps))'
    BY <1>4, <1>6
  <2> QED BY <1>1, <1>4, <2>1 DEF RepairTypeOK
<1>8. \A i \in 1..k : Sound(i)'
  BY <1>1, <1>1a, <1>4, SoundStays DEF PlanInv
<1>9. Sound(k + 1)'
  <2>1. (k + 1) - 1 = k
    OBVIOUS
  <2>2. After((k + 1) - 1)' = state
    BY <1>3, <1>4, <2>1
  <2> QED BY <1>1, <1>4, <1>6, <2>2 DEF Sound
<1>10. PlanInv'
  <2>1. \A i \in DOMAIN steps' : Sound(i)'
    BY <1>4, <1>8, <1>9
  <2>2. \A i \in DOMAIN steps' : steps'[i][1] = "stop"
    BY <1>3, <1>4
  <2> QED BY <1>1, <1>3, <2>1, <2>2 DEF PlanInv
<1> QED BY <1>7, <1>10

LEMMA VisitStep ==
  ASSUME RepairInv, Visit
  PROVE  RepairInv'
<1> USE DEF RepairInv
<1>1. PICK k \in Nat : k = Len(steps)
  BY DEF RepairTypeOK
<1>2. /\ phase = "start" /\ outcome = "none" /\ state = After(k)
      /\ UNCHANGED <<running, available, phase, outcome>>
  BY <1>1 DEF Visit, RepairTypeOK, PlanInv
<1>3. PICK s \in Services : s = StartOrder[cursor]
  <2>1. cursor \in 1..Len(StartOrder)
    BY WorldAssumption DEF Visit, RepairTypeOK
  <2> QED BY <2>1, WorldAssumption
<1>4. cursor' \in 1..(Len(StartOrder) + 1)
  BY WorldAssumption DEF Visit, RepairTypeOK
<1>5. CASE Startable(s)
  <2>1. /\ state' = state \cup {s} /\ steps' = Append(steps, <<"start", s>>)
        /\ started' = TRUE
    BY <1>3, <1>5 DEF Visit
  <2>2. s \in Essential \ state /\ Requires(s) \subseteq state
        /\ MemoryOf(state \cup {s}) <= available
    BY <1>5 DEF Startable
  <2>2a. Grows("start", s)
    BY <1>2, <2>1 DEF Grows
  <2>3. /\ Len(steps') = k + 1
        /\ steps'[k + 1][1] = "start" /\ steps'[k + 1][2] = s
        /\ DOMAIN steps = 1..k /\ DOMAIN steps' = (1..k) \cup {k + 1}
        /\ steps' \in Seq({"stop", "start"} \X Services)
        /\ After(k)' = After(k)
        /\ Stops(k + 1)' = Stops(k) /\ Starts(k + 1)' = Starts(k) \cup {s}
    <3>1. \A m \in 0..k : After(m)' = After(m)
      BY <1>1, <2>2a, Appended
    <3>2. k \in 0..k
      BY <1>1
    <3>3. /\ Len(steps') = k + 1
          /\ steps'[k + 1][1] = "start" /\ steps'[k + 1][2] = s
          /\ DOMAIN steps = 1..k /\ DOMAIN steps' = (1..k) \cup {k + 1}
          /\ steps' \in Seq({"stop", "start"} \X Services)
          /\ Stops(k + 1)' = Stops(k) /\ Starts(k + 1)' = Starts(k) \cup {s}
      BY <1>1, <2>2a, Appended
    <3> QED BY <3>1, <3>2, <3>3
  <2>4. After(k + 1)' = state'
    BY <1>2, <2>1, <2>2, <2>3 DEF After
  <2>5. RepairTypeOK'
    <3>1. state' = After(Len(steps))'
      BY <2>3, <2>4
    <3> QED BY <1>2, <1>4, <2>1, <2>3, <3>1 DEF RepairTypeOK
  <2>6. \A i \in 1..k : Sound(i)'
    BY <1>2, <2>2a, <2>3, SoundStays DEF PlanInv
  <2>7. Sound(k + 1)'
    <3>1. (k + 1) - 1 = k
      OBVIOUS
    <3>2. After((k + 1) - 1)' = state
      BY <1>2, <2>3, <3>1
    <3>3. Needs(s) \subseteq state
      BY <2>2, WorldAssumption DEF Needs, Requires
    <3>4. MemoryOf(After(k + 1)') <= available'
      BY <1>2, <2>1, <2>2, <2>4
    <3> QED BY <2>2, <2>3, <3>2, <3>3, <3>4 DEF Sound
  <2>8. \A i \in DOMAIN steps' : Sound(i)'
    BY <2>3, <2>6, <2>7
  <2>9. PlanInv'
    BY <1>2, <2>8 DEF PlanInv
  <2> QED BY <2>5, <2>9
<1>6. CASE ~Startable(s)
  <2>1. UNCHANGED <<state, steps, started>>
    BY <1>3, <1>6 DEF Visit
  <2>2. RepairTypeOK'
    BY <1>2, <1>4, <2>1, AfterStays DEF RepairTypeOK
  <2>3. PlanInv'
    BY <1>2, <2>1, AfterStays DEF PlanInv
  <2> QED BY <2>2, <2>3
<1> QED BY <1>5, <1>6

LEMMA OtherSteps ==
  ASSUME RepairInv, Diagnose \/ EndRoom \/ EndPass \/ Prove \/ UNCHANGED repairVars
  PROVE  RepairInv'
<1> USE DEF RepairInv
<1>1. /\ running' = running /\ available' = available /\ steps' = steps
      /\ \A i : After(i)' = After(i) /\ Sound(i)' = Sound(i)
  BY AfterStays DEF Diagnose, EndRoom, EndPass, Prove, repairVars
<1>2. CASE Diagnose
  <2>1. steps = <<>> /\ After(Len(steps)) = running /\ Len(steps) = 0
    <3>1. steps = <<>> /\ Len(steps) = 0
      BY <1>2 DEF Diagnose, PlanInv
    <3>2. Stops(0) = {} /\ Starts(0) = {}
      BY DEF Stops, Starts
    <3> QED BY <3>1, <3>2 DEF After
  <2>2. RepairTypeOK'
    BY <1>1, <1>2, <2>1 DEF Diagnose, RepairTypeOK
  <2>3. PlanInv'
    BY <1>1, <1>2, <2>1 DEF Diagnose, PlanInv
  <2> QED BY <2>2, <2>3
<1>3. CASE EndRoom
  BY <1>1, <1>3 DEF EndRoom, RepairTypeOK, PlanInv
<1>4. CASE EndPass
  <2>1. cursor' \in 1..(Len(StartOrder) + 1) /\ started' \in BOOLEAN
    <3>1. Len(StartOrder) \in Nat
      BY WorldAssumption
    <3>2. started \in BOOLEAN /\ 1 \in 1..(Len(StartOrder) + 1)
      BY <3>1 DEF RepairTypeOK
    <3>3. CASE started
      BY <1>4, <3>2, <3>3 DEF EndPass
    <3>4. CASE ~started
      BY <1>4, <3>4 DEF EndPass, RepairTypeOK
    <3> QED BY <3>2, <3>3, <3>4
  <2> QED BY <1>1, <1>4, <2>1 DEF EndPass, RepairTypeOK, PlanInv
<1>5. CASE Prove
  <2>1. RepairTypeOK'
    BY <1>1, <1>5 DEF Prove, RepairTypeOK
  <2>2. PlanInv'
    BY <1>1, <1>5 DEF Prove, RepairTypeOK, PlanInv
  <2> QED BY <2>1, <2>2
<1>6. CASE UNCHANGED repairVars
  BY <1>1, <1>6 DEF repairVars, RepairTypeOK, PlanInv
<1> QED BY <1>2, <1>3, <1>4, <1>5, <1>6

LEMMA StepRepairInv == RepairInv /\ [RepairNext]_repairVars => RepairInv'
BY StopStep, VisitStep, OtherSteps DEF RepairNext

LEMMA SpecRepairInv == RepairSpec => []RepairInv
BY InitRepairInv, StepRepairInv, PTL DEF RepairSpec

\* The types of Doctor::repair, and that its copy of the state is the machine
\* after the plan so far.
THEOREM TypesHold == RepairSpec => []RepairTypeOK
<1>1. RepairInv => RepairTypeOK
  BY DEF RepairInv
<1> QED BY <1>1, SpecRepairInv, PTL

\* Doctor::repair offers only plans that can be followed one command at a time.
THEOREM PlansAreFollowable == RepairSpec => []PlanCanBeFollowed
<1>1. RepairInv => PlanCanBeFollowed
  BY DEF RepairInv, PlanInv, PlanCanBeFollowed, Sound
<1> QED BY <1>1, SpecRepairInv, PTL

----------------------------------------------------------------------------
(* When repair gives up *)

LEMMA InitVerdict == RepairInit => VerdictInv
<1>1. RepairInit => DOMAIN steps = {}
  BY DEF RepairInit
<1> QED BY <1>1 DEF RepairInit, VerdictInv

\* One step is added, and what was started was essential.
LEMMA StartsEssential ==
  ASSUME RepairInv, VerdictInv, NEW act, NEW s, Grows(act, s),
         act = "stop" \/ s \in Essential
  PROVE  \A i \in DOMAIN steps' : steps'[i][1] = "start" => steps'[i][2] \in Essential
<1>1. PICK k \in Nat : k = Len(steps)
  BY DEF RepairInv, RepairTypeOK
<1>2. /\ steps'[k + 1][1] = act /\ steps'[k + 1][2] = s
      /\ \A i \in 1..k : steps'[i] = steps[i]
      /\ DOMAIN steps = 1..k /\ DOMAIN steps' = (1..k) \cup {k + 1}
  BY <1>1, Appended DEF RepairInv
<1> QED BY <1>2 DEF VerdictInv

LEMMA StepVerdict ==
  ASSUME RepairInv, VerdictInv, [RepairNext]_repairVars
  PROVE  VerdictInv'
<1>1. CASE Diagnose
  BY <1>1 DEF Diagnose, VerdictInv, RepairInv, PlanInv
<1>2. ASSUME NEW s \in Services, StopLargest(s)
      PROVE  VerdictInv'
  <2>1. phase = "room" /\ phase' = "room" /\ cursor' = cursor
    BY <1>2 DEF StopLargest
  <2>2. \A i \in DOMAIN steps' : steps'[i][1] = "start" => steps'[i][2] \in Essential
    <3>1. Grows("stop", s)
      BY <1>2 DEF StopLargest, Grows
    <3> QED BY <3>1, StartsEssential
  <2> QED BY <2>1, <2>2 DEF VerdictInv
<1>3. CASE EndRoom
  <2>1. /\ phase = "room" /\ phase' = "start" /\ cursor = 1
        /\ UNCHANGED <<cursor, steps>>
    BY <1>3 DEF EndRoom, VerdictInv
  <2>2. \A i \in DOMAIN StartOrder : ~(i < cursor')
    BY <2>1, WorldAssumption
  <2> QED BY <2>1, <2>2 DEF VerdictInv
<1>4. CASE Visit
  <2>1. /\ phase = "start" /\ phase' = "start" /\ cursor' = cursor + 1
        /\ UNCHANGED <<running, available>>
    BY <1>4 DEF Visit
  <2>2. PICK s \in Services : s = StartOrder[cursor]
    BY <1>4, WorldAssumption DEF Visit, RepairInv, RepairTypeOK
  <2>3. CASE Startable(s)
    <3>1. started' = TRUE /\ steps' = Append(steps, <<"start", s>>) /\ s \in Essential
      BY <1>4, <2>2, <2>3 DEF Visit, Startable
    <3>2. \A i \in DOMAIN steps' : steps'[i][1] = "start" => steps'[i][2] \in Essential
      <4>1. Grows("start", s)
        BY <2>1, <3>1 DEF Grows
      <4> QED BY <3>1, <4>1, StartsEssential
    <3> QED BY <2>1, <3>1, <3>2 DEF VerdictInv
  <2>4. CASE ~Startable(s)
    <3>1. UNCHANGED <<state, steps, started>>
      BY <1>4, <2>2, <2>4 DEF Visit
    <3>2. \A t : Startable(t)' <=> Startable(t)
      BY <2>1, <3>1 DEF Startable
    <3>3. ASSUME ~started, NEW i \in DOMAIN StartOrder, i < cursor'
          PROVE  ~Startable(StartOrder[i])'
      <4>1. i < cursor \/ i = cursor
        BY <2>1, <3>3, WorldAssumption DEF RepairInv, RepairTypeOK
      <4>2. ~Startable(StartOrder[i])
        BY <2>1, <2>2, <2>4, <3>3, <4>1 DEF VerdictInv
      <4> QED BY <3>2, <4>2
    <3> QED BY <2>1, <3>1, <3>3 DEF VerdictInv
  <2> QED BY <2>3, <2>4
<1>5. CASE EndPass
  <2>1. /\ phase = "start" /\ cursor > Len(StartOrder)
        /\ UNCHANGED <<running, available, state, steps, outcome>>
    BY <1>5 DEF EndPass
  <2>2. \A t : Startable(t)' <=> Startable(t)
    BY <2>1 DEF Startable
  <2>3. CASE started
    <3>1. cursor' = 1 /\ phase' = "start"
      BY <1>5, <2>1, <2>3 DEF EndPass
    <3>2. \A i \in DOMAIN StartOrder : ~(i < cursor')
      BY <3>1, WorldAssumption
    <3> QED BY <2>1, <3>1, <3>2 DEF VerdictInv
  <2>4. CASE ~started
    <3>1. phase' = "proof"
      BY <1>5, <2>4 DEF EndPass
    <3>2. ASSUME NEW s \in Services
          PROVE  ~Startable(s)
      <4>1. PICK i \in DOMAIN StartOrder : StartOrder[i] = s
        BY DEF Services, Range
      <4>2. i < cursor
        BY <2>1, WorldAssumption DEF RepairInv, RepairTypeOK
      <4> QED BY <2>1, <2>4, <4>1, <4>2 DEF VerdictInv
    <3> QED BY <2>1, <2>2, <3>1, <3>2 DEF VerdictInv
  <2> QED BY <2>3, <2>4
<1>6. CASE Prove
  <2>1. /\ phase = "proof" /\ phase' = "done"
        /\ UNCHANGED <<running, available, state, steps, cursor, started>>
        /\ outcome' = IF Check(state, available) = {} THEN "Plan" ELSE "Impossible"
    BY <1>6 DEF Prove
  <2>2. state = After(Len(steps)) /\ \A s \in Services : ~Startable(s)
    BY <2>1 DEF RepairInv, RepairTypeOK, VerdictInv
  <2>3. \A s \in Services : ~Startable(s)'
    BY <2>1, <2>2 DEF Startable
  <2>4. state' = After(Len(steps))'
    BY <2>1, <2>2, AfterStays
  <2>5. outcome' = "Plan" <=> Check(state', available') = {}
    BY <2>1
  <2> QED BY <2>1, <2>3, <2>4, <2>5 DEF VerdictInv
<1>7. CASE UNCHANGED repairVars
  <2>1. \A t : Startable(t)' <=> Startable(t)
    BY <1>7 DEF repairVars, Startable
  <2>2. After(Len(steps))' = After(Len(steps))
    BY <1>7, AfterStays DEF repairVars
  <2> QED BY <1>7, <2>1, <2>2 DEF repairVars, VerdictInv
<1> QED BY <1>1, <1>2, <1>3, <1>4, <1>5, <1>6, <1>7 DEF RepairNext

\* What is left running, and what it means for the verdict.
LEMMA VerdictFollows ==
  ASSUME RepairInv, VerdictInv
  PROVE  VerdictIsExact
<1> SUFFICES ASSUME phase = "done", outcome # "Healthy"
             PROVE  outcome = "Plan" <=>
                      /\ MemoryOf(Essential \cup Spared) <= available
                      /\ \A s \in Spared : Needs(s) \subseteq Essential \cup Spared
  BY DEF VerdictIsExact
<1> DEFINE L == Len(steps)
<1>1. /\ state = (running \ Stops(L)) \cup Starts(L)
      /\ \A s \in Services : ~Startable(s)
      /\ outcome = "Plan" <=> Check(state, available) = {}
  BY DEF VerdictInv, After
<1>2. Starts(L) \subseteq Essential
  <2>1. L \in Nat /\ DOMAIN steps = 1..L
    BY DEF RepairInv, RepairTypeOK
  <2> QED BY <2>1 DEF VerdictInv, Starts
<1> HIDE DEF L
<1>3. Spared \subseteq state /\ state \subseteq Essential \cup Spared
  BY <1>1, <1>2 DEF Spared, L
<1>4. /\ state \in SUBSET Services /\ Essential \in SUBSET Services
      /\ Essential \cup Spared \in SUBSET Services
      /\ available \in Nat
  BY <1>3, WorldAssumption, DoctorAssumption DEF RepairInv, RepairTypeOK
<1>5. ASSUME Check(state, available) = {}
      PROVE  /\ MemoryOf(Essential \cup Spared) <= available
             /\ \A s \in Spared : Needs(s) \subseteq Essential \cup Spared
  <2>1. /\ \A q \in Requirements : ~(q[1] \in state /\ q[2] \notin state)
        /\ Essential \ state = {}
        /\ ~(MemoryOf(state) > available)
    BY <1>5 DEF Check
  <2>2. state = Essential \cup Spared
    BY <1>3, <2>1
  <2>3. MemoryOf(state) <= available
    BY <1>4, <2>1, MemoryType
  <2>4. \A s \in Spared : Needs(s) \subseteq state
    BY <1>3, <2>1 DEF Needs
  <2> QED BY <2>2, <2>3, <2>4
<1>6. ASSUME MemoryOf(Essential \cup Spared) <= available,
             \A s \in Spared : Needs(s) \subseteq Essential \cup Spared
      PROVE  Check(state, available) = {}
  <2>1. ASSUME Essential \ state # {}
        PROVE  FALSE
    <3>1. PICK s \in Essential \ state : \A r \in Essential \ state : <<s, r>> \notin Requirements
      BY <2>1, TierAssumption
    <3>2. Requires(s) \subseteq state
      BY <3>1, TierAssumption DEF Requires
    <3>3. state \cup {s} \in SUBSET Services /\ state \cup {s} \subseteq Essential \cup Spared
      BY <1>3, <1>4, <3>1
    <3>4. MemoryOf(state \cup {s}) <= MemoryOf(Essential \cup Spared)
      BY <1>4, <3>3, MemoryGrows
    <3>5. MemoryOf(state \cup {s}) <= available
      BY <1>4, <1>6, <3>3, <3>4, MemoryType
    <3>6. s \in Services /\ Startable(s)
      BY <1>4, <3>1, <3>2, <3>5 DEF Startable
    <3> QED BY <1>1, <3>6
  <2>2. state = Essential \cup Spared
    BY <1>3, <2>1
  <2>3. ~(MemoryOf(state) > available)
    BY <1>4, <1>6, <2>2, MemoryType
  <2>4. ASSUME NEW q \in Requirements, q[1] \in state
        PROVE  q[2] \in state
    <3>1. CASE q[1] \in Essential
      BY <2>2, <3>1, TierAssumption
    <3>2. CASE q[1] \in Spared
      BY <1>6, <2>2, <3>2 DEF Needs
    <3> QED BY <2>2, <2>4, <3>1, <3>2
  <2> QED BY <2>1, <2>3, <2>4 DEF Check
<1> QED BY <1>1, <1>5, <1>6

\* Doctor::repair answers "Impossible" only when the essential tier does not fit
\* beside what is spared, or something spared lacks what it needs.
THEOREM VerdictsAreExact == RepairSpec => []VerdictIsExact
<1>1. RepairInit => RepairInv /\ VerdictInv
  BY InitRepairInv, InitVerdict
<1>2. RepairInv /\ VerdictInv /\ [RepairNext]_repairVars => (RepairInv /\ VerdictInv)'
  BY StepRepairInv, StepVerdict
<1>3. RepairInv /\ VerdictInv => VerdictIsExact
  BY VerdictFollows
<1> QED BY <1>1, <1>2, <1>3, PTL DEF RepairSpec

----------------------------------------------------------------------------
(* The loops over the table *)

\* Of several numbers one is least.
LEMMA Least ==
  ASSUME NEW Q \in SUBSET Nat, Q # {}
  PROVE  \E m \in Q : \A k \in Q : m <= k
<1>1. PICK m \in Q : \A k \in Q : ~(<<k, m>> \in OpToRel(<, Nat))
  BY NatLessThanWellFounded, WFMin
<1>2. ASSUME NEW k \in Q PROVE m <= k
  <2>1. <<k, m>> \in Nat \X Nat /\ <<k, m>>[1] = k /\ <<k, m>>[2] = m
    OBVIOUS
  <2>2. ~(k < m)
    BY <1>1, <2>1 DEF OpToRel
  <2> QED BY <2>2
<1> QED BY <1>2

LEMMA Places ==
  /\ Len(StartOrder) \in Nat /\ DOMAIN StartOrder = 1..Len(StartOrder)
  /\ \A i \in 1..Len(StartOrder) : StartOrder[i] \in Services /\ Place(StartOrder[i]) = i
  /\ \A s \in Services : Place(s) \in 1..Len(StartOrder) /\ StartOrder[Place(s)] = s
<1>1. Len(StartOrder) \in Nat /\ DOMAIN StartOrder = 1..Len(StartOrder)
  BY WorldAssumption
<1>2. \A i, j \in DOMAIN StartOrder : StartOrder[i] = StartOrder[j] => i = j
  BY WorldAssumption DEF IsInjective
<1>3. \A i \in 1..Len(StartOrder) : StartOrder[i] \in Services /\ Place(StartOrder[i]) = i
  BY <1>1, <1>2 DEF Place, Services, Range
<1>4. ASSUME NEW s \in Services
      PROVE  Place(s) \in 1..Len(StartOrder) /\ StartOrder[Place(s)] = s
  <2>1. \E i \in DOMAIN StartOrder : StartOrder[i] = s
    BY DEF Services, Range
  <2> QED BY <1>1, <2>1 DEF Place
<1> QED BY <1>1, <1>3, <1>4

\* What the loop has come to at row i, from what it had come to before.
Row(f, a, S, i) ==
  IF i = 0 THEN <<>>
  ELSE IF StartOrder[i] \in S THEN Append(f[i - 1], <<a, StartOrder[i]>>)
  ELSE f[i - 1]

\* f is what the loop has come to, row by row, up to row k.
Rows(f, a, S, k) == f = [i \in 0..k |-> Row(f, a, S, i)]

LEMMA RowsExist ==
  ASSUME NEW a, NEW S
  PROVE  \A k \in 0..Len(StartOrder) : \E f : Rows(f, a, S, k)
<1> DEFINE Q == {k \in 0..Len(StartOrder) : ~\E f : Rows(f, a, S, k)}
<1> SUFFICES ASSUME Q # {} PROVE FALSE
  OBVIOUS
<1>0. Q \in SUBSET Nat
  BY Places
<1> HIDE DEF Q
<1>1. PICK k \in Q : \A j \in Q : k <= j
  BY <1>0, Least
<1> USE DEF Q
<1>2. k \in Nat /\ k \in 0..Len(StartOrder) /\ ~\E f : Rows(f, a, S, k)
  BY <1>0
<1>3. CASE k = 0
  <2> DEFINE g == [i \in 0..0 |-> <<>>]
  <2>1. \A i \in 0..0 : i = 0
    OBVIOUS
  <2>2. \A i \in 0..0 : Row(g, a, S, i) = <<>>
    BY <2>1 DEF Row
  <2>3. Rows(g, a, S, 0)
    BY <2>2 DEF Rows
  <2> QED BY <1>2, <1>3, <2>3
<1>4. CASE k # 0
  <2>1. k - 1 \in 0..Len(StartOrder) /\ ~(k <= k - 1)
    BY <1>2, <1>4
  <2>2. PICK f : Rows(f, a, S, k - 1)
    BY <1>1, <2>1
  <2>3. \A i \in 0..(k - 1) : f[i] = Row(f, a, S, i)
    BY <2>2 DEF Rows
  <2> DEFINE g == [i \in 0..k |-> IF i < k THEN f[i] ELSE Row(f, a, S, k)]
  <2>4. ASSUME NEW i \in 0..k
        PROVE  g[i] = Row(g, a, S, i)
    <3>1. i = 0 \/ (i - 1 \in 0..k /\ i - 1 < k)
      BY <1>2
    <3>2. i # 0 => g[i - 1] = f[i - 1]
      BY <3>1
    <3>3. Row(g, a, S, i) = Row(f, a, S, i)
      BY <3>2 DEF Row
    <3>4. i < k => i \in 0..(k - 1)
      BY <1>2
    <3>5. g[i] = Row(f, a, S, i)
      BY <1>2, <2>3, <3>4
    <3> QED BY <3>3, <3>5
  <2>5. Rows(g, a, S, k)
    BY <2>4 DEF Rows
  <2> QED BY <1>2, <2>5
<1> QED BY <1>3, <1>4

\* The step x is in the script q.
Has(q, x) == \E i \in DOMAIN q : q[i] = x

\* The steps of q are the action a on services of S, in the order of the table.
Sweep(q, a, S) ==
  /\ q \in Seq({a} \X S)
  /\ \A i, j \in DOMAIN q : i < j => Place(q[i][2]) < Place(q[j][2])

LEMMA SweepGrows ==
  ASSUME NEW a, NEW S \in SUBSET Services, NEW q, Sweep(q, a, S),
         NEW s \in S, \A i \in DOMAIN q : Place(q[i][2]) < Place(s)
  PROVE  Sweep(Append(q, <<a, s>>), a, S)
<1> DEFINE x == <<a, s>>
           r == Append(q, x)
<1>1. q \in Seq({a} \X S) /\ x \in {a} \X S /\ x[2] = s
  BY DEF Sweep
<1> HIDE DEF x
<1>2. /\ r \in Seq({a} \X S) /\ Len(r) = Len(q) + 1 /\ Len(q) \in Nat
      /\ DOMAIN r = 1..Len(r) /\ DOMAIN q = 1..Len(q)
      /\ \A i \in 1..Len(q) : r[i] = q[i]
      /\ r[Len(q) + 1] = x
  BY <1>1
<1> HIDE DEF r
<1>3. ASSUME NEW i \in DOMAIN r, NEW j \in DOMAIN r, i < j
      PROVE  Place(r[i][2]) < Place(r[j][2])
  <2>1. i \in 1..Len(q) /\ r[i] = q[i]
    BY <1>2, <1>3
  <2>2. CASE j = Len(q) + 1
    BY <1>1, <1>2, <2>1, <2>2
  <2>3. CASE j # Len(q) + 1
    <3>1. j \in 1..Len(q) /\ r[j] = q[j]
      BY <1>2, <2>3
    <3> QED BY <1>2, <1>3, <2>1, <3>1 DEF Sweep
  <2> QED BY <2>2, <2>3
<1> QED BY <1>2, <1>3 DEF Sweep, r, x

\* A loop over the table is a sweep over the services asked for, all of them.
LEMMA InOrderSweeps ==
  ASSUME NEW a, NEW S \in SUBSET Services
  PROVE  /\ Sweep(InOrder(a, S), a, S)
         /\ \A s \in S : Has(InOrder(a, S), <<a, s>>)
<1> DEFINE n == Len(StartOrder)
           f == CHOOSE f : Rows(f, a, S, n)
<1>1. n \in Nat /\ n \in 0..n
  BY Places
<1>2. Rows(f, a, S, n)
  BY <1>1, RowsExist
<1>3. InOrder(a, S) = f[n]
  BY DEF InOrder, Rows, Row
<1> HIDE DEF f
<1>4. \A i \in 0..n : f[i] = Row(f, a, S, i)
  BY <1>2 DEF Rows
<1> DEFINE Done(i) ==
             /\ Sweep(f[i], a, S)
             /\ \A j \in DOMAIN f[i] : Place(f[i][j][2]) <= i
             /\ \A k \in 1..i : StartOrder[k] \in S => Has(f[i], <<a, StartOrder[k]>>)
           Q == {i \in 0..n : ~Done(i)}
<1>5. Q = {}
  <2> SUFFICES ASSUME Q # {} PROVE FALSE
    OBVIOUS
  <2>0. Q \in SUBSET Nat
    BY <1>1
  <2> HIDE DEF Q
  <2>1. PICK i \in Q : \A j \in Q : i <= j
    BY <2>0, Least
  <2> USE DEF Q
  <2>2. i \in Nat /\ i \in 0..n /\ ~Done(i) /\ f[i] = Row(f, a, S, i)
    BY <1>4, <2>0
  <2>3. CASE i = 0
    <3>1. f[i] = <<>>
      BY <2>2, <2>3 DEF Row
    <3>2. Sweep(f[i], a, S) /\ DOMAIN f[i] = {}
      BY <3>1 DEF Sweep
    <3>3. \A k \in 1..0 : FALSE
      OBVIOUS
    <3> QED BY <2>2, <2>3, <3>1, <3>2, <3>3
  <2>4. CASE i # 0
    <3> DEFINE h == i - 1
    <3>1. h \in 0..n /\ ~(i <= h) /\ h \in Nat /\ i = h + 1 /\ i \in 1..n
      BY <2>2, <2>4, <1>1
    <3>2. Done(h)
      BY <2>1, <3>1
    <3>3. StartOrder[i] \in Services /\ Place(StartOrder[i]) = i
      BY <3>1, Places
    <3>4. f[i] = IF StartOrder[i] \in S THEN Append(f[h], <<a, StartOrder[i]>>) ELSE f[h]
      BY <2>2, <2>4 DEF Row
    <3> HIDE DEF h
    <3>5. f[h] \in Seq({a} \X S)
      BY <3>2 DEF Sweep
    <3>5a. \A j \in DOMAIN f[h] : Place(f[h][j][2]) \in Int
      <4> TAKE j \in DOMAIN f[h]
      <4>1. f[h][j] \in {a} \X S
        BY <3>5
      <4>2. f[h][j][2] \in Services
        BY <4>1
      <4> QED BY <4>2, Places
    <3>6. CASE StartOrder[i] \in S
      <4> DEFINE x == <<a, StartOrder[i]>>
      <4>1. \A j \in DOMAIN f[h] : Place(f[h][j][2]) < Place(StartOrder[i])
        BY <3>1, <3>2, <3>3, <3>5a
      <4>2. Sweep(f[i], a, S)
        BY <3>2, <3>4, <3>6, <4>1, SweepGrows
      <4>3. x \in {a} \X S /\ x[2] = StartOrder[i] /\ f[i] = Append(f[h], x)
        BY <3>4, <3>6
      <4> HIDE DEF x
      <4>4. /\ Len(f[h]) \in Nat /\ DOMAIN f[h] = 1..Len(f[h])
            /\ DOMAIN f[i] = 1..(Len(f[h]) + 1)
            /\ \A j \in 1..Len(f[h]) : f[i][j] = f[h][j]
            /\ f[i][Len(f[h]) + 1] = x
        BY <3>5, <4>3
      <4>5. \A j \in DOMAIN f[i] : Place(f[i][j][2]) <= i
        <5> TAKE j \in DOMAIN f[i]
        <5>1. CASE j = Len(f[h]) + 1
          BY <3>1, <3>3, <4>3, <4>4, <5>1
        <5>2. CASE j # Len(f[h]) + 1
          <6>1. j \in DOMAIN f[h] /\ f[i][j] = f[h][j]
            BY <4>4, <5>2
          <6> QED BY <3>1, <3>2, <3>5a, <6>1
        <5> QED BY <5>1, <5>2
      <4>6. ASSUME NEW k \in 1..i, StartOrder[k] \in S
            PROVE  Has(f[i], <<a, StartOrder[k]>>)
        <5>1. CASE k = i
          BY <4>4, <5>1 DEF Has, x
        <5>2. CASE k # i
          <6>1. k \in 1..h
            BY <3>1, <5>2
          <6>2. PICK j \in DOMAIN f[h] : f[h][j] = <<a, StartOrder[k]>>
            BY <3>2, <4>6, <6>1 DEF Has
          <6>3. j \in DOMAIN f[i] /\ f[i][j] = f[h][j]
            BY <4>4
          <6> QED BY <6>2, <6>3 DEF Has
        <5> QED BY <5>1, <5>2
      <4> QED BY <2>2, <4>2, <4>5, <4>6
    <3>7. CASE StartOrder[i] \notin S
      <4>1. f[i] = f[h]
        BY <3>4, <3>7
      <4>2. \A j \in DOMAIN f[i] : Place(f[i][j][2]) <= i
        BY <3>1, <3>2, <3>5a, <4>1
      <4>3. \A k \in 1..i : k = i \/ k \in 1..h
        BY <3>1
      <4>4. \A k \in 1..i : StartOrder[k] \in S => Has(f[i], <<a, StartOrder[k]>>)
        BY <3>2, <3>7, <4>1, <4>3
      <4> QED BY <2>2, <3>2, <4>1, <4>2, <4>4
    <3> QED BY <3>6, <3>7
  <2> QED BY <2>3, <2>4
<1>6. Done(n)
  BY <1>1, <1>5
<1>7. ASSUME NEW s \in S PROVE Has(f[n], <<a, s>>)
  <2>1. Place(s) \in 1..n /\ StartOrder[Place(s)] = s
    BY Places
  <2> QED BY <1>6, <2>1
<1> QED BY <1>3, <1>6, <1>7

\* What a command is to leave running, and what it is to stop.
RaisesOf(v, t) ==
  IF v \in {"start", "restart"} THEN Scope(t)
  ELSE IF v = "resume" THEN Optional ELSE {}

HaltsOf(v, t) ==
  IF v \in {"stop", "restart"} THEN Scope(t)
  ELSE IF v = "save" THEN Optional ELSE {}

StepType ==
  {"check", "start", "stop", "look", "clone", "plan", "answer"}
    \X (Services \cup Jails \cup {None} \cup Intents)

\* A step y may come after a step x: starts go down the table, stops up, and
\* stops come first.
MayFollow(x, y) ==
  /\ x[1] \in {"check", "start"} /\ y[1] \in {"check", "start"} => Place(x[2]) < Place(y[2])
  /\ x[1] = "stop" /\ y[1] = "stop" => Place(y[2]) < Place(x[2])
  /\ x[1] \in {"check", "start"} => y[1] # "stop"

\* What a step of a command v t can be.
Belongs(x, v, t) ==
  \/ x[1] = "check" /\ x[2] \in RaisesOf(v, t) /\ v # "resume"
  \/ x[1] = "start" /\ x[2] \in RaisesOf(v, t)
  \/ x[1] = "stop" /\ x[2] \in HaltsOf(v, t)
  \/ x[1] = "clone"

\* q is what is left of a command v t.
Loop(q, v, t) ==
  /\ q \in Seq(StepType)
  /\ \A i \in DOMAIN q : Belongs(q[i], v, t)
  /\ \A i, j \in DOMAIN q : i < j => MayFollow(q[i], q[j])

\* q is all of it.
Whole(q, v, t) ==
  /\ \A s \in RaisesOf(v, t) : Has(q, <<"check", s>>) \/ Has(q, <<"start", s>>)
  /\ \A s \in HaltsOf(v, t) : Has(q, <<"stop", s>>)
  /\ \A s : Has(q, <<"start", s>>) => v = "resume"

\* The verbs that hajimectl has.
Verbs == {"start", "stop", "restart", "save", "resume", "snapshot", "jail-snapshot",
          "jail-rollback"}

LEMMA SweepSteps ==
  ASSUME NEW a \in {"check", "start", "stop", "look"}, NEW S \in SUBSET Services,
         NEW q, Sweep(q, a, S)
  PROVE  /\ q \in Seq(StepType)
         /\ \A i \in DOMAIN q : q[i][1] = a /\ q[i][2] \in S
<1>1. q \in Seq({a} \X S) /\ {a} \X S \subseteq StepType
  BY DEF Sweep, StepType
<1>2. \A i \in DOMAIN q : q[i] \in {a} \X S
  BY <1>1
<1> QED BY <1>1, <1>2, SeqMonotonic

\* A sweep backwards.
LEMMA SweepBack ==
  ASSUME NEW S \in SUBSET Services, NEW q, Sweep(q, "stop", S), NEW r, r = Reverse(q)
  PROVE  /\ r \in Seq(StepType)
         /\ \A i \in DOMAIN r : r[i][1] = "stop" /\ r[i][2] \in S
         /\ \A i, j \in DOMAIN r : i < j => Place(r[j][2]) < Place(r[i][2])
         /\ \A x : Has(q, x) => Has(r, x)
<1>1. /\ q \in Seq(StepType) /\ Len(q) \in Nat /\ DOMAIN q = 1..Len(q)
      /\ \A i \in DOMAIN q : q[i][1] = "stop" /\ q[i][2] \in S
  BY SweepSteps
<1>2. r = [i \in 1..Len(q) |-> q[(Len(q) - i) + 1]]
  BY DEF Reverse
<1>3. \A i \in 1..Len(q) : (Len(q) - i) + 1 \in 1..Len(q)
  BY <1>1
<1>4. r \in [1..Len(q) -> StepType]
  <2>1. \A i \in 1..Len(q) : q[i] \in StepType
    BY <1>1
  <2> QED BY <1>2, <1>3, <2>1
<1>5. r \in Seq(StepType) /\ DOMAIN r = 1..Len(q)
  BY <1>1, <1>4
<1>6. \A i \in DOMAIN r : r[i] = q[(Len(q) - i) + 1]
  BY <1>2, <1>5
<1>7. ASSUME NEW i \in DOMAIN r, NEW j \in DOMAIN r, i < j
      PROVE  Place(r[j][2]) < Place(r[i][2])
  <2>1. (Len(q) - j) + 1 \in DOMAIN q /\ (Len(q) - i) + 1 \in DOMAIN q
        /\ (Len(q) - j) + 1 < (Len(q) - i) + 1
    BY <1>1, <1>3, <1>5, <1>7
  <2> QED BY <1>6, <2>1 DEF Sweep
<1>8. ASSUME NEW x, Has(q, x)
      PROVE  Has(r, x)
  <2>1. PICK i \in DOMAIN q : q[i] = x
    BY <1>8 DEF Has
  <2>2. (Len(q) - i) + 1 \in DOMAIN r /\ (Len(q) - ((Len(q) - i) + 1)) + 1 = i
    BY <1>1, <1>3, <1>5
  <2> QED BY <1>6, <2>1, <2>2 DEF Has
<1> QED BY <1>1, <1>3, <1>5, <1>6, <1>7, <1>8

\* The loops of hajimectl: what a command does in them, and in which order.
LEMMA StepsLoop ==
  ASSUME NEW v \in Verbs, NEW t \in Services \cup Jails \cup {None}, Taken(v, t)
  PROVE  Loop(Steps(v, t), v, t) /\ Whole(Steps(v, t), v, t)
<1>1. Optional \in SUBSET Services
  BY DEF Optional
<1>2. ASSUME v \in {"start", "resume"}
      PROVE  Loop(Steps(v, t), v, t) /\ Whole(Steps(v, t), v, t)
  <2> DEFINE a == IF v = "start" THEN "check" ELSE "start"
             S == RaisesOf(v, t)
             q == InOrder(a, S)
  <2>1. Steps(v, t) = q
    BY <1>2 DEF Steps, RaisesOf, StartSteps, ResumeSteps
  <2>2. S \in SUBSET Services /\ HaltsOf(v, t) = {}
    BY <1>1, <1>2 DEF RaisesOf, HaltsOf, Scope, Taken
  <2>3. a \in {"check", "start", "stop", "look"} /\ a \in {"check", "start"}
    OBVIOUS
  <2>4. (a = "start" => v = "resume") /\ (a = "check" => v # "resume")
    BY <1>2
  <2> HIDE DEF a, S
  <2>5. Sweep(q, a, S) /\ \A s \in S : Has(q, <<a, s>>)
    BY <2>2, InOrderSweeps
  <2> HIDE DEF q
  <2>6. q \in Seq(StepType) /\ \A i \in DOMAIN q : q[i][1] = a /\ q[i][2] \in S
    BY <2>2, <2>3, <2>5, SweepSteps
  <2>7. \A i \in DOMAIN q : Belongs(q[i], v, t)
    BY <2>3, <2>4, <2>6 DEF Belongs, S
  <2>8. \A i, j \in DOMAIN q : i < j => MayFollow(q[i], q[j])
    BY <2>3, <2>5, <2>6 DEF Sweep, MayFollow
  <2>9. \A s : Has(q, <<"start", s>>) => v = "resume"
    BY <2>4, <2>6 DEF Has
  <2>10. \A s \in S : Has(q, <<"check", s>>) \/ Has(q, <<"start", s>>)
    BY <2>3, <2>5
  <2> QED BY <2>1, <2>2, <2>6, <2>7, <2>8, <2>9, <2>10 DEF Loop, Whole, S
<1>3. ASSUME v \in {"stop", "save"}
      PROVE  Loop(Steps(v, t), v, t) /\ Whole(Steps(v, t), v, t)
  <2> DEFINE S == HaltsOf(v, t)
             q == InOrder("stop", S)
             r == Reverse(q)
  <2>1. Steps(v, t) = r
    BY <1>3 DEF Steps, HaltsOf, StopSteps, SaveSteps
  <2>2. S \in SUBSET Services /\ RaisesOf(v, t) = {}
    BY <1>1, <1>3 DEF RaisesOf, HaltsOf, Scope, Taken
  <2> HIDE DEF S
  <2>3. Sweep(q, "stop", S) /\ \A s \in S : Has(q, <<"stop", s>>)
    BY <2>2, InOrderSweeps
  <2> HIDE DEF q
  <2>4. /\ r \in Seq(StepType)
        /\ \A i \in DOMAIN r : r[i][1] = "stop" /\ r[i][2] \in S
        /\ \A i, j \in DOMAIN r : i < j => Place(r[j][2]) < Place(r[i][2])
        /\ \A x : Has(q, x) => Has(r, x)
    BY <2>2, <2>3, SweepBack
  <2> HIDE DEF r
  <2>5. Loop(r, v, t)
    BY <2>4 DEF Loop, Belongs, MayFollow, S
  <2>6. \A s : ~Has(r, <<"start", s>>)
    BY <2>4 DEF Has
  <2>7. \A s \in S : Has(r, <<"stop", s>>)
    BY <2>3, <2>4
  <2>8. Whole(r, v, t)
    BY <2>2, <2>6, <2>7 DEF Whole, S
  <2> QED BY <2>1, <2>5, <2>8
<1>4. ASSUME v = "restart"
      PROVE  Loop(Steps(v, t), v, t) /\ Whole(Steps(v, t), v, t)
  <2> DEFINE a == InOrder("stop", {t})
             b == Reverse(a)
             c == InOrder("check", {t})
             q == b \o c
  <2>1. /\ t \in Services /\ {t} \in SUBSET Services /\ Scope(t) = {t}
        /\ RaisesOf(v, t) = {t} /\ HaltsOf(v, t) = {t}
    BY <1>4, PlannerAssumption DEF Taken, Scope, RaisesOf, HaltsOf
  <2>2. Steps(v, t) = q
    BY <1>4, <2>1 DEF Steps, StopSteps, StartSteps
  <2>3. Sweep(a, "stop", {t}) /\ Has(a, <<"stop", t>>)
    BY <2>1, InOrderSweeps
  <2>4. Sweep(c, "check", {t}) /\ Has(c, <<"check", t>>)
    BY <2>1, InOrderSweeps
  <2> HIDE DEF a, c
  <2>5. /\ b \in Seq(StepType)
        /\ \A i \in DOMAIN b : b[i][1] = "stop" /\ b[i][2] \in {t}
        /\ \A i, j \in DOMAIN b : i < j => Place(b[j][2]) < Place(b[i][2])
        /\ Has(b, <<"stop", t>>)
    BY <2>1, <2>3, SweepBack
  <2>6. /\ c \in Seq(StepType)
        /\ \A i \in DOMAIN c : c[i][1] = "check" /\ c[i][2] \in {t}
        /\ \A i, j \in DOMAIN c : i < j => Place(c[i][2]) < Place(c[j][2])
    BY <2>1, <2>4, SweepSteps DEF Sweep
  <2> HIDE DEF b
  <2>7. /\ q \in Seq(StepType) /\ Len(b) \in Nat /\ Len(c) \in Nat
        /\ Len(q) = Len(b) + Len(c)
        /\ DOMAIN q = 1..Len(q) /\ DOMAIN b = 1..Len(b) /\ DOMAIN c = 1..Len(c)
        /\ \A i \in 1..Len(b) : q[i] = b[i]
        /\ \A i \in 1..Len(c) : q[Len(b) + i] = c[i]
    BY <2>5, <2>6, ConcatProperties
  <2>8. \A i \in DOMAIN q :
          \/ i \in DOMAIN b /\ q[i] = b[i]
          \/ /\ i - Len(b) \in DOMAIN c /\ q[i] = c[i - Len(b)] /\ i > Len(b)
    <3> TAKE i \in DOMAIN q
    <3>1. CASE i <= Len(b)
      BY <2>7, <3>1
    <3>2. CASE i > Len(b)
      <4>1. i - Len(b) \in 1..Len(c) /\ Len(b) + (i - Len(b)) = i
        BY <2>7, <3>2
      <4> QED BY <2>7, <3>2, <4>1
    <3> QED BY <2>7, <3>1, <3>2
  <2> HIDE DEF q
  <2>9. \A i \in DOMAIN q : Belongs(q[i], v, t) /\ q[i][1] # "start"
    BY <1>4, <2>1, <2>5, <2>6, <2>8 DEF Belongs
  <2>10. ASSUME NEW i \in DOMAIN q, NEW j \in DOMAIN q, i < j
         PROVE  MayFollow(q[i], q[j])
    <3>1. CASE j \in DOMAIN b /\ q[j] = b[j]
      <4>1. i \in DOMAIN b /\ q[i] = b[i]
        BY <2>7, <2>10, <3>1
      <4> QED BY <2>5, <2>10, <3>1, <4>1 DEF MayFollow
    <3>2. CASE i \in DOMAIN b /\ q[i] = b[i] /\ j - Len(b) \in DOMAIN c /\ q[j] = c[j - Len(b)]
      BY <2>5, <2>6, <3>2 DEF MayFollow
    <3>3. CASE /\ i - Len(b) \in DOMAIN c /\ q[i] = c[i - Len(b)]
               /\ j - Len(b) \in DOMAIN c /\ q[j] = c[j - Len(b)]
      <4>1. i - Len(b) < j - Len(b)
        BY <2>7, <2>10
      <4>2. Place(q[i][2]) < Place(q[j][2])
        BY <2>6, <3>3, <4>1
      <4> QED BY <2>6, <3>3, <4>2 DEF MayFollow
    <3> QED BY <2>8, <3>1, <3>2, <3>3
  <2>11. Has(q, <<"stop", t>>) /\ Has(q, <<"check", t>>)
    <3>1. PICK i \in DOMAIN b : b[i] = <<"stop", t>>
      BY <2>5 DEF Has
    <3>2. i \in DOMAIN q /\ q[i] = <<"stop", t>>
      BY <2>7, <3>1
    <3>3. PICK j \in DOMAIN c : c[j] = <<"check", t>>
      BY <2>4 DEF Has
    <3>4. Len(b) + j \in DOMAIN q /\ q[Len(b) + j] = <<"check", t>>
      BY <2>7, <3>3
    <3> QED BY <3>2, <3>4 DEF Has
  <2>12. \A s : ~Has(q, <<"start", s>>)
    BY <2>9 DEF Has
  <2>13. Loop(q, v, t)
    BY <2>7, <2>9, <2>10 DEF Loop
  <2>14. Whole(q, v, t)
    BY <2>1, <2>11, <2>12 DEF Whole
  <2> QED BY <2>2, <2>13, <2>14
<1>5. ASSUME v \in {"snapshot", "jail-snapshot"}
      PROVE  Loop(Steps(v, t), v, t) /\ Whole(Steps(v, t), v, t)
  <2> DEFINE x == <<"clone", t>>
  <2>1. Steps(v, t) = <<x>> /\ x \in StepType /\ x[1] = "clone"
    BY <1>5 DEF Steps, StepType
  <2> HIDE DEF x
  <2>2. <<x>> \in Seq(StepType) /\ DOMAIN <<x>> = {1} /\ <<x>>[1] = x
    BY <2>1
  <2>3. Loop(<<x>>, v, t)
    BY <2>1, <2>2 DEF Loop, Belongs
  <2>4. RaisesOf(v, t) = {} /\ HaltsOf(v, t) = {}
    BY <1>5 DEF RaisesOf, HaltsOf
  <2>5. \A s : ~Has(<<x>>, <<"start", s>>)
    BY <2>1, <2>2 DEF Has
  <2> QED BY <2>1, <2>3, <2>4, <2>5 DEF Whole
<1> QED BY <1>2, <1>3, <1>4, <1>5 DEF Verbs, Taken

\* q is x and then r.
Starting(q, x, r) == q # <<>> /\ x = Head(q) /\ r = Tail(q)

\* One step of a loop is done.
LEMMA StepDone ==
  ASSUME NEW v, NEW t, NEW q, Loop(q, v, t), NEW x, NEW r, Starting(q, x, r)
  PROVE  /\ Loop(r, v, t) /\ Belongs(x, v, t) /\ x \in StepType
         /\ \A y : Has(q, y) <=> y = x \/ Has(r, y)
         /\ \A y : Has(r, y) => MayFollow(x, y)
<1>0. q # <<>> /\ x = Head(q) /\ r = Tail(q)
  BY DEF Starting
<1>1. /\ q \in Seq(StepType) /\ Len(q) \in Nat /\ Len(q) > 0 /\ DOMAIN q = 1..Len(q)
      /\ x = q[1] /\ x \in StepType
  BY <1>0 DEF Loop
<1>2. /\ r \in Seq(StepType) /\ Len(r) = Len(q) - 1 /\ DOMAIN r = 1..(Len(q) - 1)
      /\ \A i \in 1..(Len(q) - 1) : r[i] = q[i + 1]
  BY <1>0, <1>1
<1>3. \A i \in DOMAIN r : i + 1 \in DOMAIN q /\ 1 < i + 1 /\ r[i] = q[i + 1]
  BY <1>1, <1>2
<1>4. Belongs(x, v, t) /\ \A i \in DOMAIN r : Belongs(r[i], v, t)
  BY <1>1, <1>3 DEF Loop
<1>5. \A i, j \in DOMAIN r : i < j => MayFollow(r[i], r[j])
  <2> TAKE i, j \in DOMAIN r
  <2>1. i < j => i + 1 < j + 1
    BY <1>2
  <2> QED BY <1>3, <2>1 DEF Loop
<1>6. ASSUME NEW y
      PROVE  /\ Has(q, y) <=> y = x \/ Has(r, y)
             /\ Has(r, y) => MayFollow(x, y)
  <2>1. ASSUME Has(q, y), y # x PROVE Has(r, y)
    <3>1. PICK i \in DOMAIN q : q[i] = y
      BY <2>1 DEF Has
    <3>2. i # 1
      BY <1>1, <2>1, <3>1
    <3>3. i - 1 \in DOMAIN r /\ (i - 1) + 1 = i
      BY <1>1, <1>2, <3>2
    <3> QED BY <1>3, <3>1, <3>3 DEF Has
  <2>2. ASSUME Has(r, y) PROVE Has(q, y) /\ MayFollow(x, y)
    <3>1. PICK i \in DOMAIN r : r[i] = y
      BY <2>2 DEF Has
    <3>2. i + 1 \in DOMAIN q /\ q[i + 1] = y /\ 1 \in DOMAIN q /\ 1 < i + 1
      BY <1>1, <1>3, <3>1
    <3> QED BY <1>1, <3>2 DEF Has, Loop
  <2>3. Has(q, x)
    BY <1>1 DEF Has
  <2> QED BY <2>1, <2>2, <2>3
<1> QED BY <1>1, <1>2, <1>4, <1>5, <1>6 DEF Loop

\* r is q with the check at its head turned into a start.
Turned(q, s, r) ==
  q # <<>> /\ Head(q) = <<"check", s>> /\ r = <<<<"start", s>>>> \o Tail(q)

LEMMA CheckDone ==
  ASSUME NEW v, NEW t, NEW q, Loop(q, v, t), NEW s, NEW r, Turned(q, s, r)
  PROVE  /\ Loop(r, v, t)
         /\ \A y : Has(r, y) <=> y = <<"start", s>> \/ Has(Tail(q), y)
<1> DEFINE u == Tail(q)
           x == <<"start", s>>
           z == <<"check", s>>
<1>0. /\ z[1] = "check" /\ z[2] = s /\ x[1] = "start" /\ x[2] = s
      /\ q # <<>> /\ z = Head(q) /\ r = <<x>> \o Tail(q)
  BY DEF Turned
<1> HIDE DEF x, z
<1>1. /\ Loop(u, v, t) /\ Belongs(z, v, t) /\ z \in StepType
      /\ \A y : Has(u, y) => MayFollow(z, y)
  <2>1. Starting(q, z, u)
    BY <1>0 DEF Starting
  <2> HIDE DEF u
  <2> QED BY <2>1, StepDone
<1>2. Belongs(x, v, t)
  BY <1>0, <1>1 DEF Belongs
<1>3. x \in StepType
  BY <1>1 DEF StepType, x, z
<1>4. \A y : Has(u, y) => MayFollow(x, y)
  BY <1>0, <1>1 DEF MayFollow
<1> HIDE DEF u
<1> DEFINE w == <<x>>
<1>5. /\ u \in Seq(StepType) /\ w \in Seq(StepType) /\ r = w \o u
      /\ Len(w) = 1 /\ w[1] = x
  BY <1>0, <1>1, <1>3 DEF Loop, u
<1> HIDE DEF w
<1>6. /\ r \in Seq(StepType) /\ Len(u) \in Nat /\ DOMAIN u = 1..Len(u)
      /\ DOMAIN r = 1..(Len(u) + 1) /\ r[1] = x
      /\ \A i \in 1..Len(u) : r[i + 1] = u[i]
  <2>1. /\ r \in Seq(StepType) /\ Len(r) = 1 + Len(u) /\ Len(u) \in Nat
        /\ DOMAIN u = 1..Len(u) /\ DOMAIN r = 1..Len(r)
        /\ \A i \in 1..(1 + Len(u)) : r[i] = IF i <= 1 THEN w[i] ELSE u[i - 1]
    <3>1. /\ w \o u \in Seq(StepType) /\ Len(w \o u) = Len(w) + Len(u)
          /\ \A i \in 1..(Len(w) + Len(u)) :
                (w \o u)[i] = IF i <= Len(w) THEN w[i] ELSE u[i - Len(w)]
      BY <1>5, ConcatProperties
    <3>2. Len(u) \in Nat /\ DOMAIN u = 1..Len(u)
      BY <1>5
    <3>3. DOMAIN r = 1..Len(r)
      BY <1>5, <3>1
    <3> QED BY <1>5, <3>1, <3>2, <3>3
  <2>2. r[1] = x
    BY <1>5, <2>1
  <2>3. \A i \in 1..Len(u) : r[i + 1] = u[i]
    <3> TAKE i \in 1..Len(u)
    <3>1. i + 1 \in 1..(1 + Len(u)) /\ ~(i + 1 <= 1) /\ (i + 1) - 1 = i
      BY <2>1
    <3> QED BY <2>1, <3>1
  <2> QED BY <2>1, <2>2, <2>3
<1>7. \A i \in DOMAIN r : i = 1 \/ (i - 1 \in DOMAIN u /\ r[i] = u[i - 1])
  <2> TAKE i \in DOMAIN r
  <2>1. i # 1 => i - 1 \in 1..Len(u) /\ (i - 1) + 1 = i
    BY <1>6
  <2> QED BY <1>6, <2>1
<1>8. \A i \in DOMAIN r : Belongs(r[i], v, t)
  BY <1>1, <1>2, <1>6, <1>7 DEF Loop
<1>9. ASSUME NEW i \in DOMAIN r, NEW j \in DOMAIN r, i < j
      PROVE  MayFollow(r[i], r[j])
  <2>1. j - 1 \in DOMAIN u /\ r[j] = u[j - 1]
    BY <1>6, <1>7, <1>9
  <2>2. CASE i = 1
    BY <1>4, <1>6, <2>1, <2>2 DEF Has
  <2>3. CASE i # 1
    <3>1. i - 1 \in DOMAIN u /\ r[i] = u[i - 1] /\ i - 1 < j - 1
      BY <1>6, <1>7, <1>9, <2>3
    <3> QED BY <1>1, <2>1, <3>1 DEF Loop
  <2> QED BY <2>2, <2>3
<1>10. ASSUME NEW y
       PROVE  Has(r, y) <=> y = x \/ Has(u, y)
  <2>1. Has(r, y) => y = x \/ Has(u, y)
    BY <1>6, <1>7 DEF Has
  <2>2. Has(r, x)
    <3>1. 1 \in DOMAIN r
      BY <1>6
    <3> QED BY <1>6, <3>1 DEF Has
  <2>3. ASSUME Has(u, y) PROVE Has(r, y)
    <3>1. PICK i \in 1..Len(u) : u[i] = y
      BY <1>6, <2>3 DEF Has
    <3>2. i + 1 \in DOMAIN r /\ r[i + 1] = y
      BY <1>6, <3>1
    <3> QED BY <3>2 DEF Has
  <2> QED BY <2>1, <2>2, <2>3
<1> QED BY <1>6, <1>8, <1>9, <1>10 DEF Loop, x, u

----------------------------------------------------------------------------
(* What a session keeps to *)

\* What p's command starts, and what it stops.
Raises(p) == RaisesOf(Verb(p), Target(p))
Halts(p) == HaltsOf(Verb(p), Target(p))

\* What p's command has still to start, and to stop.
ToRaise(p) ==
  {s \in Services : Has(script[p], <<"check", s>>) \/ Has(script[p], <<"start", s>>)}
ToHalt(p) == {s \in Services : Has(script[p], <<"stop", s>>)}
ToLook(p) == {s \in Services : Has(script[p], <<"look", s>>)}

\* p has yet to learn what to do.
Thinking(p) == \E i \in DOMAIN script[p] : script[p][i][1] \in {"look", "plan", "answer"}

\* The looks before a plan, and the plan.
Questions(q, i) ==
  /\ q \in Seq(StepType) /\ q # <<>>
  /\ q[Len(q)] = <<"plan", i>>
  /\ \A j \in 1..(Len(q) - 1) : q[j][1] = "look" /\ q[j][2] \in Services

\* While p thinks it does nothing, and what was up when it began and is not
\* somebody else's work is seen or about to be.
ThinkInv(p) ==
  Thinking(p) =>
    /\ verb[p] = "ask" /\ ~failed[p]
    /\ up \subseteq before[p] \cup gained[p]
    /\ \E i \in Intents :
         \/ /\ Questions(script[p], i) /\ plan[p] = Unclear
            /\ i = "start" => up \ gained[p] \subseteq seen[p] \cup ToLook(p)
         \/ script[p] = <<<<"answer", i>>>> /\ plan[p].outcome = "confirm"

\* What is done stands on one side of what is left, in the order of the table,
\* and nothing is started while something is still to be stopped.
LoopInv(p) ==
  ~Thinking(p) =>
    /\ Loop(script[p], Verb(p), Target(p))
    /\ \A a \in Raises(p) \ ToRaise(p) : \A b \in ToRaise(p) : Place(a) < Place(b)
    /\ \A a \in Halts(p) \ ToHalt(p) : \A b \in ToHalt(p) : Place(b) < Place(a)
    /\ ToHalt(p) # {} => Raises(p) \subseteq ToRaise(p)

\* What a start has come by is up, was taken down, or failed.
GoalInv(p) ==
  ~Thinking(p) /\ exit[p] \in {"none", "ok"} =>
    \A s \in Raises(p) :
      s \in up \cup lost[p] \/ s \in ToRaise(p) \/ (exit[p] = "none" /\ failed[p])

\* A service that a restart is past stopping has been down, or a call failed.
RestartInv(p) ==
  ~Thinking(p) /\ Verb(p) = "restart" /\ exit[p] \in {"none", "ok"} /\ Target(p) \in kept[p] =>
    faults > 0 \/ Has(script[p], <<"stop", Target(p)>>)

\* Why a start failed.
BlameInv(p) ==
  ~Thinking(p) /\ failed[p] =>
    \/ faults > 0
    \/ Raises(p) \cap gained[p] # {}
    \/ Verb(p) = "resume" /\ before[p] \cap Optional # {}

\* A service that p is about to start and that is up already came up behind p's
\* back, or was never stopped before a resume.
StartInv(p) ==
  \A s \in up : Has(script[p], <<"start", s>>) =>
    s \in gained[p] \/ (Verb(p) = "resume" /\ s \in before[p])

\* What the planner makes of a request.
PlannedInv(p) ==
  verb[p] = "ask" =>
    /\ Verb(p) \in {"start", "stop", "restart", "jail-snapshot", "jail-rollback"} =>
         Target(p) = target[p] /\ target[p] # None
    /\ Verb(p) \in {"jail-snapshot", "jail-rollback"} => target[p] \in Jails
    /\ Verb(p) \in {"none", "save", "resume", "snapshot"} => Target(p) = None
    /\ plan[p].outcome = "confirm" => Verb(p) \in {"stop", "restart", "jail-rollback", "save"}

ExitInv(p) ==
  /\ exit[p] = "failed" => failed[p]
  /\ exit[p] \in {"ok", "refused", "usage"} => ~failed[p]
  /\ exit[p] = "usage" => target[p] \in Jails
  /\ exit[p] \in {"refused", "usage"} => Verb(p) # "resume"
  /\ verb[p] = "none" => exit[p] = "none"
  /\ verb[p] = "restart" => target[p] # None
  /\ verb[p] # "none" /\ ~Thinking(p) /\ exit[p] \notin {"refused", "usage"} =>
       Verb(p) \in {"start", "stop", "restart", "save", "resume", "snapshot", "jail-snapshot"}
  /\ kept[p] \subseteq up

\* Left alone, the machine is what p has made of it so far.
AloneInv(p) ==
  verb[p] # "none" /\ Undisturbed(p) =>
    IF Thinking(p) \/ exit[p] \in {"refused", "usage"}
    THEN up = before[p]
    ELSE /\ up = (before[p] \ (Halts(p) \ ToHalt(p))) \cup (Raises(p) \ ToRaise(p))
         /\ failed[p] <=> /\ Verb(p) = "resume"
                          /\ before[p] \cap (Raises(p) \ ToRaise(p)) # {}

\* A planned start fits beside all that others did not start meanwhile.
RoomInv(p) ==
  verb[p] = "ask" /\ plan[p].verb = "start" /\ target[p] \in Services =>
    MemoryOf((up \ gained[p]) \cup {target[p]}
             \cup (Requires(target[p]) \ gained[p])) <= Available

SessionInv(p) ==
  /\ ThinkInv(p) /\ LoopInv(p) /\ GoalInv(p) /\ RestartInv(p) /\ BlameInv(p)
  /\ StartInv(p) /\ PlannedInv(p) /\ ExitInv(p) /\ AloneInv(p) /\ RoomInv(p)

----------------------------------------------------------------------------
(* What others do *)

\* p itself does nothing.
Still(p) ==
  /\ verb'[p] = verb[p] /\ target'[p] = target[p] /\ plan'[p] = plan[p]
  /\ script'[p] = script[p] /\ seen'[p] = seen[p] /\ failed'[p] = failed[p]
  /\ exit'[p] = exit[p] /\ before'[p] = before[p]

\* The machine changes without p.
Elsewhere(p) ==
  /\ faults \in Nat /\ faults' \in Nat /\ faults <= faults'
  /\ \/ \E s \in Services :
          /\ up' = up \cup {s} /\ gained'[p] = gained[p] \cup {s}
          /\ lost'[p] = lost[p] /\ kept'[p] = kept[p]
     \/ \E s \in Services :
          /\ up' = up \ {s} /\ gained'[p] = gained[p]
          /\ lost'[p] = lost[p] \cup {s} /\ kept'[p] = kept[p] \ {s}
     \/ up' = up /\ gained'[p] = gained[p] /\ lost'[p] = lost[p] /\ kept'[p] = kept[p]

\* The room that a planned start needs does not grow.
LEMMA RoomStays ==
  ASSUME NEW p \in Sessions, RoomInv(p), up \in SUBSET Services, up' \in SUBSET Services,
         verb'[p] = verb[p], target'[p] = target[p], plan'[p] = plan[p],
         gained[p] \subseteq gained'[p],
         target[p] \in Services => up' \ gained'[p] \subseteq (up \ gained[p]) \cup {target[p]}
  PROVE  RoomInv(p)'
<1> SUFFICES ASSUME verb[p] = "ask", plan[p].verb = "start", target[p] \in Services
             PROVE  MemoryOf((up' \ gained'[p]) \cup {target[p]}
                             \cup (Requires(target[p]) \ gained'[p])) <= Available
  BY DEF RoomInv, Requires
<1> DEFINE S == (up' \ gained'[p]) \cup {target[p]} \cup (Requires(target[p]) \ gained'[p])
           T == (up \ gained[p]) \cup {target[p]} \cup (Requires(target[p]) \ gained[p])
<1>1. S \in SUBSET Services /\ T \in SUBSET Services /\ S \subseteq T
  BY DEF Requires
<1>2. MemoryOf(T) <= Available
  BY DEF RoomInv
<1> HIDE DEF S, T
<1>3. MemoryOf(S) <= MemoryOf(T) /\ MemoryOf(S) \in Nat /\ MemoryOf(T) \in Nat
  BY <1>1, MemoryGrows, MemoryType
<1>4. MemoryOf(S) <= Available
  BY <1>2, <1>3, PlannerAssumption
<1> QED BY <1>4 DEF S

LEMMA Bystander ==
  ASSUME NEW p \in Sessions, SessionInv(p), Still(p), Elsewhere(p),
         up \in SUBSET Services, up' \in SUBSET Services
  PROVE  SessionInv(p)'
<1>1. /\ verb'[p] = verb[p] /\ target'[p] = target[p] /\ plan'[p] = plan[p]
      /\ script'[p] = script[p] /\ seen'[p] = seen[p] /\ failed'[p] = failed[p]
      /\ exit'[p] = exit[p] /\ before'[p] = before[p]
  BY DEF Still
<1>2. /\ Verb(p)' = Verb(p) /\ Target(p)' = Target(p)
      /\ (Thinking(p)' <=> Thinking(p)) /\ ToRaise(p)' = ToRaise(p)
      /\ ToHalt(p)' = ToHalt(p) /\ ToLook(p)' = ToLook(p)
  BY <1>1 DEF Verb, Target, Thinking, ToRaise, ToHalt, ToLook
<1>3. Raises(p)' = Raises(p) /\ Halts(p)' = Halts(p)
  BY <1>2 DEF Raises, Halts
<1>4. /\ faults \in Nat /\ faults' \in Nat /\ faults <= faults'
      /\ gained[p] \subseteq gained'[p] /\ lost[p] \subseteq lost'[p] /\ kept'[p] \subseteq kept[p]
      /\ up' \ gained'[p] \subseteq up \ gained[p]
      /\ up' \subseteq up \cup gained'[p]
      /\ up \subseteq up' \cup lost'[p]
  BY DEF Elsewhere
<1>5. ThinkInv(p)'
  BY <1>1, <1>2, <1>4 DEF ThinkInv, SessionInv
<1>6. LoopInv(p)'
  BY <1>1, <1>2, <1>3 DEF LoopInv, SessionInv
<1>7. GoalInv(p)'
  BY <1>1, <1>2, <1>3, <1>4 DEF GoalInv, SessionInv
<1>8. RestartInv(p)'
  BY <1>1, <1>2, <1>4 DEF RestartInv, SessionInv
<1>9. BlameInv(p)'
  BY <1>1, <1>2, <1>3, <1>4 DEF BlameInv, SessionInv
<1>10. StartInv(p)'
  BY <1>1, <1>2, <1>4 DEF StartInv, SessionInv
<1>11. PlannedInv(p)'
  BY <1>1, <1>2 DEF PlannedInv, SessionInv
<1>12. ExitInv(p)'
  <2>1. kept'[p] \subseteq up'
    BY DEF Elsewhere, ExitInv, SessionInv
  <2> QED BY <1>1, <1>2, <2>1 DEF ExitInv, SessionInv
<1>13. AloneInv(p)'
  <2>1. Undisturbed(p)' => Undisturbed(p) /\ up' = up
    BY <1>4 DEF Undisturbed, Elsewhere
  <2> QED BY <1>1, <1>2, <1>3, <2>1 DEF AloneInv, SessionInv
<1>14. RoomInv(p)'
  BY <1>1, <1>4, RoomStays DEF SessionInv
<1> QED BY <1>5, <1>6, <1>7, <1>8, <1>9, <1>10, <1>11, <1>12, <1>13, <1>14 DEF SessionInv

LEMMA StepTypes ==
  ASSUME TypeOK, NEW p \in Sessions
  PROVE  /\ script[p] \in Seq(StepType)
         /\ script[p] # <<>> => /\ Head(script[p]) = script[p][1] /\ 1 \in DOMAIN script[p]
                                /\ Len(script[p]) \in Nat \ {0}
                                /\ Tail(script[p]) \in Seq(StepType)
                                /\ Head(script[p]) \in StepType
<1>1. script[p] \in Seq(StepType)
  BY DEF TypeOK, StepType
<1> HIDE DEF StepType
<1> QED BY <1>1

LEMMA LoopsAct ==
  ASSUME NEW p \in Sessions, NEW v, NEW t, Loop(script[p], v, t)
  PROVE  ~Thinking(p)
BY DEF Loop, Belongs, Thinking

\* The first step of a script tells what kind of script it is.
LEMMA FirstTells ==
  ASSUME TypeOK, NEW p \in Sessions, ThinkInv(p), NEW a, NEW s,
         script[p] # <<>>, Head(script[p]) = <<a, s>>
  PROVE  Thinking(p) <=> a \in {"look", "plan", "answer"}
<1>1. script[p][1] = <<a, s>> /\ 1 \in DOMAIN script[p] /\ Len(script[p]) \in Nat \ {0}
  BY StepTypes
<1>2. script[p][1][1] = a
  BY <1>1
<1>3. a \in {"look", "plan", "answer"} => Thinking(p)
  BY <1>1, <1>2 DEF Thinking
<1>4. ASSUME Thinking(p) PROVE a \in {"look", "plan", "answer"}
  <2>1. PICK i \in Intents :
          \/ Questions(script[p], i)
          \/ script[p] = <<<<"answer", i>>>>
    BY <1>4 DEF ThinkInv
  <2>2. CASE Questions(script[p], i)
    <3>1. CASE Len(script[p]) = 1
      BY <1>1, <1>2, <2>2, <3>1 DEF Questions
    <3>2. CASE Len(script[p]) # 1
      <4> DEFINE n == Len(script[p])
      <4>1. n \in Nat \ {0} /\ n # 1
        BY <1>1, <3>2
      <4> HIDE DEF n
      <4>2. 1 \in 1..(n - 1)
        BY <4>1
      <4> QED BY <1>2, <2>2, <4>2 DEF Questions, n
    <3> QED BY <3>1, <3>2
  <2>3. CASE script[p] = <<<<"answer", i>>>>
    BY <1>2, <2>3
  <2> QED BY <2>1, <2>2, <2>3
<1> QED BY <1>3, <1>4

\* A step of a loop leaves the loop.
LEMMA LoopMoves ==
  ASSUME TypeOK, NEW p \in Sessions, ThinkInv(p), LoopInv(p), NEW a, NEW s,
         a \in {"check", "start", "stop", "clone"}, s \in Services \/ a = "clone",
         script[p] # <<>>, Head(script[p]) = <<a, s>>, script'[p] = Tail(script[p]),
         verb'[p] = verb[p], target'[p] = target[p], plan'[p] = plan[p]
  PROVE  /\ ~Thinking(p) /\ ~Thinking(p)'
         /\ Verb(p)' = Verb(p) /\ Target(p)' = Target(p)
         /\ Raises(p)' = Raises(p) /\ Halts(p)' = Halts(p)
         /\ LoopInv(p)'
         /\ \A y : Has(script'[p], y) => Has(script[p], y)
         /\ a = "check" => Verb(p) # "resume"
         /\ a \in {"check", "start"} =>
              /\ s \in Raises(p) \cap ToRaise(p)
              /\ ToRaise(p)' = ToRaise(p) \ {s} /\ ToHalt(p) = {} /\ ToHalt(p)' = {}
         /\ a = "stop" =>
              /\ s \in Halts(p) \cap ToHalt(p)
              /\ ToHalt(p)' = ToHalt(p) \ {s} /\ ToRaise(p)' = ToRaise(p)
              /\ Raises(p) \subseteq ToRaise(p)
         /\ a = "clone" => ToRaise(p)' = ToRaise(p) /\ ToHalt(p)' = ToHalt(p)
         /\ \A y : Has(script[p], y) => y = <<a, s>> \/ Has(script'[p], y)
<1> DEFINE x == <<a, s>>
           v == Verb(p)
           t == Target(p)
<1>0. /\ x[1] = a /\ x[2] = s /\ x = Head(script[p])
      /\ script[p] # <<>> /\ Tail(script[p]) = script'[p]
  OBVIOUS
<1>1. ~Thinking(p)
  BY FirstTells
<1>2. /\ Verb(p)' = Verb(p) /\ Target(p)' = Target(p)
  BY DEF Verb, Target
<1>3. Raises(p)' = Raises(p) /\ Halts(p)' = Halts(p)
  BY <1>2 DEF Raises, Halts
<1>4. Loop(script[p], v, t)
  BY <1>1 DEF LoopInv
<1> HIDE DEF v, t, x
<1>5. /\ Loop(script'[p], v, t) /\ Belongs(x, v, t)
      /\ \A y : Has(script[p], y) <=> y = x \/ Has(script'[p], y)
      /\ \A y : Has(script'[p], y) => MayFollow(x, y)
  <2> DEFINE q == script[p]
             r == script'[p]
  <2>1. Loop(q, v, t) /\ Starting(q, x, r)
    BY <1>0, <1>4 DEF Starting
  <2> HIDE DEF q, r
  <2>2. /\ Loop(r, v, t) /\ Belongs(x, v, t)
        /\ \A y : Has(q, y) <=> y = x \/ Has(r, y)
        /\ \A y : Has(r, y) => MayFollow(x, y)
    BY <2>1, StepDone
  <2> QED BY <2>2 DEF q, r
<1>6. ~Thinking(p)'
  BY <1>5 DEF Loop, Belongs, Thinking
<1>7. \A b : /\ <<"check", b>>[1] = "check" /\ <<"check", b>>[2] = b
             /\ <<"start", b>>[1] = "start" /\ <<"start", b>>[2] = b
             /\ <<"stop", b>>[1] = "stop" /\ <<"stop", b>>[2] = b
  OBVIOUS
<1>8. ASSUME a \in {"check", "start"}, s \in Services
      PROVE  /\ s \in Raises(p) \cap ToRaise(p) /\ ToHalt(p) = {} /\ ToHalt(p)' = {}
             /\ ToRaise(p)' = ToRaise(p) \ {s}
             /\ \A b \in ToRaise(p)' : Place(s) < Place(b)
             /\ a = "check" => Verb(p) # "resume"
  <2>1. s \in Raises(p) /\ (a = "check" => Verb(p) # "resume")
    BY <1>0, <1>5, <1>8 DEF Belongs, Raises, v, t
  <2>2. s \in ToRaise(p)
    BY <1>5, <1>8 DEF ToRaise, x
  <2>3. \A b : ~Has(script'[p], <<"stop", b>>)
    BY <1>0, <1>5, <1>7, <1>8 DEF MayFollow
  <2>4. \A b : x # <<"stop", b>>
    BY <1>0, <1>7, <1>8
  <2>5. ToHalt(p) = {} /\ ToHalt(p)' = {}
    BY <1>5, <2>3, <2>4 DEF ToHalt
  <2>6. \A b : Has(script'[p], <<"check", b>>) \/ Has(script'[p], <<"start", b>>) =>
                 Place(s) < Place(b)
    BY <1>0, <1>5, <1>7, <1>8 DEF MayFollow
  <2>7. Place(s) \in Int
    BY <1>8, Places
  <2>8. ~Has(script'[p], <<"check", s>>) /\ ~Has(script'[p], <<"start", s>>)
    BY <2>6, <2>7
  <2>9. \A b : b # s => x # <<"check", b>> /\ x # <<"start", b>>
    BY <1>0, <1>7
  <2>10. ToRaise(p)' = ToRaise(p) \ {s}
    BY <1>5, <2>8, <2>9 DEF ToRaise
  <2>11. \A b \in ToRaise(p)' : Place(s) < Place(b)
    BY <2>6 DEF ToRaise
  <2> QED BY <2>1, <2>2, <2>5, <2>10, <2>11
<1>9. ASSUME a = "stop", s \in Services
      PROVE  /\ s \in Halts(p) \cap ToHalt(p) /\ ToRaise(p)' = ToRaise(p)
             /\ ToHalt(p)' = ToHalt(p) \ {s}
             /\ \A b \in ToHalt(p)' : Place(b) < Place(s)
             /\ Raises(p) \subseteq ToRaise(p)
  <2>1. s \in Halts(p)
    BY <1>0, <1>5, <1>9 DEF Belongs, Halts, v, t
  <2>2. s \in ToHalt(p)
    BY <1>5, <1>9 DEF ToHalt, x
  <2>3. \A b : x # <<"check", b>> /\ x # <<"start", b>>
    BY <1>0, <1>7, <1>9
  <2>4. ToRaise(p)' = ToRaise(p)
    BY <1>5, <2>3 DEF ToRaise
  <2>5. \A b : Has(script'[p], <<"stop", b>>) => Place(b) < Place(s)
    BY <1>0, <1>5, <1>7, <1>9 DEF MayFollow
  <2>6. Place(s) \in Int
    BY <1>9, Places
  <2>7. ~Has(script'[p], <<"stop", s>>)
    BY <2>5, <2>6
  <2>8. \A b : b # s => x # <<"stop", b>>
    BY <1>0, <1>7
  <2>9. ToHalt(p)' = ToHalt(p) \ {s}
    BY <1>5, <2>7, <2>8 DEF ToHalt
  <2>10. \A b \in ToHalt(p)' : Place(b) < Place(s)
    BY <2>5 DEF ToHalt
  <2>11. Raises(p) \subseteq ToRaise(p)
    BY <1>1, <2>2 DEF LoopInv
  <2> QED BY <2>1, <2>2, <2>4, <2>9, <2>10, <2>11
<1>10. ASSUME a = "clone"
       PROVE  ToRaise(p)' = ToRaise(p) /\ ToHalt(p)' = ToHalt(p)
  <2>1. \A b : x # <<"check", b>> /\ x # <<"start", b>> /\ x # <<"stop", b>>
    BY <1>0, <1>7, <1>10
  <2> QED BY <1>5, <2>1 DEF ToRaise, ToHalt
<1>11. LoopInv(p)'
  <2>1. Loop(script'[p], Verb(p)', Target(p)')
    BY <1>2, <1>5 DEF v, t
  <2>2. CASE a \in {"check", "start"} /\ s \in Services
    BY <1>1, <1>2, <1>3, <1>8, <2>1, <2>2 DEF LoopInv
  <2>3. CASE a = "stop" /\ s \in Services
    BY <1>1, <1>2, <1>3, <1>9, <2>1, <2>3 DEF LoopInv
  <2>4. CASE a = "clone"
    BY <1>1, <1>2, <1>3, <1>10, <2>1, <2>4 DEF LoopInv
  <2> QED BY <2>2, <2>3, <2>4
<1> QED BY <1>1, <1>2, <1>3, <1>5, <1>6, <1>8, <1>9, <1>10, <1>11 DEF x

----------------------------------------------------------------------------
(* What a command does in its loop *)

\* What every step of a loop keeps.
LEMMA LoopKeeps ==
  ASSUME NEW p \in Sessions, SessionInv(p), ~Thinking(p), ~Thinking(p)',
         exit[p] = "none",
         verb'[p] = verb[p], target'[p] = target[p], plan'[p] = plan[p], exit'[p] = exit[p],
         kept'[p] \subseteq up'
  PROVE  ThinkInv(p)' /\ PlannedInv(p)' /\ ExitInv(p)'
<1>1. Verb(p)' = Verb(p) /\ Target(p)' = Target(p)
  BY DEF Verb, Target
<1>2. PlannedInv(p)'
  BY <1>1 DEF PlannedInv, SessionInv
<1>3. ExitInv(p)'
  BY <1>1 DEF ExitInv, SessionInv
<1> QED BY <1>2, <1>3 DEF ThinkInv

LEMMA StartKeeps ==
  ASSUME TypeOK, TypeOK', NEW p \in Sessions, SessionInv(p), NEW s \in Services, Start(p, s)
  PROVE  SessionInv(p)'
<1>1. /\ verb[p] # "none" /\ exit[p] = "none" /\ script[p] # <<>>
      /\ Head(script[p]) = <<"start", s>> /\ script'[p] = Tail(script[p])
      /\ verb'[p] = verb[p] /\ target'[p] = target[p] /\ plan'[p] = plan[p]
      /\ exit'[p] = exit[p] /\ before'[p] = before[p]
  BY DEF Start, Doing, Busy, TypeOK
<1>2. /\ gained'[p] = gained[p] /\ lost'[p] = lost[p] /\ kept'[p] = kept[p]
      /\ failed[p] => failed'[p]
      /\ \/ s \notin up /\ up' = up \cup {s} /\ failed'[p] = failed[p] /\ faults' = faults
         \/ s \notin up /\ up' = up /\ faults' > 0 /\ failed'[p]
         \/ s \in up /\ up' = up /\ faults' = faults /\ failed'[p]
  <2>1. gained'[p] = gained[p] /\ lost'[p] = lost[p] /\ kept'[p] = kept[p]
    BY DEF Start, ComesUp, Nothing, TypeOK
  <2>2. failed \in [Sessions -> BOOLEAN] /\ faults \in Nat
    BY DEF TypeOK
  <2>3. CASE s \notin up /\ ComesUp(p, s) /\ UNCHANGED <<failed, faults>>
    BY <2>1, <2>3 DEF ComesUp
  <2>4. CASE s \notin up /\ Nothing /\ Fault /\ failed' = [failed EXCEPT ![p] = TRUE]
    <3>1. faults' = faults + 1 /\ failed'[p] /\ up' = up
      BY <2>2, <2>4 DEF Nothing, Fault
    <3>2. faults' > 0
      BY <2>2, <3>1
    <3> QED BY <2>1, <2>4, <3>1, <3>2
  <2>5. CASE s \in up /\ Nothing /\ faults' = faults /\ failed' = [failed EXCEPT ![p] = TRUE]
    BY <2>1, <2>2, <2>5 DEF Nothing
  <2> QED BY <2>3, <2>4, <2>5 DEF Start
<1>3. faults \in Nat /\ faults' \in Nat /\ up \subseteq Services
  BY DEF TypeOK
<1> USE DEF SessionInv
<1>4. /\ ~Thinking(p) /\ ~Thinking(p)'
      /\ Verb(p)' = Verb(p) /\ Target(p)' = Target(p)
      /\ Raises(p)' = Raises(p) /\ Halts(p)' = Halts(p)
      /\ LoopInv(p)'
      /\ \A y : Has(script'[p], y) => Has(script[p], y)
      /\ s \in Raises(p) \cap ToRaise(p)
      /\ ToRaise(p)' = ToRaise(p) \ {s} /\ ToHalt(p) = {} /\ ToHalt(p)' = {}
  BY <1>1, LoopMoves
<1>5. Has(script[p], <<"start", s>>)
  BY <1>1, StepTypes DEF Has
<1>6. s \in up => s \in gained[p] \/ (Verb(p) = "resume" /\ s \in before[p])
  BY <1>5 DEF StartInv
<1>7. ThinkInv(p)' /\ PlannedInv(p)' /\ ExitInv(p)'
  <2>1. kept'[p] \subseteq up'
    BY <1>2 DEF ExitInv
  <2> QED BY <1>1, <1>4, <2>1, LoopKeeps
<1>8. GoalInv(p)'
  BY <1>1, <1>2, <1>4 DEF GoalInv
<1>9. RestartInv(p)'
  <2>1. ASSUME Verb(p) = "restart", Target(p) \in kept[p] PROVE faults > 0
    <3>1. Target(p) \in Services
      BY <1>3, <2>1 DEF ExitInv
    <3>2. ~Has(script[p], <<"stop", Target(p)>>)
      BY <1>4, <3>1 DEF ToHalt
    <3> QED BY <1>1, <1>4, <2>1, <3>2 DEF RestartInv
  <2>2. faults > 0 => faults' > 0
    BY <1>2, <1>3
  <2> QED BY <1>2, <1>4, <2>1, <2>2 DEF RestartInv
<1>10. BlameInv(p)'
  <2>1. CASE failed[p]
    <3>1. faults > 0 => faults' > 0
      BY <1>2, <1>3
    <3> QED BY <1>1, <1>2, <1>4, <2>1, <3>1 DEF BlameInv
  <2>2. CASE s \notin up /\ faults' > 0
    BY <2>2 DEF BlameInv
  <2>3. CASE s \in up
    <3>1. Verb(p) = "resume" => Raises(p) = Optional
      BY DEF Raises, RaisesOf
    <3> QED BY <1>1, <1>2, <1>4, <1>6, <2>3, <3>1 DEF BlameInv
  <2>4. CASE failed'[p] = failed[p] /\ ~failed[p]
    BY <2>4 DEF BlameInv
  <2> QED BY <1>2, <2>1, <2>2, <2>3, <2>4
<1>11. StartInv(p)'
  <2>1. ~Has(script'[p], <<"start", s>>)
    BY <1>4 DEF ToRaise
  <2> QED BY <1>1, <1>2, <1>4, <2>1 DEF StartInv
<1>12. AloneInv(p)'
  <2> SUFFICES ASSUME Undisturbed(p)'
               PROVE  /\ up' = (before[p] \ (Halts(p) \ ToHalt(p)')) \cup (Raises(p) \ ToRaise(p)')
                      /\ failed'[p] <=> /\ Verb(p) = "resume"
                                        /\ before[p] \cap (Raises(p) \ ToRaise(p)') # {}
    BY <1>1, <1>4 DEF AloneInv
  <2>1. faults' = 0 /\ lost[p] = {} /\ gained[p] = {} /\ faults = 0
    BY <1>2, <1>3 DEF Undisturbed, Start, Fault
  <2>2. /\ up = (before[p] \ (Halts(p) \ ToHalt(p))) \cup (Raises(p) \ ToRaise(p))
        /\ failed[p] <=> /\ Verb(p) = "resume"
                         /\ before[p] \cap (Raises(p) \ ToRaise(p)) # {}
    BY <1>1, <1>4, <2>1 DEF AloneInv, Undisturbed
  <2>3. Raises(p) \ ToRaise(p)' = (Raises(p) \ ToRaise(p)) \cup {s}
    BY <1>4
  <2>4. up' = (before[p] \ (Halts(p) \ ToHalt(p)')) \cup (Raises(p) \ ToRaise(p)')
    BY <1>2, <1>4, <2>1, <2>2, <2>3
  <2>5. CASE s \notin up
    <3>1. failed'[p] = failed[p]
      BY <1>2, <2>1, <2>5
    <3>2. Verb(p) = "resume" => Halts(p) = {}
      BY DEF Halts, HaltsOf
    <3>3. Verb(p) = "resume" => s \notin before[p]
      BY <2>2, <2>5, <3>2
    <3> QED BY <2>2, <2>3, <2>4, <3>1, <3>3
  <2>6. CASE s \in up
    BY <1>2, <1>6, <2>1, <2>3, <2>4, <2>6
  <2> QED BY <2>5, <2>6
<1>13. RoomInv(p)'
  <2>1. ASSUME verb[p] = "ask", plan[p].verb = "start", target[p] \in Services
        PROVE  s = target[p]
    <3>1. Verb(p) = "start" /\ Target(p) = target[p] /\ target[p] # None
      BY <2>1 DEF Verb, PlannedInv
    <3> QED BY <1>4, <3>1 DEF Raises, RaisesOf, Scope
  <2>2. CASE verb[p] = "ask" /\ plan[p].verb = "start" /\ target[p] \in Services
    <3>1. up' \ gained'[p] \subseteq (up \ gained[p]) \cup {target[p]}
      BY <1>2, <2>1, <2>2
    <3>2. up \in SUBSET Services /\ up' \in SUBSET Services
      BY DEF TypeOK
    <3> QED BY <1>1, <1>2, <3>1, <3>2, RoomStays
  <2>3. CASE ~(verb[p] = "ask" /\ plan[p].verb = "start" /\ target[p] \in Services)
    BY <1>1, <2>3 DEF RoomInv
  <2> QED BY <2>2, <2>3
<1> QED BY <1>4, <1>7, <1>8, <1>9, <1>10, <1>11, <1>12, <1>13

LEMMA StopKeeps ==
  ASSUME TypeOK, TypeOK', NEW p \in Sessions, SessionInv(p), NEW s \in Services, Stop(p, s)
  PROVE  SessionInv(p)'
<1>1. /\ verb[p] # "none" /\ exit[p] = "none" /\ script[p] # <<>>
      /\ Head(script[p]) = <<"stop", s>> /\ script'[p] = Tail(script[p])
      /\ verb'[p] = verb[p] /\ target'[p] = target[p] /\ plan'[p] = plan[p]
      /\ exit'[p] = exit[p] /\ before'[p] = before[p] /\ failed'[p] = failed[p]
  BY DEF Stop, Doing, Busy, TypeOK
<1>2. /\ gained'[p] = gained[p] /\ lost'[p] = lost[p]
      /\ \/ s \in up /\ up' = up \ {s} /\ kept'[p] = kept[p] \ {s} /\ faults' = faults
         \/ s \in up /\ up' = up /\ kept'[p] = kept[p] /\ faults' = faults + 1
         \/ s \notin up /\ up' = up /\ kept'[p] = kept[p] /\ faults' = faults
  <2>1. CASE s \in up /\ GoesDown(p, s) /\ faults' = faults
    BY <2>1 DEF GoesDown
  <2>2. CASE s \in up /\ Nothing /\ Fault
    BY <2>2 DEF Nothing, Fault
  <2>3. CASE s \notin up /\ Nothing /\ faults' = faults
    BY <2>3 DEF Nothing
  <2> QED BY <2>1, <2>2, <2>3 DEF Stop
<1>3. /\ faults \in Nat /\ faults' \in Nat /\ up \subseteq Services
      /\ (faults > 0 => faults' > 0) /\ (faults' = 0 => faults = 0)
  <2>1. faults \in Nat /\ faults' \in Nat /\ up \subseteq Services
    BY DEF TypeOK
  <2>2. faults' = faults \/ faults' = faults + 1
    BY <1>2
  <2> QED BY <2>1, <2>2
<1> USE DEF SessionInv
<1>4. /\ ~Thinking(p) /\ ~Thinking(p)'
      /\ Verb(p)' = Verb(p) /\ Target(p)' = Target(p)
      /\ Raises(p)' = Raises(p) /\ Halts(p)' = Halts(p)
      /\ LoopInv(p)'
      /\ \A y : Has(script'[p], y) => Has(script[p], y)
      /\ s \in Halts(p) \cap ToHalt(p)
      /\ ToHalt(p)' = ToHalt(p) \ {s} /\ ToRaise(p)' = ToRaise(p)
      /\ Raises(p) \subseteq ToRaise(p)
      /\ \A y : Has(script[p], y) => y = <<"stop", s>> \/ Has(script'[p], y)
  BY <1>1, LoopMoves
<1>5. ThinkInv(p)' /\ PlannedInv(p)' /\ ExitInv(p)'
  <2>1. kept'[p] \subseteq up'
    BY <1>2 DEF ExitInv
  <2> QED BY <1>1, <1>4, <2>1, LoopKeeps
<1>6. GoalInv(p)'
  BY <1>4 DEF GoalInv
<1>7. RestartInv(p)'
  <2> SUFFICES ASSUME Verb(p) = "restart", Target(p) \in kept'[p], ~(faults' > 0)
               PROVE  Has(script'[p], <<"stop", Target(p)>>)
    BY <1>4 DEF RestartInv
  <2>1. Target(p) \in kept[p] /\ ~(faults > 0)
    BY <1>2, <1>3
  <2>2. Has(script[p], <<"stop", Target(p)>>)
    BY <1>1, <1>4, <2>1 DEF RestartInv
  <2>3. Target(p) # s
    <3>1. ASSUME faults' = faults + 1 PROVE FALSE
      BY <1>3, <3>1
    <3> QED BY <1>2, <2>1, <3>1 DEF ExitInv
  <2>4. <<"stop", Target(p)>> # <<"stop", s>>
    BY <2>3
  <2> QED BY <1>4, <2>2, <2>4
<1>8. BlameInv(p)'
  BY <1>1, <1>2, <1>3, <1>4 DEF BlameInv
<1>9. StartInv(p)'
  BY <1>1, <1>2, <1>4 DEF StartInv
<1>10. AloneInv(p)'
  <2> SUFFICES ASSUME Undisturbed(p)'
               PROVE  /\ up' = (before[p] \ (Halts(p) \ ToHalt(p)')) \cup (Raises(p) \ ToRaise(p)')
                      /\ failed'[p] <=> /\ Verb(p) = "resume"
                                        /\ before[p] \cap (Raises(p) \ ToRaise(p)') # {}
    BY <1>1, <1>4 DEF AloneInv
  <2>1. faults' = 0 /\ lost[p] = {} /\ gained[p] = {} /\ faults = 0
    BY <1>2, <1>3 DEF Undisturbed
  <2>2. /\ up = (before[p] \ (Halts(p) \ ToHalt(p))) \cup (Raises(p) \ ToRaise(p))
        /\ failed[p] <=> /\ Verb(p) = "resume"
                         /\ before[p] \cap (Raises(p) \ ToRaise(p)) # {}
    BY <1>1, <1>4, <2>1 DEF AloneInv, Undisturbed
  <2>3. up' = up \ {s} \/ (s \notin up /\ up' = up)
    BY <1>2, <2>1
  <2>4. up' = (before[p] \ (Halts(p) \ ToHalt(p)')) \cup (Raises(p) \ ToRaise(p)')
    BY <1>4, <2>2, <2>3
  <2> QED BY <1>1, <1>4, <2>2, <2>4
<1>11. RoomInv(p)'
  <2>1. up' \ gained'[p] \subseteq (up \ gained[p]) \cup {target[p]}
    BY <1>2
  <2>2. up \in SUBSET Services /\ up' \in SUBSET Services
    BY DEF TypeOK
  <2> QED BY <1>1, <1>2, <2>1, <2>2, RoomStays
<1> QED BY <1>4, <1>5, <1>6, <1>7, <1>8, <1>9, <1>10, <1>11

LEMMA CloneKeeps ==
  ASSUME TypeOK, TypeOK', NEW p \in Sessions, SessionInv(p), NEW t, Clone(p, t)
  PROVE  SessionInv(p)'
<1>1. /\ verb[p] # "none" /\ exit[p] = "none" /\ script[p] # <<>>
      /\ Head(script[p]) = <<"clone", t>> /\ script'[p] = Tail(script[p])
      /\ verb'[p] = verb[p] /\ target'[p] = target[p] /\ plan'[p] = plan[p]
      /\ exit'[p] = exit[p] /\ before'[p] = before[p]
  BY DEF Clone, Doing, Busy, TypeOK
<1>2. /\ gained'[p] = gained[p] /\ lost'[p] = lost[p] /\ up' = up /\ kept'[p] = kept[p]
      /\ \/ failed'[p] = failed[p] /\ faults' = faults
         \/ failed'[p] /\ faults' = faults + 1
  <2>1. UNCHANGED <<up, lost, gained, kept>> /\ failed \in [Sessions -> BOOLEAN]
    BY DEF Clone, Nothing, TypeOK
  <2>2. CASE UNCHANGED <<failed, faults>>
    BY <2>1, <2>2
  <2>3. CASE Fault /\ failed' = [failed EXCEPT ![p] = TRUE]
    BY <2>1, <2>3 DEF Fault
  <2> QED BY <2>2, <2>3 DEF Clone
<1>3. /\ faults \in Nat /\ faults' \in Nat
      /\ (faults > 0 => faults' > 0) /\ (faults' = 0 => faults = 0)
      /\ (faults' = faults + 1 => faults' > 0)
  <2>1. faults \in Nat /\ faults' \in Nat
    BY DEF TypeOK
  <2>2. faults' = faults \/ faults' = faults + 1
    BY <1>2
  <2> QED BY <2>1, <2>2
<1> USE DEF SessionInv
<1>4. /\ ~Thinking(p) /\ ~Thinking(p)'
      /\ Verb(p)' = Verb(p) /\ Target(p)' = Target(p)
      /\ Raises(p)' = Raises(p) /\ Halts(p)' = Halts(p)
      /\ LoopInv(p)'
      /\ \A y : Has(script'[p], y) => Has(script[p], y)
      /\ ToHalt(p)' = ToHalt(p) /\ ToRaise(p)' = ToRaise(p)
      /\ \A y : Has(script[p], y) => y = <<"clone", t>> \/ Has(script'[p], y)
  BY <1>1, LoopMoves
<1>5. ThinkInv(p)' /\ PlannedInv(p)' /\ ExitInv(p)'
  <2>1. kept'[p] \subseteq up'
    BY <1>2 DEF ExitInv
  <2> QED BY <1>1, <1>4, <2>1, LoopKeeps
<1>6. GoalInv(p)'
  BY <1>1, <1>2, <1>4 DEF GoalInv
<1>7. RestartInv(p)'
  <2>1. \A b : <<"stop", b>> # <<"clone", t>>
    OBVIOUS
  <2> QED BY <1>1, <1>2, <1>3, <1>4, <2>1 DEF RestartInv
<1>8. BlameInv(p)'
  BY <1>1, <1>2, <1>3, <1>4 DEF BlameInv
<1>9. StartInv(p)'
  BY <1>1, <1>2, <1>4 DEF StartInv
<1>10. AloneInv(p)'
  <2> SUFFICES ASSUME Undisturbed(p)'
               PROVE  /\ up' = (before[p] \ (Halts(p) \ ToHalt(p)')) \cup (Raises(p) \ ToRaise(p)')
                      /\ failed'[p] <=> /\ Verb(p) = "resume"
                                        /\ before[p] \cap (Raises(p) \ ToRaise(p)') # {}
    BY <1>1, <1>4 DEF AloneInv
  <2>1. faults' = 0 /\ lost[p] = {} /\ gained[p] = {} /\ faults = 0 /\ failed'[p] = failed[p]
    BY <1>2, <1>3 DEF Undisturbed
  <2> QED BY <1>1, <1>2, <1>4, <2>1 DEF AloneInv, Undisturbed
<1>11. RoomInv(p)'
  <2>1. up' \ gained'[p] \subseteq (up \ gained[p]) \cup {target[p]}
    BY <1>2
  <2>2. up \in SUBSET Services /\ up' \in SUBSET Services
    BY DEF TypeOK
  <2> QED BY <1>1, <1>2, <2>1, <2>2, RoomStays
<1> QED BY <1>4, <1>5, <1>6, <1>7, <1>8, <1>9, <1>10, <1>11

\* A check leaves the service as it is: it is up, or its start comes next.
LEMMA CheckMoves ==
  ASSUME TypeOK, NEW p \in Sessions, SessionInv(p), NEW s \in Services, s \notin up,
         script[p] # <<>>, Head(script[p]) = <<"check", s>>,
         script'[p] = <<<<"start", s>>>> \o Tail(script[p]),
         verb'[p] = verb[p], target'[p] = target[p], plan'[p] = plan[p]
  PROVE  /\ ~Thinking(p) /\ ~Thinking(p)'
         /\ Verb(p)' = Verb(p) /\ Target(p)' = Target(p)
         /\ Raises(p)' = Raises(p) /\ Halts(p)' = Halts(p)
         /\ LoopInv(p)'
         /\ ToRaise(p)' = ToRaise(p) /\ ToHalt(p)' = ToHalt(p) /\ ToHalt(p) = {}
         /\ \A b : Has(script'[p], <<"start", b>>) => b = s \/ Has(script[p], <<"start", b>>)
<1> USE DEF SessionInv
<1> DEFINE x == <<"start", s>>
           z == <<"check", s>>
           q == script[p]
           r == script'[p]
           v == Verb(p)
           t == Target(p)
<1>0. q # <<>> /\ Head(q) = <<"check", s>> /\ r = <<<<"start", s>>>> \o Tail(q) /\ z = Head(q)
  OBVIOUS
<1>1. ~Thinking(p)
  BY FirstTells
<1>2. Verb(p)' = Verb(p) /\ Target(p)' = Target(p)
  BY DEF Verb, Target
<1>3. Raises(p)' = Raises(p) /\ Halts(p)' = Halts(p)
  BY <1>2 DEF Raises, Halts
<1>4. Loop(q, v, t)
  BY <1>1 DEF LoopInv
<1>5. \A b : /\ <<"check", b>>[1] = "check" /\ <<"check", b>>[2] = b
             /\ <<"start", b>>[1] = "start" /\ <<"start", b>>[2] = b
             /\ <<"stop", b>>[1] = "stop" /\ <<"stop", b>>[2] = b
  OBVIOUS
<1> HIDE DEF v, t, q, r
<1>6a. Turned(q, s, r)
  BY <1>0 DEF Turned
<1>6. /\ Loop(r, v, t)
      /\ \A y : Has(r, y) <=> y = <<"start", s>> \/ Has(Tail(q), y)
  BY <1>4, <1>6a, CheckDone
<1> HIDE DEF z
<1>7a. /\ \A y : Has(q, y) <=> y = z \/ Has(Tail(q), y)
       /\ \A y : Has(Tail(q), y) => MayFollow(z, y)
  <2> DEFINE u == Tail(q)
  <2>1. Starting(q, z, u)
    BY <1>0 DEF Starting
  <2> HIDE DEF u
  <2>2. /\ \A y : Has(q, y) <=> y = z \/ Has(u, y)
        /\ \A y : Has(u, y) => MayFollow(z, y)
    BY <1>4, <2>1, StepDone
  <2> QED BY <2>2 DEF u
<1>7. /\ \A y : Has(q, y) <=> y = <<"check", s>> \/ Has(Tail(q), y)
      /\ \A y : Has(Tail(q), y) => MayFollow(<<"check", s>>, y)
  BY <1>7a, Zenon DEF z
<1>8. ~Thinking(p)'
  BY <1>6 DEF Loop, Belongs, Thinking, r
<1>9. ToRaise(p)' = ToRaise(p)
  BY <1>5, <1>6, <1>7 DEF ToRaise, q, r
<1>10. ToHalt(p) = {} /\ ToHalt(p)' = {}
  <2>1. \A b : ~Has(Tail(q), <<"stop", b>>)
    BY <1>5, <1>7 DEF MayFollow
  <2>2. \A b : <<"stop", b>> # <<"check", s>> /\ <<"stop", b>> # <<"start", s>>
    OBVIOUS
  <2> QED BY <1>6, <1>7, <2>1, <2>2 DEF ToHalt, q, r
<1>11. LoopInv(p)'
  <2>1. Loop(script'[p], Verb(p)', Target(p)')
    BY <1>2, <1>6 DEF v, t, r
  <2> QED BY <1>1, <1>2, <1>3, <1>9, <1>10, <2>1 DEF LoopInv
<1>12. ASSUME NEW b, Has(script'[p], <<"start", b>>)
       PROVE  b = s \/ Has(script[p], <<"start", b>>)
  BY <1>5, <1>6, <1>7, <1>12 DEF q, r
<1> QED BY <1>1, <1>2, <1>3, <1>8, <1>9, <1>10, <1>11, <1>12

LEMMA CheckKeeps ==
  ASSUME TypeOK, TypeOK', NEW p \in Sessions, SessionInv(p), NEW s \in Services, CheckUp(p, s)
  PROVE  SessionInv(p)'
<1>1. /\ verb[p] # "none" /\ exit[p] = "none" /\ script[p] # <<>>
      /\ Head(script[p]) = <<"check", s>>
      /\ s \in up => script'[p] = Tail(script[p])
      /\ s \notin up => script'[p] = <<<<"start", s>>>> \o Tail(script[p])
      /\ verb'[p] = verb[p] /\ target'[p] = target[p] /\ plan'[p] = plan[p]
      /\ exit'[p] = exit[p] /\ before'[p] = before[p] /\ failed'[p] = failed[p]
      /\ faults' = faults /\ up' = up
      /\ gained'[p] = gained[p] /\ lost'[p] = lost[p] /\ kept'[p] = kept[p]
  BY DEF CheckUp, Doing, Busy, TypeOK, Nothing
<1> USE DEF SessionInv
<1>2. /\ ~Thinking(p) /\ ~Thinking(p)'
      /\ Verb(p)' = Verb(p) /\ Target(p)' = Target(p)
      /\ Raises(p)' = Raises(p) /\ Halts(p)' = Halts(p)
      /\ LoopInv(p)' /\ ToHalt(p)' = {} /\ ToHalt(p) = {}
      /\ \/ ToRaise(p)' = ToRaise(p)
         \/ s \in up /\ ToRaise(p)' = ToRaise(p) \ {s} /\ Verb(p) # "resume" /\ s \in Raises(p)
      /\ \A b \in up : Has(script'[p], <<"start", b>>) => Has(script[p], <<"start", b>>)
  <2>1. CASE s \in up
    <3>1. /\ ~Thinking(p) /\ ~Thinking(p)'
          /\ Verb(p)' = Verb(p) /\ Target(p)' = Target(p)
          /\ Raises(p)' = Raises(p) /\ Halts(p)' = Halts(p)
          /\ LoopInv(p)'
          /\ \A y : Has(script'[p], y) => Has(script[p], y)
          /\ Verb(p) # "resume" /\ s \in Raises(p)
          /\ ToRaise(p)' = ToRaise(p) \ {s} /\ ToHalt(p) = {} /\ ToHalt(p)' = {}
      <4>1. script'[p] = Tail(script[p]) /\ "check" \in {"check", "start", "stop", "clone"}
        BY <1>1, <2>1
      <4>2. /\ ThinkInv(p) /\ LoopInv(p) /\ script[p] # <<>>
            /\ Head(script[p]) = <<"check", s>>
            /\ verb'[p] = verb[p] /\ target'[p] = target[p] /\ plan'[p] = plan[p]
        BY <1>1
      <4> QED BY <4>1, <4>2, LoopMoves
    <3> QED BY <2>1, <3>1
  <2>2. CASE s \notin up
    BY <1>1, <2>2, CheckMoves
  <2> QED BY <2>1, <2>2
<1>3. ThinkInv(p)' /\ PlannedInv(p)' /\ ExitInv(p)'
  <2>1. kept'[p] \subseteq up'
    BY <1>1 DEF ExitInv
  <2> QED BY <1>1, <1>2, <2>1, LoopKeeps
<1>4. GoalInv(p)'
  BY <1>1, <1>2 DEF GoalInv
<1>5. RestartInv(p)'
  <2>1. up \subseteq Services
    BY DEF TypeOK
  <2>2. Target(p) \in kept[p] => ~Has(script[p], <<"stop", Target(p)>>)
    BY <1>2, <2>1 DEF ToHalt, ExitInv
  <2> QED BY <1>1, <1>2, <2>2 DEF RestartInv
<1>6. BlameInv(p)'
  BY <1>1, <1>2 DEF BlameInv
<1>7. StartInv(p)'
  BY <1>1, <1>2 DEF StartInv
<1>8. AloneInv(p)'
  <2> SUFFICES ASSUME Undisturbed(p)'
               PROVE  /\ up' = (before[p] \ (Halts(p) \ ToHalt(p)')) \cup (Raises(p) \ ToRaise(p)')
                      /\ failed'[p] <=> /\ Verb(p) = "resume"
                                        /\ before[p] \cap (Raises(p) \ ToRaise(p)') # {}
    BY <1>1, <1>2 DEF AloneInv
  <2>1. Undisturbed(p)
    BY <1>1 DEF Undisturbed
  <2>2. /\ up = (before[p] \ (Halts(p) \ ToHalt(p))) \cup (Raises(p) \ ToRaise(p))
        /\ failed[p] <=> /\ Verb(p) = "resume"
                         /\ before[p] \cap (Raises(p) \ ToRaise(p)) # {}
    BY <1>1, <1>2, <2>1 DEF AloneInv
  <2>3. CASE ToRaise(p)' = ToRaise(p)
    BY <1>1, <1>2, <2>2, <2>3
  <2>4. CASE s \in up /\ ToRaise(p)' = ToRaise(p) \ {s} /\ Verb(p) # "resume" /\ s \in Raises(p)
    BY <1>1, <1>2, <2>2, <2>4
  <2> QED BY <1>2, <2>3, <2>4
<1>9. RoomInv(p)'
  <2>1. up' \ gained'[p] \subseteq (up \ gained[p]) \cup {target[p]}
    BY <1>1
  <2>2. up \in SUBSET Services /\ up' \in SUBSET Services
    BY DEF TypeOK
  <2> QED BY <1>1, <2>1, <2>2, RoomStays
<1> QED BY <1>2, <1>3, <1>4, <1>5, <1>6, <1>7, <1>8, <1>9

LEMMA EndKeeps ==
  ASSUME TypeOK, TypeOK', NEW p \in Sessions, SessionInv(p), End(p)
  PROVE  SessionInv(p)'
<1>1. /\ verb[p] # "none" /\ exit[p] = "none" /\ script[p] = <<>> /\ script'[p] = <<>>
      /\ verb'[p] = verb[p] /\ target'[p] = target[p] /\ plan'[p] = plan[p]
      /\ exit'[p] = (IF failed[p] THEN "failed" ELSE "ok")
      /\ before'[p] = before[p] /\ failed'[p] = failed[p]
      /\ faults' = faults /\ up' = up
      /\ gained'[p] = gained[p] /\ lost'[p] = lost[p] /\ kept'[p] = kept[p]
  BY DEF End, Busy, TypeOK, Nothing
<1> USE DEF SessionInv
<1>2. ~Thinking(p) /\ ~Thinking(p)' /\ \A y : ~Has(script[p], y)
  BY <1>1 DEF Thinking, Has
<1>3. /\ Verb(p)' = Verb(p) /\ Target(p)' = Target(p)
      /\ ToRaise(p)' = ToRaise(p) /\ ToHalt(p)' = ToHalt(p)
      /\ ToRaise(p) = {} /\ ToHalt(p) = {}
  BY <1>1, <1>2 DEF Verb, Target, ToRaise, ToHalt
<1>4. Raises(p)' = Raises(p) /\ Halts(p)' = Halts(p)
  BY <1>3 DEF Raises, Halts
<1>5. ThinkInv(p)' /\ GoalInv(p)' /\ RestartInv(p)' /\ BlameInv(p)' /\ StartInv(p)'
  BY <1>1, <1>2, <1>3, <1>4 DEF ThinkInv, GoalInv, RestartInv, BlameInv, StartInv
<1>6. LoopInv(p)'
  BY <1>1, <1>2, <1>3, <1>4 DEF LoopInv
<1>7. PlannedInv(p)'
  BY <1>1, <1>3 DEF PlannedInv
<1>8. ExitInv(p)'
  BY <1>1, <1>2, <1>3 DEF ExitInv
<1>9. AloneInv(p)'
  <2>1. Undisturbed(p)' <=> Undisturbed(p)
    BY <1>1 DEF Undisturbed
  <2> QED BY <1>1, <1>2, <1>3, <1>4, <2>1 DEF AloneInv
<1>10. RoomInv(p)'
  <2>1. up' \ gained'[p] \subseteq (up \ gained[p]) \cup {target[p]}
    BY <1>1
  <2>2. up \in SUBSET Services /\ up' \in SUBSET Services
    BY DEF TypeOK
  <2> QED BY <1>1, <2>1, <2>2, RoomStays
<1> QED BY <1>5, <1>6, <1>7, <1>8, <1>9, <1>10

----------------------------------------------------------------------------
(* How a command begins *)

\* All of a command lies before p.
LEMMA Fresh ==
  ASSUME NEW p \in Sessions, NEW v \in Verbs, NEW t \in Services \cup Jails \cup {None},
         Taken(v, t), Verb(p)' = v, Target(p)' = t, script'[p] = Steps(v, t)
  PROVE  /\ ~Thinking(p)' /\ LoopInv(p)'
         /\ Raises(p)' \subseteq ToRaise(p)' /\ Halts(p)' \subseteq ToHalt(p)'
         /\ \A s : Has(script'[p], <<"start", s>>) => v = "resume"
         /\ v = "restart" => Has(script'[p], <<"stop", t>>)
<1> DEFINE q == script'[p]
<1>1. Loop(q, v, t) /\ Whole(q, v, t)
  BY StepsLoop
<1> HIDE DEF q
<1>2. Raises(p)' = RaisesOf(v, t) /\ Halts(p)' = HaltsOf(v, t)
  BY DEF Raises, Halts
<1>3. RaisesOf(v, t) \subseteq Services /\ HaltsOf(v, t) \subseteq Services
  BY DEF RaisesOf, HaltsOf, Scope, Taken, Optional
<1>4. ~Thinking(p)'
  BY <1>1 DEF Loop, Belongs, Thinking, q
<1>5. Raises(p)' \subseteq ToRaise(p)' /\ Halts(p)' \subseteq ToHalt(p)'
  BY <1>1, <1>2, <1>3 DEF Whole, ToRaise, ToHalt, q
<1>6. LoopInv(p)'
  BY <1>1, <1>5 DEF LoopInv, q
<1>7. v = "restart" => Has(q, <<"stop", t>>)
  <2>1. v = "restart" => t \in HaltsOf(v, t)
    BY PlannerAssumption DEF Taken, HaltsOf, Scope
  <2> QED BY <1>1, <2>1 DEF Whole
<1>8. \A s : Has(q, <<"start", s>>) => v = "resume"
  BY <1>1 DEF Whole
<1> QED BY <1>4, <1>5, <1>6, <1>7, <1>8 DEF q

\* p has nothing left to do.
LEMMA Over ==
  ASSUME NEW p \in Sessions, script'[p] = <<>>
  PROVE  /\ ~Thinking(p)' /\ LoopInv(p)' /\ ToRaise(p)' = {} /\ ToHalt(p)' = {}
         /\ \A y : ~Has(script'[p], y)
<1> DEFINE q == script'[p]
<1>1. q \in Seq(StepType) /\ DOMAIN q = {}
  OBVIOUS
<1> HIDE DEF q
<1>2. \A v, t : Loop(q, v, t)
  BY <1>1 DEF Loop
<1>3. ToRaise(p)' = {} /\ ToHalt(p)' = {} /\ \A y : ~Has(q, y)
  BY <1>1 DEF ToRaise, ToHalt, Has, q
<1>4. ~Thinking(p)'
  BY <1>1 DEF Thinking, q
<1>5. LoopInv(p)'
  BY <1>2, <1>3 DEF LoopInv, q
<1> QED BY <1>3, <1>4, <1>5 DEF q

LEMMA CommandKeeps ==
  ASSUME TypeOK, TypeOK', NEW p \in Sessions, NEW c \in Commands, Command(p, c[1], c[2])
  PROVE  SessionInv(p)'
<1> DEFINE v == c[1]
           t == c[2]
<1>1. /\ v \in {"start", "stop", "restart", "save", "resume"}
      /\ t \in Services \cup Jails \cup {None} /\ Taken(v, t)
  BY HajimectlAssumption DEF Commands, Taken
<1>2. /\ verb'[p] = v /\ target'[p] = t /\ plan'[p] = Unclear
      /\ script'[p] = Steps(v, t) /\ ~failed'[p] /\ exit'[p] = "none"
      /\ before'[p] = up /\ lost'[p] = {} /\ gained'[p] = {} /\ kept'[p] = up /\ up' = up
  BY DEF Command, Begin, TypeOK
<1> HIDE DEF v, t
<1>3. Verb(p)' = v /\ Target(p)' = t /\ v \in Verbs
  BY <1>1, <1>2 DEF Verb, Target, Verbs
<1>4. /\ ~Thinking(p)' /\ LoopInv(p)'
      /\ Raises(p)' \subseteq ToRaise(p)' /\ Halts(p)' \subseteq ToHalt(p)'
      /\ \A s : Has(script'[p], <<"start", s>>) => v = "resume"
      /\ v = "restart" => Has(script'[p], <<"stop", t>>)
  BY <1>1, <1>2, <1>3, Fresh
<1>5. ThinkInv(p)' /\ GoalInv(p)' /\ RestartInv(p)' /\ BlameInv(p)' /\ StartInv(p)'
  BY <1>2, <1>3, <1>4 DEF ThinkInv, GoalInv, RestartInv, BlameInv, StartInv
<1>6. PlannedInv(p)' /\ RoomInv(p)'
  BY <1>1, <1>2 DEF PlannedInv, RoomInv
<1>7. ExitInv(p)'
  <2>1. v = "restart" => t # None
    BY <1>1, PlannerAssumption DEF Taken
  <2> QED BY <1>1, <1>2, <1>3, <2>1 DEF ExitInv
<1>8. AloneInv(p)'
  BY <1>2, <1>4 DEF AloneInv
<1> QED BY <1>4, <1>5, <1>6, <1>7, <1>8 DEF SessionInv

\* The looks and the plan.
LEMMA AskedInOrder ==
  ASSUME NEW i \in Intents, NEW q,
         q = Append(IF i = "start" THEN InOrder("look", Services) ELSE <<>>, <<"plan", i>>)
  PROVE  /\ Questions(q, i)
         /\ i = "start" => \A s \in Services : Has(q, <<"look", s>>)
         /\ \E j \in DOMAIN q : q[j][1] = "plan"
<1> DEFINE r == IF i = "start" THEN InOrder("look", Services) ELSE <<>>
           x == <<"plan", i>>
<1>1. /\ r \in Seq(StepType)
      /\ \A j \in DOMAIN r : r[j][1] = "look" /\ r[j][2] \in Services
      /\ i = "start" => \A s \in Services : Has(r, <<"look", s>>)
  <2>1. CASE i = "start"
    <3>1. Sweep(r, "look", Services) /\ \A s \in Services : Has(r, <<"look", s>>)
      BY <2>1, InOrderSweeps
    <3> HIDE DEF r
    <3> QED BY <3>1, SweepSteps
  <2>2. CASE i # "start"
    BY <2>2
  <2> QED BY <2>1, <2>2
<1>2. x \in StepType /\ x[1] = "plan" /\ q = Append(r, x)
  BY DEF StepType
<1> HIDE DEF r, x
<1> DEFINE n == Len(r)
<1>3. /\ q \in Seq(StepType) /\ n \in Nat /\ Len(q) = n + 1 /\ DOMAIN q = 1..(n + 1)
      /\ DOMAIN r = 1..n /\ \A j \in 1..n : q[j] = r[j]
      /\ q[n + 1] = x
  <2>1. r \in Seq(StepType) /\ x \in StepType
    BY <1>1, <1>2
  <2>2. n \in Nat /\ DOMAIN r = 1..n
    BY <2>1
  <2>3. /\ Append(r, x) \in Seq(StepType) /\ Len(Append(r, x)) = n + 1
        /\ \A j \in 1..n : Append(r, x)[j] = r[j]
        /\ Append(r, x)[n + 1] = x
    BY <2>1, AppendProperties
  <2>4. DOMAIN Append(r, x) = 1..Len(Append(r, x))
    BY <2>3
  <2> QED BY <1>2, <2>2, <2>3, <2>4
<1> HIDE DEF n
<1>4. q # <<>> /\ Len(q) - 1 = n /\ n + 1 \in DOMAIN q /\ \A j \in 1..n : j \in DOMAIN q
  <2>1. Len(q) - 1 = n /\ n + 1 \in 1..(n + 1) /\ \A j \in 1..n : j \in 1..(n + 1)
    BY <1>3
  <2>2. q # <<>>
    <3>1. DOMAIN q # {}
      BY <1>3, <2>1
    <3> QED BY <3>1
  <2> QED BY <1>3, <2>1, <2>2
<1>5. Questions(q, i)
  BY <1>1, <1>3, <1>4 DEF Questions, x
<1>6. ASSUME i = "start", NEW s \in Services PROVE Has(q, <<"look", s>>)
  <2>1. PICK j \in DOMAIN r : r[j] = <<"look", s>>
    BY <1>1, <1>6 DEF Has
  <2> QED BY <1>3, <1>4, <2>1 DEF Has
<1> QED BY <1>2, <1>3, <1>4, <1>5, <1>6

LEMMA AskKeeps ==
  ASSUME TypeOK, TypeOK', NEW p \in Sessions, NEW r \in Requests, Ask(p, r[1], r[2])
  PROVE  SessionInv(p)'
<1> DEFINE i == r[1]
           q == script'[p]
<1>1. i \in Intents
  BY DEF Requests, Pointed, Intents
<1>2. /\ verb'[p] = "ask" /\ plan'[p] = Unclear
      /\ q = Append(IF i = "start" THEN InOrder("look", Services) ELSE <<>>, <<"plan", i>>)
      /\ ~failed'[p] /\ exit'[p] = "none"
      /\ before'[p] = up /\ gained'[p] = {} /\ kept'[p] = up /\ up' = up
  BY DEF Ask, Begin, TypeOK
<1> HIDE DEF i, q
<1>3. /\ Questions(q, i)
      /\ i = "start" => \A s \in Services : Has(q, <<"look", s>>)
      /\ \E j \in DOMAIN q : q[j][1] = "plan"
  BY <1>1, <1>2, AskedInOrder
<1>4. Thinking(p)'
  BY <1>3 DEF Thinking, q
<1>5. i = "start" => up \subseteq ToLook(p)'
  BY <1>3 DEF ToLook, TypeOK, q
<1>6. ThinkInv(p)'
  BY <1>1, <1>2, <1>3, <1>5 DEF ThinkInv, q
<1>7. LoopInv(p)' /\ GoalInv(p)' /\ RestartInv(p)' /\ BlameInv(p)'
  BY <1>4 DEF LoopInv, GoalInv, RestartInv, BlameInv
<1>8. StartInv(p)'
  <2> SUFFICES ASSUME NEW s, Has(q, <<"start", s>>) PROVE FALSE
    BY DEF StartInv, q
  <2>1. PICK j \in DOMAIN q : q[j] = <<"start", s>>
    BY DEF Has
  <2> DEFINE n == Len(q)
  <2>2. n \in Nat /\ DOMAIN q = 1..n /\ q[n] = <<"plan", i>>
        /\ \A k \in 1..(n - 1) : q[k][1] = "look"
    BY <1>3 DEF Questions
  <2> HIDE DEF n
  <2>3. j = n \/ j \in 1..(n - 1)
    BY <2>1, <2>2
  <2>4. q[j][1] = "start"
    BY <2>1
  <2>5. q[n][1] = "plan"
    BY <2>2
  <2> QED BY <2>2, <2>3, <2>4, <2>5
<1>9. PlannedInv(p)'
  BY <1>2 DEF PlannedInv, Verb, Target, Unclear
<1>10. ExitInv(p)'
  BY <1>2, <1>4 DEF ExitInv
<1>11. AloneInv(p)'
  BY <1>2, <1>4 DEF AloneInv
<1>12. RoomInv(p)'
  BY <1>2 DEF RoomInv, Unclear
<1> QED BY <1>6, <1>7, <1>8, <1>9, <1>10, <1>11, <1>12 DEF SessionInv

----------------------------------------------------------------------------
(* How the planner gets its answer *)

\* Who looks has questions left.
LEMMA LooksFirst ==
  ASSUME NEW q, NEW i, Questions(q, i), NEW s, NEW r, Starting(q, <<"look", s>>, r)
  PROVE  /\ Questions(r, i)
         /\ \A y : Has(q, y) => y = <<"look", s>> \/ Has(r, y)
<1> DEFINE n == Len(q)
<1>1. /\ q \in Seq(StepType) /\ n \in Nat /\ n # 0 /\ DOMAIN q = 1..n /\ q[1] = Head(q)
      /\ q[1] = <<"look", s>> /\ r = Tail(q) /\ q[n] = <<"plan", i>>
      /\ \A j \in 1..(n - 1) : q[j][1] = "look" /\ q[j][2] \in Services
  BY DEF Questions, Starting
<1>2. n # 1
  <2>1. <<"plan", i>>[1] = "plan" /\ <<"look", s>>[1] = "look"
    OBVIOUS
  <2> QED BY <1>1, <2>1
<1>3. /\ r \in Seq(StepType) /\ Len(r) = n - 1 /\ DOMAIN r = 1..(n - 1)
      /\ \A j \in 1..(n - 1) : r[j] = q[j + 1]
  BY <1>1
<1> HIDE DEF n
<1>4. r # <<>> /\ r[n - 1] = <<"plan", i>>
  <2>1. n - 1 \in 1..(n - 1) /\ (n - 1) + 1 = n
    BY <1>1, <1>2
  <2>2. r # <<>>
    <3>1. DOMAIN r # {}
      BY <1>3, <2>1
    <3> QED BY <3>1
  <2> QED BY <1>1, <1>3, <2>1, <2>2
<1>5. \A j \in 1..((n - 1) - 1) : r[j][1] = "look" /\ r[j][2] \in Services
  <2> TAKE j \in 1..((n - 1) - 1)
  <2>1. j \in 1..(n - 1) /\ j + 1 \in 1..(n - 1)
    BY <1>1
  <2> QED BY <1>1, <1>3, <2>1
<1>6. Questions(r, i)
  BY <1>3, <1>4, <1>5 DEF Questions
<1>7. ASSUME NEW y, Has(q, y), y # <<"look", s>> PROVE Has(r, y)
  <2>1. PICK j \in DOMAIN q : q[j] = y
    BY <1>7 DEF Has
  <2>2. j # 1
    BY <1>1, <1>7, <2>1
  <2>3. j - 1 \in 1..(n - 1) /\ (j - 1) + 1 = j
    BY <1>1, <2>1, <2>2
  <2> QED BY <1>3, <2>1, <2>3 DEF Has
<1> QED BY <1>6, <1>7

\* When the plan is next it is all that is left.
LEMMA PlanIsLast ==
  ASSUME NEW q, NEW i, Questions(q, i), NEW a, NEW s, Head(q) = <<a, s>>, a # "look"
  PROVE  a = "plan" /\ s = i /\ \A t : ~Has(q, <<"look", t>>)
<1> DEFINE n == Len(q)
<1>1. /\ q \in Seq(StepType) /\ n \in Nat /\ n # 0 /\ DOMAIN q = 1..n /\ q[1] = Head(q)
      /\ q[n] = <<"plan", i>>
      /\ \A j \in 1..(n - 1) : q[j][1] = "look"
  BY DEF Questions
<1> HIDE DEF n
<1>2. q[1][1] = a
  BY <1>1
<1>3. 1 \notin 1..(n - 1)
  BY <1>1, <1>2
<1>4. n = 1
  BY <1>1, <1>3
<1>5. <<a, s>> = <<"plan", i>>
  BY <1>1, <1>4
<1>6. a = "plan" /\ s = i
  BY <1>5
<1>7. \A j \in DOMAIN q : q[j][1] = "plan"
  BY <1>1, <1>2, <1>4, <1>6
<1>8. \A t : <<"look", t>>[1] = "look"
  OBVIOUS
<1>9. \A t : ~Has(q, <<"look", t>>)
  BY <1>7, <1>8 DEF Has
<1> QED BY <1>6, <1>9

\* Nothing is started by a script of questions.
LEMMA QuestionsDoNothing ==
  ASSUME NEW q, NEW i, Questions(q, i)
  PROVE  /\ \E j \in DOMAIN q : q[j][1] = "plan"
         /\ \A s : ~Has(q, <<"start", s>>)
<1> DEFINE n == Len(q)
<1>1. /\ n \in Nat /\ n # 0 /\ DOMAIN q = 1..n /\ q[n] = <<"plan", i>>
      /\ \A j \in 1..(n - 1) : q[j][1] = "look"
  BY DEF Questions
<1> HIDE DEF n
<1>2. q[n][1] = "plan" /\ n \in DOMAIN q
  BY <1>1
<1>3. \A j \in DOMAIN q : j = n \/ j \in 1..(n - 1)
  BY <1>1
<1>4. \A s : <<"start", s>>[1] = "start"
  OBVIOUS
<1>5. \A s : ~Has(q, <<"start", s>>)
  BY <1>1, <1>2, <1>3, <1>4 DEF Has
<1> QED BY <1>2, <1>5

\* While p thinks.
LEMMA ThinkingKeeps ==
  ASSUME NEW p \in Sessions, Thinking(p)', ~failed'[p],
         \A s : ~Has(script'[p], <<"start", s>>)
  PROVE  LoopInv(p)' /\ GoalInv(p)' /\ RestartInv(p)' /\ BlameInv(p)' /\ StartInv(p)'
BY DEF LoopInv, GoalInv, RestartInv, BlameInv, StartInv

LEMMA LookKeeps ==
  ASSUME TypeOK, TypeOK', NEW p \in Sessions, SessionInv(p), NEW s \in Services, Look(p, s)
  PROVE  SessionInv(p)'
<1> DEFINE q == script[p]
           r == script'[p]
<1>1. /\ verb[p] # "none" /\ exit[p] = "none" /\ q # <<>>
      /\ Head(q) = <<"look", s>> /\ r = Tail(q)
      /\ verb'[p] = verb[p] /\ target'[p] = target[p] /\ plan'[p] = plan[p]
      /\ exit'[p] = exit[p] /\ before'[p] = before[p] /\ failed'[p] = failed[p]
      /\ faults' = faults /\ up' = up
      /\ gained'[p] = gained[p] /\ lost'[p] = lost[p] /\ kept'[p] = kept[p]
      /\ seen'[p] = (IF s \in up THEN seen[p] \cup {s} ELSE seen[p])
  BY DEF Look, Doing, Busy, TypeOK, Nothing
<1> USE DEF SessionInv
<1>2. Thinking(p)
  BY <1>1, FirstTells
<1>3. PICK i \in Intents :
        \/ /\ Questions(q, i) /\ plan[p] = Unclear
           /\ i = "start" => up \ gained[p] \subseteq seen[p] \cup ToLook(p)
        \/ q = <<<<"answer", i>>>>
  BY <1>2 DEF ThinkInv
<1>4. q # <<<<"answer", i>>>>
  <2>1. <<"answer", i>>[1] = "answer" /\ <<"look", s>>[1] = "look"
    OBVIOUS
  <2>2. Head(<<<<"answer", i>>>>) = <<"answer", i>>
    OBVIOUS
  <2> QED BY <1>1, <2>1, <2>2
<1> HIDE DEF q, r
<1>5. Questions(r, i) /\ \A y : Has(q, y) => y = <<"look", s>> \/ Has(r, y)
  <2>1. Starting(q, <<"look", s>>, r)
    BY <1>1 DEF Starting
  <2> QED BY <1>3, <1>4, <2>1, LooksFirst
<1>6. Thinking(p)' /\ \A t : ~Has(r, <<"start", t>>)
  BY <1>5, QuestionsDoNothing DEF Thinking, r
<1>7. ToLook(p) \subseteq ToLook(p)' \cup {s}
  <2>1. \A t : <<"look", t>> = <<"look", s>> => t = s
    OBVIOUS
  <2> QED BY <1>5, <2>1 DEF ToLook, q, r
<1>8. /\ verb[p] = "ask" /\ ~failed[p] /\ up \subseteq before[p] \cup gained[p]
  BY <1>2 DEF ThinkInv
<1>9. i = "start" => up' \ gained'[p] \subseteq seen'[p] \cup ToLook(p)'
  BY <1>1, <1>3, <1>4, <1>7
<1>10. ThinkInv(p)'
  BY <1>1, <1>3, <1>4, <1>5, <1>8, <1>9 DEF ThinkInv, r
<1>11. LoopInv(p)' /\ GoalInv(p)' /\ RestartInv(p)' /\ BlameInv(p)' /\ StartInv(p)'
  BY <1>1, <1>6, <1>8, ThinkingKeeps DEF r
<1>12. PlannedInv(p)'
  BY <1>1 DEF PlannedInv, Verb, Target
<1>13. ExitInv(p)'
  BY <1>1, <1>6 DEF ExitInv
<1>14. AloneInv(p)'
  BY <1>1, <1>2, <1>6 DEF AloneInv, Undisturbed
<1>15. RoomInv(p)'
  BY <1>1, <1>3, <1>4 DEF RoomInv, Unclear
<1> QED BY <1>10, <1>11, <1>12, <1>13, <1>14, <1>15

\* What a plan is.
PlanType ==
  [outcome : {"act", "confirm", "refuse", "unclear"},
   verb : {"none"} \cup Verbs,
   target : Services \cup Jails \cup {None}]

\* What the planner makes of an intent and a name.
LEMMA PlanFacts ==
  ASSUME NEW i \in Intents, NEW n \in Services \cup Jails \cup {None},
         NEW sure \in BOOLEAN, NEW R \in SUBSET Services,
         NEW c, c = PlanFor(i, n, sure, R)
  PROVE  /\ c \in PlanType
         /\ c.verb \in {"start", "stop", "restart", "jail-snapshot", "jail-rollback"} =>
              c.target = n /\ n # None
         /\ c.verb \in {"jail-snapshot", "jail-rollback"} => n \in Jails
         /\ c.verb \in {"none", "save", "resume", "snapshot"} => c.target = None
         /\ c.outcome = "confirm" => c.verb \in {"stop", "restart", "jail-rollback", "save"}
         /\ c.outcome \in {"act", "confirm"} => c.verb \in Verbs
         /\ c.outcome \in {"refuse", "unclear"} => c.verb = "none"
         /\ c.verb = "start" => i = "start" /\ Needed(n, R) <= Available
<1> USE DEF PlanType, Verbs, Act, Confirm, Refuse, Unclear
<1>1. CASE ~sure \/ (i \in Pointed /\ n = None)
  BY <1>1 DEF PlanFor
<1>2. CASE ~(~sure \/ (i \in Pointed /\ n = None)) /\ i = "start"
  <2>1. c = PlanStart(n, R) /\ n # None
    BY <1>2 DEF PlanFor, Pointed
  <2> QED BY <1>2, <2>1 DEF PlanStart
<1>3. CASE ~(~sure \/ (i \in Pointed /\ n = None)) /\ i \in {"stop", "restart"}
  <2>1. c = Confirm(i, n) /\ n # None
    BY <1>3 DEF PlanFor, Pointed
  <2> QED BY <1>3, <2>1
<1>4. CASE ~(~sure \/ (i \in Pointed /\ n = None)) /\ i = "rollback"
  <2>1. c = PlanRollback(n) /\ n # None
    BY <1>4 DEF PlanFor, Pointed
  <2> QED BY <2>1 DEF PlanRollback
<1>5. CASE ~(~sure \/ (i \in Pointed /\ n = None)) /\ i = "snapshot"
  <2>1. c = PlanSnapshot(n)
    BY <1>5 DEF PlanFor
  <2> QED BY <2>1, PlannerAssumption DEF PlanSnapshot
<1>6. CASE ~(~sure \/ (i \in Pointed /\ n = None)) /\ i = "save"
  BY <1>6 DEF PlanFor
<1>7. CASE ~(~sure \/ (i \in Pointed /\ n = None)) /\ i = "resume"
  BY <1>7 DEF PlanFor
<1> QED BY <1>1, <1>2, <1>3, <1>4, <1>5, <1>6, <1>7 DEF Intents

\* p has the planner's answer: it runs the plan, leaves, or is asked for a yes.
LEMMA AnswerKeeps ==
  ASSUME NEW p \in Sessions, SessionInv(p), Thinking(p), exit[p] = "none",
         UNCHANGED <<up, gained, lost, kept, faults>>,
         verb'[p] = verb[p], target'[p] = target[p], before'[p] = before[p],
         failed'[p] = failed[p], target[p] \in Services \cup Jails \cup {None},
         plan'[p] \in PlanType, PlannedInv(p)', RoomInv(p)',
         \/ /\ plan'[p].verb \in Verbs
            /\ Taken(plan'[p].verb, plan'[p].target)
            /\ script'[p] = Steps(plan'[p].verb, plan'[p].target) /\ exit'[p] = exit[p]
         \/ /\ plan'[p].verb \in Verbs
            /\ ~Taken(plan'[p].verb, plan'[p].target)
            /\ script'[p] = <<>> /\ exit'[p] = "usage"
         \/ /\ plan'[p].verb # "resume"
            /\ script'[p] = <<>> /\ exit'[p] = "refused"
         \/ /\ plan'[p].outcome = "confirm"
            /\ \E i \in Intents : script'[p] = <<<<"answer", i>>>>
            /\ exit'[p] = exit[p]
  PROVE  SessionInv(p)'
<1> DEFINE v == plan'[p].verb
           t == plan'[p].target
<1> USE DEF SessionInv
<1>1. /\ verb[p] = "ask" /\ ~failed[p] /\ ~failed'[p]
      /\ up \subseteq before[p] \cup gained[p]
  BY DEF ThinkInv
<1>2. Verb(p)' = v /\ Target(p)' = t
  BY <1>1 DEF Verb, Target
<1>3. Undisturbed(p)' => up' = before'[p]
  <2>1. Undisturbed(p)' => Undisturbed(p)
    BY DEF Undisturbed
  <2> QED BY <1>1, <2>1 DEF AloneInv
<1>4. kept'[p] \subseteq up'
  BY DEF ExitInv
<1>5. CASE v \in Verbs /\ Taken(v, t) /\ script'[p] = Steps(v, t) /\ exit'[p] = exit[p]
  <2> HIDE DEF v, t
  <2>0. t \in Services \cup Jails \cup {None}
    BY DEF PlanType, t
  <2>1. /\ ~Thinking(p)' /\ LoopInv(p)'
        /\ Raises(p)' \subseteq ToRaise(p)' /\ Halts(p)' \subseteq ToHalt(p)'
        /\ \A s : Has(script'[p], <<"start", s>>) => v = "resume"
        /\ v = "restart" => Has(script'[p], <<"stop", t>>)
    BY <1>2, <1>5, <2>0, Fresh
  <2>2. ThinkInv(p)' /\ GoalInv(p)' /\ BlameInv(p)'
    BY <1>1, <2>1 DEF ThinkInv, GoalInv, BlameInv
  <2>3. RestartInv(p)'
    BY <1>2, <2>1 DEF RestartInv
  <2>4. StartInv(p)'
    BY <1>1, <1>2, <2>1 DEF StartInv
  <2>5. ExitInv(p)'
    <3>1. v \in {"start", "stop", "restart", "save", "resume", "snapshot", "jail-snapshot"}
      BY <1>5 DEF Verbs, Taken
    <3> QED BY <1>1, <1>2, <1>4, <1>5, <3>1 DEF ExitInv
  <2>6. AloneInv(p)'
    BY <1>1, <1>3, <1>5, <2>1 DEF AloneInv
  <2> QED BY <2>1, <2>2, <2>3, <2>4, <2>5, <2>6
<1>6. CASE script'[p] = <<>> /\ exit'[p] \in {"usage", "refused"}
           /\ (exit'[p] = "usage" => v \in Verbs /\ ~Taken(v, t))
           /\ (exit'[p] = "refused" => v # "resume")
  <2> HIDE DEF v, t
  <2>1. /\ ~Thinking(p)' /\ LoopInv(p)' /\ ToRaise(p)' = {} /\ ToHalt(p)' = {}
        /\ \A y : ~Has(script'[p], y)
    BY <1>6, Over
  <2>2. ThinkInv(p)' /\ GoalInv(p)' /\ RestartInv(p)' /\ BlameInv(p)' /\ StartInv(p)'
    BY <1>1, <1>6, <2>1 DEF ThinkInv, GoalInv, RestartInv, BlameInv, StartInv
  <2>3. exit'[p] = "usage" => target'[p] \in Jails /\ v # "resume"
    <3> SUFFICES ASSUME v \in Verbs, ~Taken(v, t) PROVE target[p] \in Jails /\ v # "resume"
      BY <1>6
    <3>1. /\ v \in {"start", "stop", "restart", "jail-snapshot", "jail-rollback"} =>
               t = target[p] /\ target[p] # None
          /\ v \in {"jail-snapshot", "jail-rollback"} => target[p] \in Jails
      BY <1>1, <1>2 DEF PlannedInv
    <3>2. CASE v \in {"start", "stop", "restart"}
      BY <3>1, <3>2 DEF Taken
    <3>3. CASE v \in {"jail-snapshot", "jail-rollback"}
      BY <3>1, <3>3
    <3>4. CASE v \in {"snapshot", "save", "resume"}
      BY <3>4 DEF Taken
    <3> QED BY <3>2, <3>3, <3>4 DEF Verbs
  <2>4. ExitInv(p)'
    BY <1>1, <1>2, <1>4, <1>6, <2>3 DEF ExitInv
  <2>5. AloneInv(p)'
    BY <1>3, <1>6 DEF AloneInv
  <2> QED BY <2>1, <2>2, <2>4, <2>5
<1>7. CASE /\ plan'[p].outcome = "confirm"
           /\ \E i \in Intents : script'[p] = <<<<"answer", i>>>>
           /\ exit'[p] = exit[p]
  <2>1. PICK i \in Intents : script'[p] = <<<<"answer", i>>>>
    BY <1>7
  <2>2. Thinking(p)' /\ \A s : ~Has(script'[p], <<"start", s>>)
    BY <2>1 DEF Thinking, Has
  <2>3. LoopInv(p)' /\ GoalInv(p)' /\ RestartInv(p)' /\ BlameInv(p)' /\ StartInv(p)'
    BY <1>1, <2>2, ThinkingKeeps
  <2>4. ThinkInv(p)'
    BY <1>1, <1>7, <2>1 DEF ThinkInv
  <2>5. ExitInv(p)'
    BY <1>1, <1>4, <1>7, <2>2 DEF ExitInv
  <2>6. AloneInv(p)'
    BY <1>3, <2>2 DEF AloneInv
  <2> QED BY <2>3, <2>4, <2>5, <2>6
<1> QED BY <1>5, <1>6, <1>7

LEMMA PlanKeeps ==
  ASSUME TypeOK, TypeOK', NEW p \in Sessions, SessionInv(p), NEW i \in Intents, Plan(p, i)
  PROVE  SessionInv(p)'
<1> DEFINE q == script[p]
           n == target[p]
           c == plan'[p]
<1>1. /\ verb[p] # "none" /\ exit[p] = "none" /\ q # <<>> /\ Head(q) = <<"plan", i>>
      /\ UNCHANGED <<up, gained, lost, kept, faults>>
      /\ verb'[p] = verb[p] /\ target'[p] = target[p] /\ before'[p] = before[p]
      /\ failed'[p] = failed[p]
      /\ n \in Services \cup Jails \cup {None} /\ seen[p] \in SUBSET Services
  BY DEF Plan, Doing, Busy, Nothing, TypeOK
<1>2. PICK sure \in BOOLEAN : c = PlanFor(i, n, sure, seen[p])
  BY DEF Plan, TypeOK
<1> USE DEF SessionInv
<1>3. Thinking(p)
  BY <1>1, FirstTells
<1>4. verb[p] = "ask" /\ up \subseteq before[p] \cup gained[p]
  BY <1>3 DEF ThinkInv
<1>5. i = "start" => up \ gained[p] \subseteq seen[p]
  <2>1. PICK j \in Intents :
          \/ /\ Questions(q, j)
             /\ j = "start" => up \ gained[p] \subseteq seen[p] \cup ToLook(p)
          \/ q = <<<<"answer", j>>>>
    BY <1>3 DEF ThinkInv
  <2>2. q # <<<<"answer", j>>>>
    <3>1. Head(<<<<"answer", j>>>>) = <<"answer", j>> /\ <<"answer", j>> # <<"plan", i>>
      OBVIOUS
    <3> QED BY <1>1, <3>1
  <2> HIDE DEF q
  <2>3. i = j /\ \A t : ~Has(q, <<"look", t>>)
    BY <1>1, <2>1, <2>2, PlanIsLast
  <2>4. ToLook(p) = {}
    BY <2>3 DEF ToLook, q
  <2> QED BY <2>1, <2>2, <2>3, <2>4
<1> HIDE DEF c, q, n
<1>6. /\ c \in PlanType
      /\ c.verb \in {"start", "stop", "restart", "jail-snapshot", "jail-rollback"} =>
           c.target = n /\ n # None
      /\ c.verb \in {"jail-snapshot", "jail-rollback"} => n \in Jails
      /\ c.verb \in {"none", "save", "resume", "snapshot"} => c.target = None
      /\ c.outcome = "confirm" => c.verb \in {"stop", "restart", "jail-rollback", "save"}
      /\ c.outcome \in {"act", "confirm"} => c.verb \in Verbs
      /\ c.outcome \in {"refuse", "unclear"} => c.verb = "none"
      /\ c.verb = "start" => i = "start" /\ Needed(n, seen[p]) <= Available
  BY <1>1, <1>2, PlanFacts
<1>7. PlannedInv(p)'
  BY <1>1, <1>4, <1>6 DEF PlannedInv, Verb, Target, c, n
<1>8. RoomInv(p)'
  <2> SUFFICES ASSUME c.verb = "start", n \in Services
               PROVE  MemoryOf((up \ gained[p]) \cup {n} \cup (Requires(n) \ gained[p]))
                        <= Available
    BY <1>1 DEF RoomInv, Requires, c, n
  <2> DEFINE S == (up \ gained[p]) \cup {n} \cup (Requires(n) \ gained[p])
             T == seen[p] \cup {n} \cup Requires(n)
  <2>1. MemoryOf(T) <= Available
    BY <1>6 DEF Needed, Projected
  <2>2. S \in SUBSET Services /\ T \in SUBSET Services /\ S \subseteq T
    BY <1>1, <1>5, <1>6 DEF Requires, TypeOK
  <2> HIDE DEF S, T
  <2>3. MemoryOf(S) <= MemoryOf(T) /\ MemoryOf(S) \in Nat /\ MemoryOf(T) \in Nat
    BY <2>2, MemoryGrows, MemoryType
  <2>4. MemoryOf(S) <= Available
    BY <2>1, <2>3, PlannerAssumption
  <2> QED BY <2>4 DEF S
<1>9. \/ /\ c.verb \in Verbs /\ Taken(c.verb, c.target)
         /\ script'[p] = Steps(c.verb, c.target) /\ exit'[p] = exit[p]
      \/ /\ c.verb \in Verbs /\ ~Taken(c.verb, c.target)
         /\ script'[p] = <<>> /\ exit'[p] = "usage"
      \/ /\ c.verb # "resume" /\ script'[p] = <<>> /\ exit'[p] = "refused"
      \/ /\ c.outcome = "confirm" /\ \E j \in Intents : script'[p] = <<<<"answer", j>>>>
         /\ exit'[p] = exit[p]
  <2>0. /\ script \in [Sessions -> Seq({"check", "start", "stop", "look", "clone", "plan", "answer"}
                                       \X (Services \cup Jails \cup {None} \cup Intents))]
        /\ exit \in [Sessions -> {"none", "ok", "failed", "refused", "usage"}]
    BY DEF TypeOK
  <2>1. CASE c.outcome = "act"
    <3>1. Run(p, c)
      BY <2>1 DEF Plan, c
    <3> QED BY <1>6, <2>0, <2>1, <3>1 DEF Run
  <2>2. CASE c.outcome = "confirm"
    <3>1. script' = [script EXCEPT ![p] = <<<<"answer", i>>>>] /\ exit' = exit
      BY <2>2 DEF Plan, c
    <3> QED BY <2>0, <2>2, <3>1
  <2>3. CASE c.outcome \in {"refuse", "unclear"}
    <3>1. Leave(p)
      BY <2>3 DEF Plan, c
    <3> QED BY <1>6, <2>0, <2>3, <3>1 DEF Leave
  <2> QED BY <1>6, <2>1, <2>2, <2>3 DEF PlanType
<1> QED BY <1>1, <1>3, <1>6, <1>7, <1>8, <1>9, AnswerKeeps DEF c, n

LEMMA YesOrNoKeeps ==
  ASSUME TypeOK, TypeOK', NEW p \in Sessions, SessionInv(p), NEW i \in Intents, Answer(p, i)
  PROVE  SessionInv(p)'
<1> DEFINE q == script[p]
<1>1. /\ verb[p] # "none" /\ exit[p] = "none" /\ q # <<>> /\ Head(q) = <<"answer", i>>
      /\ UNCHANGED <<up, gained, lost, kept, faults>>
      /\ verb'[p] = verb[p] /\ target'[p] = target[p] /\ before'[p] = before[p]
      /\ failed'[p] = failed[p] /\ plan'[p] = plan[p]
      /\ target[p] \in Services \cup Jails \cup {None} /\ plan[p] \in PlanType
  BY DEF Answer, Doing, Busy, Nothing, TypeOK, PlanType, Verbs
<1> USE DEF SessionInv
<1>2. Thinking(p)
  BY <1>1, FirstTells
<1>3. plan[p].outcome = "confirm" /\ verb[p] = "ask"
  <2>1. PICK j \in Intents :
          \/ Questions(q, j)
          \/ plan[p].outcome = "confirm"
    BY <1>2 DEF ThinkInv
  <2> HIDE DEF q
  <2>2. ~Questions(q, j)
    BY <1>1, PlanIsLast
  <2> QED BY <1>2, <2>1, <2>2 DEF ThinkInv
<1>4. plan[p].verb \in {"stop", "restart", "jail-rollback", "save"}
  BY <1>3 DEF PlannedInv, Verb
<1>5. PlannedInv(p)'
  BY <1>1 DEF PlannedInv, Verb, Target
<1>6. RoomInv(p)'
  BY <1>1, <1>4 DEF RoomInv
<1>7. \/ /\ plan[p].verb \in Verbs /\ Taken(plan[p].verb, plan[p].target)
         /\ script'[p] = Steps(plan[p].verb, plan[p].target) /\ exit'[p] = exit[p]
      \/ /\ plan[p].verb \in Verbs /\ ~Taken(plan[p].verb, plan[p].target)
         /\ script'[p] = <<>> /\ exit'[p] = "usage"
      \/ /\ plan[p].verb # "resume" /\ script'[p] = <<>> /\ exit'[p] = "refused"
  <2>0. /\ script \in [Sessions -> Seq({"check", "start", "stop", "look", "clone", "plan", "answer"}
                                       \X (Services \cup Jails \cup {None} \cup Intents))]
        /\ exit \in [Sessions -> {"none", "ok", "failed", "refused", "usage"}]
        /\ plan[p].verb \in Verbs
    BY <1>4 DEF TypeOK, Verbs
  <2>1. CASE Run(p, plan[p])
    BY <2>0, <2>1 DEF Run
  <2>2. CASE Leave(p)
    BY <1>4, <2>0, <2>2 DEF Leave
  <2> QED BY <2>1, <2>2 DEF Answer
<1> QED BY <1>1, <1>2, <1>5, <1>6, <1>7, AnswerKeeps

----------------------------------------------------------------------------
(* Types *)

\* The part of the types that the sessions' own steps can disturb.
PlansOK ==
  /\ plan \in [Sessions -> PlanType]
  /\ script \in [Sessions -> Seq(StepType)]
  /\ exit \in [Sessions -> {"none", "ok", "failed", "refused", "usage"}]
  /\ \A p \in Sessions : exit[p] # "none" => script[p] = <<>>
  /\ \A p \in Sessions : exit[p] \in {"refused", "usage"} => verb[p] = "ask"

MachineOK ==
  /\ up \subseteq Services
  /\ verb \in [Sessions -> {"none", "start", "stop", "restart", "save", "resume", "ask"}]
  /\ target \in [Sessions -> Services \cup Jails \cup {None}]
  /\ seen \in [Sessions -> SUBSET Services]
  /\ failed \in [Sessions -> BOOLEAN]
  /\ commands \in Nat /\ faults \in Nat
  /\ before \in [Sessions -> SUBSET Services]
  /\ lost \in [Sessions -> SUBSET Services]
  /\ gained \in [Sessions -> SUBSET Services]
  /\ kept \in [Sessions -> SUBSET Services]

LEMMA TypeParts == TypeOK <=> PlansOK /\ MachineOK
BY DEF TypeOK, PlansOK, MachineOK, PlanType, Verbs, StepType

LEMMA TypePartsNext == PlansOK' /\ MachineOK' => TypeOK'
BY DEF TypeOK, PlansOK, MachineOK, PlanType, Verbs, StepType

LEMMA NewExit ==
  ASSUME PlansOK, NEW p \in Sessions, verb' = verb, NEW c \in PlanType,
         plan' = [plan EXCEPT ![p] = c], NEW q \in Seq(StepType),
         script' = [script EXCEPT ![p] = q],
         NEW e \in {"none", "ok", "failed", "refused", "usage"},
         exit' = [exit EXCEPT ![p] = e],
         e # "none" => q = <<>>, e \in {"refused", "usage"} => verb[p] = "ask"
  PROVE  PlansOK'
BY DEF PlansOK

\* The scripts that p may be given.
LEMMA ScriptTypes ==
  /\ <<>> \in Seq(StepType)
  /\ \A i \in Intents : <<<<"answer", i>>>> \in Seq(StepType)
  /\ \A v \in Verbs : \A t \in Services \cup Jails \cup {None} :
       Taken(v, t) => Steps(v, t) \in Seq(StepType)
<1>1. \A i \in Intents : <<<<"answer", i>>>> \in Seq(StepType)
  <2> TAKE i \in Intents
  <2>1. <<"answer", i>> \in StepType
    BY DEF StepType
  <2> QED BY <2>1
<1>2. \A v \in Verbs : \A t \in Services \cup Jails \cup {None} :
        Taken(v, t) => Steps(v, t) \in Seq(StepType)
  <2> TAKE v \in Verbs
  <2> TAKE t \in Services \cup Jails \cup {None}
  <2> HAVE Taken(v, t)
  <2> QED BY StepsLoop DEF Loop
<1> QED BY <1>1, <1>2

LEMMA RunTypes ==
  ASSUME TypeOK, NEW p \in Sessions, verb' = verb, verb[p] = "ask", exit[p] = "none",
         NEW c \in PlanType, c.verb \in Verbs, plan' = [plan EXCEPT ![p] = c],
         Run(p, c)
  PROVE  PlansOK'
<1>1. PlansOK
  BY TypeParts
<1>2. c.target \in Services \cup Jails \cup {None}
  BY DEF PlanType
<1>3. CASE Taken(c.verb, c.target)
  <2> DEFINE q == Steps(c.verb, c.target)
  <2>1. q \in Seq(StepType)
    BY <1>2, <1>3, ScriptTypes
  <2>2. script' = [script EXCEPT ![p] = q] /\ exit' = [exit EXCEPT ![p] = "none"]
    BY <1>1, <1>3 DEF Run, PlansOK
  <2> HIDE DEF q
  <2> QED BY <1>1, <2>1, <2>2, NewExit
<1>4. CASE ~Taken(c.verb, c.target)
  <2>1. script' = [script EXCEPT ![p] = <<>>] /\ exit' = [exit EXCEPT ![p] = "usage"]
    BY <1>4 DEF Run
  <2> QED BY <1>1, <2>1, ScriptTypes, NewExit
<1> QED BY <1>3, <1>4

LEMMA LeaveTypes ==
  ASSUME TypeOK, NEW p \in Sessions, verb' = verb, verb[p] = "ask", NEW c \in PlanType,
         plan' = [plan EXCEPT ![p] = c], Leave(p)
  PROVE  PlansOK'
<1>1. PlansOK
  BY TypeParts
<1>2. script' = [script EXCEPT ![p] = <<>>] /\ exit' = [exit EXCEPT ![p] = "refused"]
  BY DEF Leave
<1> QED BY <1>1, <1>2, ScriptTypes, NewExit

\* A step taken off a script, or put in its place.
LEMMA TailTypes ==
  ASSUME TypeOK, NEW p \in Sessions, script[p] # <<>>, UNCHANGED <<plan, exit, verb>>,
         exit[p] = "none",
         NEW q, script' = [script EXCEPT ![p] = q],
         \/ q = Tail(script[p])
         \/ \E s \in Services : q = <<<<"start", s>>>> \o Tail(script[p])
  PROVE  PlansOK'
<1>1. PlansOK
  BY TypeParts
<1>2. Tail(script[p]) \in Seq(StepType)
  BY StepTypes
<1>3. q \in Seq(StepType)
  <2>1. CASE q = Tail(script[p])
    BY <1>2, <2>1
  <2>2. CASE \E s \in Services : q = <<<<"start", s>>>> \o Tail(script[p])
    <3>1. PICK s \in Services : q = <<<<"start", s>>>> \o Tail(script[p])
      BY <2>2
    <3> DEFINE x == <<"start", s>>
               r == Tail(script[p])
    <3>2. x \in StepType
      BY DEF StepType
    <3> HIDE DEF x
    <3>3. <<x>> \in Seq(StepType)
      BY <3>2
    <3> HIDE DEF r
    <3>4. <<x>> \o r \in Seq(StepType)
      BY <1>2, <3>3, ConcatProperties DEF r
    <3> QED BY <3>1, <3>4 DEF x, r
  <2> QED BY <2>1, <2>2
<1>4. plan' = [plan EXCEPT ![p] = plan[p]] /\ exit' = [exit EXCEPT ![p] = "none"]
      /\ plan[p] \in PlanType
  BY <1>1 DEF PlansOK
<1> QED BY <1>1, <1>3, <1>4, NewExit

LEMMA InitTypes == Init => TypeOK
<1> SUFFICES ASSUME Init PROVE TypeOK
  OBVIOUS
<1>1. PlansOK
  BY DEF Init, PlansOK, PlanType, Unclear
<1>2. MachineOK
  BY DEF Init, MachineOK
<1> QED BY <1>1, <1>2, TypeParts

LEMMA BeginTypes ==
  ASSUME TypeOK, NEW p \in Sessions,
         NEW v \in {"start", "stop", "restart", "save", "resume", "ask"},
         NEW t \in Services \cup Jails \cup {None}, NEW q \in Seq(StepType),
         Begin(p, v, t, q)
  PROVE  TypeOK'
<1>1. PlansOK /\ MachineOK
  BY TypeParts
<1>2. PlansOK'
  <2>1. Unclear \in PlanType
    BY DEF Unclear, PlanType
  <2> QED BY <1>1, <2>1 DEF Begin, PlansOK
<1>3. MachineOK'
  BY <1>1 DEF Begin, MachineOK
<1> QED BY <1>2, <1>3, TypePartsNext

LEMMA NextTypes ==
  ASSUME TypeOK, \A p \in Sessions : SessionInv(p), Next
  PROVE  TypeOK'
<1>0. PlansOK /\ MachineOK
  BY TypeParts
<1>1. ASSUME NEW p \in Sessions, NEW c \in Commands, Command(p, c[1], c[2])
      PROVE  TypeOK'
  <2> DEFINE v == c[1]
             t == c[2]
  <2>1. /\ v \in {"start", "stop", "restart", "save", "resume"} /\ v \in Verbs
        /\ t \in Services \cup Jails \cup {None} /\ Taken(v, t)
    BY HajimectlAssumption DEF Commands, Taken, Verbs
  <2>2. Begin(p, v, t, Steps(v, t))
    BY <1>1 DEF Command
  <2> HIDE DEF v, t
  <2> QED BY <2>1, <2>2, ScriptTypes, BeginTypes
<1>2. ASSUME NEW p \in Sessions, NEW r \in Requests, Ask(p, r[1], r[2])
      PROVE  TypeOK'
  <2> DEFINE i == r[1]
             n == r[2]
             q == Append(IF i = "start" THEN InOrder("look", Services) ELSE <<>>, <<"plan", i>>)
  <2>1. i \in Intents /\ n \in Services \cup Jails \cup {None}
    BY HajimectlAssumption DEF Requests, Pointed, Intents
  <2>2. Begin(p, "ask", n, q)
    BY <1>2 DEF Ask
  <2> HIDE DEF i, n
  <2>3. Questions(q, i)
    BY <2>1, AskedInOrder
  <2> HIDE DEF q
  <2> QED BY <2>1, <2>2, <2>3, BeginTypes DEF Questions
<1>3. ASSUME NEW p \in Sessions, NEW s \in Services, CheckUp(p, s)
      PROVE  TypeOK'
  <2>1. PlansOK'
    <3> DEFINE q == IF s \in up THEN Tail(script[p]) ELSE <<<<"start", s>>>> \o Tail(script[p])
    <3>1. /\ script' = [script EXCEPT ![p] = q] /\ script[p] # <<>> /\ exit[p] = "none"
          /\ UNCHANGED <<plan, exit, verb>>
      BY <1>0, <1>3 DEF CheckUp, Doing, Busy, PlansOK
    <3>2. q = Tail(script[p]) \/ \E b \in Services : q = <<<<"start", b>>>> \o Tail(script[p])
      OBVIOUS
    <3> HIDE DEF q
    <3> QED BY <3>1, <3>2, TailTypes
  <2>2. MachineOK'
    BY <1>0, <1>3 DEF CheckUp, Doing, Nothing, MachineOK
  <2> QED BY <2>1, <2>2, TypePartsNext
<1>4. ASSUME NEW p \in Sessions, NEW s \in Services, Start(p, s)
      PROVE  TypeOK'
  <2>1. PlansOK'
    <3>1. /\ script' = [script EXCEPT ![p] = Tail(script[p])]
          /\ script[p] # <<>> /\ exit[p] = "none" /\ UNCHANGED <<plan, exit, verb>>
      BY <1>0, <1>4 DEF Start, Doing, Busy, PlansOK
    <3> QED BY <3>1, TailTypes
  <2>2. faults' \in Nat
    BY <1>0, <1>4 DEF Start, Fault, MachineOK
  <2>3. failed' \in [Sessions -> BOOLEAN]
    BY <1>0, <1>4 DEF Start, MachineOK
  <2>4. /\ up' \subseteq Services /\ lost' \in [Sessions -> SUBSET Services]
        /\ gained' \in [Sessions -> SUBSET Services] /\ kept' \in [Sessions -> SUBSET Services]
    BY <1>0, <1>4 DEF Start, ComesUp, Nothing, MachineOK
  <2>5. MachineOK'
    BY <1>0, <1>4, <2>2, <2>3, <2>4 DEF Start, Doing, MachineOK
  <2> QED BY <2>1, <2>5, TypePartsNext
<1>5. ASSUME NEW p \in Sessions, NEW s \in Services, Stop(p, s)
      PROVE  TypeOK'
  <2>1. PlansOK'
    <3>1. /\ script' = [script EXCEPT ![p] = Tail(script[p])]
          /\ script[p] # <<>> /\ exit[p] = "none" /\ UNCHANGED <<plan, exit, verb>>
      BY <1>0, <1>5 DEF Stop, Doing, Busy, PlansOK
    <3> QED BY <3>1, TailTypes
  <2>2. faults' \in Nat
    BY <1>0, <1>5 DEF Stop, Fault, MachineOK
  <2>3. /\ up' \subseteq Services /\ lost' \in [Sessions -> SUBSET Services]
        /\ gained' \in [Sessions -> SUBSET Services] /\ kept' \in [Sessions -> SUBSET Services]
    BY <1>0, <1>5 DEF Stop, GoesDown, Nothing, MachineOK
  <2>4. MachineOK'
    BY <1>0, <1>5, <2>2, <2>3 DEF Stop, Doing, MachineOK
  <2> QED BY <2>1, <2>4, TypePartsNext
<1>6. ASSUME NEW p \in Sessions, NEW s \in Services, Look(p, s)
      PROVE  TypeOK'
  <2>1. PlansOK'
    <3>1. /\ script' = [script EXCEPT ![p] = Tail(script[p])]
          /\ script[p] # <<>> /\ exit[p] = "none" /\ UNCHANGED <<plan, exit, verb>>
      BY <1>0, <1>6 DEF Look, Doing, Busy, PlansOK
    <3> QED BY <3>1, TailTypes
  <2>2. MachineOK'
    BY <1>0, <1>6 DEF Look, Doing, Nothing, MachineOK
  <2> QED BY <2>1, <2>2, TypePartsNext
<1>7. ASSUME NEW p \in Sessions, NEW t, Clone(p, t)
      PROVE  TypeOK'
  <2>1. PlansOK'
    <3>1. /\ script' = [script EXCEPT ![p] = Tail(script[p])]
          /\ script[p] # <<>> /\ exit[p] = "none" /\ UNCHANGED <<plan, exit, verb>>
      BY <1>0, <1>7 DEF Clone, Doing, Busy, PlansOK
    <3> QED BY <3>1, TailTypes
  <2>2. faults' \in Nat
    BY <1>0, <1>7 DEF Clone, Fault, MachineOK
  <2>3. failed' \in [Sessions -> BOOLEAN]
    BY <1>0, <1>7 DEF Clone, MachineOK
  <2>4. MachineOK'
    BY <1>0, <1>7, <2>2, <2>3 DEF Clone, Doing, Nothing, MachineOK
  <2> QED BY <2>1, <2>4, TypePartsNext
<1>8. ASSUME NEW p \in Sessions, NEW i \in Intents, Plan(p, i)
      PROVE  TypeOK'
  <2> DEFINE c == plan'[p]
  <2>0. /\ verb[p] # "none" /\ exit[p] = "none" /\ script[p] # <<>> /\ verb' = verb
        /\ Head(script[p]) = <<"plan", i>>
    BY <1>8 DEF Plan, Doing, Busy
  <2>1. PICK sure \in BOOLEAN : plan' = [plan EXCEPT ![p] = PlanFor(i, target[p], sure, seen[p])]
    BY <1>8 DEF Plan
  <2>2. c = PlanFor(i, target[p], sure, seen[p]) /\ plan' = [plan EXCEPT ![p] = c]
    BY <1>0, <2>1 DEF PlansOK
  <2>3. target[p] \in Services \cup Jails \cup {None} /\ seen[p] \in SUBSET Services
    BY <1>0 DEF MachineOK
  <2>4. verb[p] = "ask"
    <3>1. Thinking(p)
      BY <2>0, FirstTells DEF SessionInv
    <3> QED BY <3>1 DEF SessionInv, ThinkInv
  <2> HIDE DEF c
  <2>5. c \in PlanType /\ (c.outcome \in {"act", "confirm"} => c.verb \in Verbs)
    BY <2>2, <2>3, PlanFacts
  <2>6. PlansOK'
    <3>1. CASE c.outcome = "act"
      <4>1. Run(p, c)
        BY <1>8, <3>1 DEF Plan, c
      <4> QED BY <2>0, <2>2, <2>4, <2>5, <3>1, <4>1, RunTypes
    <3>2. CASE c.outcome = "confirm"
      <4> DEFINE q == <<<<"answer", i>>>>
      <4>1. script' = [script EXCEPT ![p] = q] /\ exit' = exit
        BY <1>8, <3>2 DEF Plan, c
      <4>2. exit' = [exit EXCEPT ![p] = "none"]
        BY <1>0, <2>0, <4>1 DEF PlansOK
      <4>3. q \in Seq(StepType)
        BY ScriptTypes
      <4> HIDE DEF q
      <4> QED BY <1>0, <2>0, <2>2, <2>5, <4>1, <4>2, <4>3, NewExit
    <3>3. CASE c.outcome \in {"refuse", "unclear"}
      <4>1. Leave(p)
        BY <1>8, <3>3 DEF Plan, c
      <4> QED BY <2>0, <2>2, <2>4, <2>5, <4>1, LeaveTypes
    <3> QED BY <2>5, <3>1, <3>2, <3>3 DEF PlanType
  <2>7. MachineOK'
    BY <1>0, <1>8 DEF Plan, Doing, Nothing, MachineOK
  <2> QED BY <2>6, <2>7, TypePartsNext
<1>9. ASSUME NEW p \in Sessions, NEW i \in Intents, Answer(p, i)
      PROVE  TypeOK'
  <2>0. /\ verb[p] # "none" /\ exit[p] = "none" /\ script[p] # <<>> /\ verb' = verb
        /\ Head(script[p]) = <<"answer", i>> /\ plan' = plan
    BY <1>9 DEF Answer, Doing, Busy
  <2>1. Thinking(p)
    BY <2>0, FirstTells DEF SessionInv
  <2>2. verb[p] = "ask"
    BY <2>1 DEF SessionInv, ThinkInv
  <2>3. plan[p].verb \in Verbs
    <3> DEFINE q == script[p]
    <3>1. PICK j \in Intents : Questions(q, j) \/ plan[p].outcome = "confirm"
      BY <2>1 DEF SessionInv, ThinkInv
    <3> HIDE DEF q
    <3>2. ~Questions(q, j)
      <4>1. Head(q) = <<"answer", i>>
        BY <2>0 DEF q
      <4> QED BY <4>1, PlanIsLast
    <3> QED BY <2>2, <3>1, <3>2 DEF SessionInv, PlannedInv, Verb, Verbs
  <2>4. plan[p] \in PlanType /\ plan' = [plan EXCEPT ![p] = plan[p]]
    BY <1>0, <2>0 DEF PlansOK
  <2>5. PlansOK'
    <3>1. CASE Run(p, plan[p])
      BY <2>0, <2>2, <2>3, <2>4, <3>1, RunTypes
    <3>2. CASE Leave(p)
      BY <2>0, <2>2, <2>4, <3>2, LeaveTypes
    <3> QED BY <1>9, <3>1, <3>2 DEF Answer
  <2>6. MachineOK'
    BY <1>0, <1>9 DEF Answer, Doing, Nothing, MachineOK
  <2> QED BY <2>5, <2>6, TypePartsNext
<1>10. ASSUME NEW p \in Sessions, End(p)
       PROVE  TypeOK'
  <2>1. PlansOK'
    BY <1>0, <1>10 DEF End, Busy, PlansOK
  <2>2. MachineOK'
    BY <1>0, <1>10 DEF End, Nothing, MachineOK
  <2> QED BY <2>1, <2>2, TypePartsNext
<1>11. ASSUME NEW s \in Services, Die(s)
       PROVE  TypeOK'
  <2>1. PlansOK'
    BY <1>0, <1>11 DEF Die, PlansOK
  <2>2. faults' \in Nat
    BY <1>0, <1>11 DEF Die, Fault, MachineOK
  <2>3. MachineOK'
    BY <1>0, <1>11, <2>2 DEF Die, GoesDown, MachineOK
  <2> QED BY <2>1, <2>3, TypePartsNext
<1> QED
  BY <1>1, <1>2, <1>3, <1>4, <1>5, <1>6, <1>7, <1>8, <1>9, <1>10, <1>11 DEF Next

----------------------------------------------------------------------------
(* All of them together *)

\* The steps of one session.
Acts(p) ==
  \/ \E c \in Commands : Command(p, c[1], c[2])
  \/ \E r \in Requests : Ask(p, r[1], r[2])
  \/ \E s \in Services : CheckUp(p, s) \/ Start(p, s) \/ Stop(p, s) \/ Look(p, s)
  \/ \E t \in Jails \cup {None} : Clone(p, t)
  \/ \E i \in Intents : Plan(p, i) \/ Answer(p, i)
  \/ End(p)

LEMMA WhoActs == Next <=> (\E p \in Sessions : Acts(p)) \/ (\E s \in Services : Die(s))
BY DEF Next, Acts

LEMMA ActorKeeps ==
  ASSUME TypeOK, TypeOK', NEW p \in Sessions, SessionInv(p), Acts(p)
  PROVE  SessionInv(p)'
<1>1. CASE \E c \in Commands : Command(p, c[1], c[2])
  BY <1>1, CommandKeeps
<1>2. CASE \E r \in Requests : Ask(p, r[1], r[2])
  BY <1>2, AskKeeps
<1>3. CASE \E s \in Services : CheckUp(p, s)
  BY <1>3, CheckKeeps
<1>4. CASE \E s \in Services : Start(p, s)
  BY <1>4, StartKeeps
<1>5. CASE \E s \in Services : Stop(p, s)
  BY <1>5, StopKeeps
<1>6. CASE \E s \in Services : Look(p, s)
  BY <1>6, LookKeeps
<1>7. CASE \E t \in Jails \cup {None} : Clone(p, t)
  BY <1>7, CloneKeeps
<1>8. CASE \E i \in Intents : Plan(p, i)
  BY <1>8, PlanKeeps
<1>9. CASE \E i \in Intents : Answer(p, i)
  BY <1>9, YesOrNoKeeps
<1>10. CASE End(p)
  BY <1>10, EndKeeps
<1> QED
  BY <1>1, <1>2, <1>3, <1>4, <1>5, <1>6, <1>7, <1>8, <1>9, <1>10 DEF Acts

\* A step of q leaves p alone, but for the machine they share.
LEMMA OthersAreStill ==
  ASSUME TypeOK, TypeOK', NEW p \in Sessions, NEW q \in Sessions, p # q, Acts(q)
  PROVE  Still(p) /\ Elsewhere(p)
<1>0. /\ up \subseteq Services /\ faults \in Nat
      /\ verb \in [Sessions -> {"none", "start", "stop", "restart", "save", "resume", "ask"}]
      /\ plan \in [Sessions -> PlanType]
      /\ target \in [Sessions -> Services \cup Jails \cup {None}]
      /\ exit \in [Sessions -> {"none", "ok", "failed", "refused", "usage"}]
      /\ script \in [Sessions -> Seq(StepType)]
      /\ seen \in [Sessions -> SUBSET Services] /\ failed \in [Sessions -> BOOLEAN]
      /\ before \in [Sessions -> SUBSET Services] /\ lost \in [Sessions -> SUBSET Services]
      /\ gained \in [Sessions -> SUBSET Services] /\ kept \in [Sessions -> SUBSET Services]
  BY TypeParts DEF PlansOK, MachineOK
<1>1. ASSUME Nothing, faults' \in {faults, faults + 1}
      PROVE  Elsewhere(p)
  <2>1. faults' \in Nat /\ faults <= faults'
    BY <1>0, <1>1
  <2> QED BY <1>0, <1>1, <2>1 DEF Elsewhere, Nothing
<1>2. ASSUME NEW v, NEW t, NEW x, Begin(q, v, t, x)
      PROVE  Still(p) /\ Elsewhere(p)
  <2>1. Still(p)
    BY <1>0, <1>2 DEF Begin, Still
  <2>2. up' = up /\ faults' = faults /\ gained'[p] = gained[p] /\ lost'[p] = lost[p]
        /\ kept'[p] = kept[p]
    BY <1>0, <1>2 DEF Begin
  <2> QED BY <1>0, <2>1, <2>2 DEF Elsewhere
<1>3. CASE \E c \in Commands : Command(q, c[1], c[2])
  BY <1>2, <1>3 DEF Command
<1>4. CASE \E r \in Requests : Ask(q, r[1], r[2])
  BY <1>2, <1>4 DEF Ask
<1>5. ASSUME NEW s \in Services, CheckUp(q, s)
      PROVE  Still(p) /\ Elsewhere(p)
  <2>1. Still(p)
    BY <1>0, <1>5 DEF CheckUp, Doing, Still
  <2> QED BY <1>1, <1>5, <2>1 DEF CheckUp
<1>6. ASSUME NEW s \in Services, Start(q, s)
      PROVE  Still(p) /\ Elsewhere(p)
  <2>1. Still(p)
    BY <1>0, <1>6 DEF Start, Doing, Still
  <2>2. CASE ComesUp(q, s) /\ faults' = faults
    <3>1. up' = up \cup {s} /\ gained'[p] = gained[p] \cup {s} /\ lost' = lost /\ kept' = kept
      BY <1>0, <2>2 DEF ComesUp
    <3> QED BY <1>0, <2>1, <2>2, <3>1 DEF Elsewhere
  <2>3. CASE Nothing /\ faults' \in {faults, faults + 1}
    BY <1>1, <2>1, <2>3
  <2> QED BY <1>6, <2>2, <2>3 DEF Start, Fault
<1>7. ASSUME NEW s \in Services, Stop(q, s)
      PROVE  Still(p) /\ Elsewhere(p)
  <2>1. Still(p)
    BY <1>0, <1>7 DEF Stop, Doing, Still
  <2>2. CASE GoesDown(q, s) /\ faults' = faults
    <3>1. /\ up' = up \ {s} /\ gained' = gained
          /\ lost'[p] = lost[p] \cup {s} /\ kept'[p] = kept[p] \ {s}
      BY <1>0, <2>2 DEF GoesDown
    <3> QED BY <1>0, <2>1, <2>2, <3>1 DEF Elsewhere
  <2>3. CASE Nothing /\ faults' \in {faults, faults + 1}
    BY <1>1, <2>1, <2>3
  <2> QED BY <1>7, <2>2, <2>3 DEF Stop, Fault
<1>8. ASSUME NEW s \in Services, Look(q, s)
      PROVE  Still(p) /\ Elsewhere(p)
  <2>1. Still(p)
    BY <1>0, <1>8 DEF Look, Doing, Still
  <2> QED BY <1>1, <1>8, <2>1 DEF Look
<1>9. ASSUME NEW t, Clone(q, t)
      PROVE  Still(p) /\ Elsewhere(p)
  <2>1. Still(p)
    BY <1>0, <1>9 DEF Clone, Doing, Still
  <2>2. Nothing /\ faults' \in {faults, faults + 1}
    BY <1>9 DEF Clone, Fault
  <2> QED BY <1>1, <2>1, <2>2
<1>10. ASSUME NEW i \in Intents, Plan(q, i)
       PROVE  Still(p) /\ Elsewhere(p)
  <2>1. /\ verb' = verb /\ target' = target /\ before' = before /\ failed' = failed
        /\ seen'[p] = seen[p] /\ plan'[p] = plan[p]
    BY <1>0, <1>10 DEF Plan, Doing
  <2>2. plan'[q].outcome \in {"act", "confirm", "refuse", "unclear"}
    BY DEF TypeOK
  <2>3. script'[p] = script[p] /\ exit'[p] = exit[p]
    <3>1. Run(q, plan'[q]) \/ Leave(q)
          \/ (script' = [script EXCEPT ![q] = <<<<"answer", i>>>>] /\ exit' = exit)
      BY <1>10, <2>2 DEF Plan
    <3> QED BY <1>0, <3>1 DEF Run, Leave
  <2> QED BY <1>1, <1>10, <2>1, <2>3 DEF Plan, Still
<1>11. ASSUME NEW i \in Intents, Answer(q, i)
       PROVE  Still(p) /\ Elsewhere(p)
  <2>1. Still(p)
    <3>1. script'[p] = script[p] /\ exit'[p] = exit[p]
      BY <1>0, <1>11 DEF Answer, Run, Leave
    <3> QED BY <1>0, <1>11, <3>1 DEF Answer, Doing, Still
  <2> QED BY <1>1, <1>11, <2>1 DEF Answer
<1>12. ASSUME End(q)
       PROVE  Still(p) /\ Elsewhere(p)
  <2>1. Still(p)
    BY <1>0, <1>12 DEF End, Still
  <2> QED BY <1>1, <1>12, <2>1 DEF End
<1> QED
  BY <1>3, <1>4, <1>5, <1>6, <1>7, <1>8, <1>9, <1>10, <1>11, <1>12 DEF Acts

\* The death of a service is nobody's step.
LEMMA DeathIsElsewhere ==
  ASSUME TypeOK, NEW p \in Sessions, NEW s \in Services, Die(s)
  PROVE  Still(p) /\ Elsewhere(p)
<1>1. Still(p)
  BY DEF Die, Still
<1>2. faults \in Nat /\ faults' = faults + 1
  BY DEF Die, Fault, TypeOK
<1>3. p # "none"
  BY HajimectlAssumption
<1>4. /\ up' = up \ {s} /\ gained' = gained
      /\ lost'[p] = lost[p] \cup {s} /\ kept'[p] = kept[p] \ {s}
  BY <1>3 DEF Die, GoesDown, TypeOK
<1> QED BY <1>1, <1>2, <1>4 DEF Elsewhere

AllInv == TypeOK /\ \A p \in Sessions : SessionInv(p)

LEMMA InitAllInv == Init => AllInv
<1> SUFFICES ASSUME Init PROVE AllInv
  OBVIOUS
<1>1. TypeOK
  BY InitTypes
<1>2. ASSUME NEW p \in Sessions PROVE SessionInv(p)
  <2>1. /\ verb[p] = "none" /\ target[p] = None /\ plan[p] = Unclear /\ script[p] = <<>>
        /\ ~failed[p] /\ exit[p] = "none" /\ lost[p] = {} /\ gained[p] = {} /\ kept[p] = {}
    BY DEF Init
  <2>2. ~Thinking(p) /\ \A y : ~Has(script[p], y)
    BY <2>1 DEF Thinking, Has
  <2>3. Verb(p) = "none"
    BY <2>1 DEF Verb
  <2>4. Raises(p) = {} /\ Halts(p) = {} /\ ToHalt(p) = {}
    BY <2>2, <2>3 DEF Raises, RaisesOf, Halts, HaltsOf, ToHalt
  <2>5. Loop(script[p], Verb(p), Target(p))
    <3> DEFINE q == script[p]
    <3>1. q \in Seq(StepType) /\ DOMAIN q = {}
      BY <2>1
    <3> HIDE DEF q
    <3>2. Loop(q, Verb(p), Target(p))
      BY <3>1 DEF Loop
    <3> QED BY <3>2 DEF q
  <2>6. ThinkInv(p) /\ LoopInv(p) /\ GoalInv(p) /\ RestartInv(p) /\ BlameInv(p) /\ StartInv(p)
    BY <2>1, <2>2, <2>3, <2>4, <2>5
       DEF ThinkInv, LoopInv, GoalInv, RestartInv, BlameInv, StartInv
  <2>7. PlannedInv(p) /\ ExitInv(p) /\ AloneInv(p) /\ RoomInv(p)
    BY <2>1 DEF PlannedInv, ExitInv, AloneInv, RoomInv
  <2> QED BY <2>6, <2>7 DEF SessionInv
<1> QED BY <1>1, <1>2 DEF AllInv

LEMMA NextAllInv == AllInv /\ [Next]_vars => AllInv'
<1> SUFFICES ASSUME AllInv, [Next]_vars PROVE AllInv'
  OBVIOUS
<1>0. TypeOK /\ \A p \in Sessions : SessionInv(p)
  BY DEF AllInv
<1>1. CASE Next
  <2>1. TypeOK'
    BY <1>0, <1>1, NextTypes
  <2>2. up \in SUBSET Services /\ up' \in SUBSET Services
    BY <1>0, <2>1 DEF TypeOK
  <2>3. ASSUME NEW p \in Sessions PROVE SessionInv(p)'
    <3>1. ASSUME NEW q \in Sessions, Acts(q) PROVE SessionInv(p)'
      <4>1. CASE p = q
        BY <1>0, <2>1, <3>1, <4>1, ActorKeeps
      <4>2. CASE p # q
        BY <1>0, <2>1, <2>2, <3>1, <4>2, OthersAreStill, Bystander
      <4> QED BY <4>1, <4>2
    <3>2. ASSUME NEW s \in Services, Die(s) PROVE SessionInv(p)'
      BY <1>0, <2>2, <3>2, DeathIsElsewhere, Bystander
    <3> QED BY <1>1, <3>1, <3>2, WhoActs
  <2> QED BY <2>1, <2>3 DEF AllInv
<1>2. CASE UNCHANGED vars
  <2>1. /\ up' = up /\ verb' = verb /\ target' = target /\ plan' = plan /\ script' = script
        /\ seen' = seen /\ failed' = failed /\ exit' = exit /\ commands' = commands
        /\ faults' = faults /\ before' = before /\ lost' = lost /\ gained' = gained
        /\ kept' = kept
    BY <1>2 DEF vars
  <2>2. TypeOK'
    BY <1>0, <2>1 DEF TypeOK
  <2>3. ASSUME NEW p \in Sessions PROVE SessionInv(p)'
    <3>1. up \in SUBSET Services /\ faults \in Nat
      BY <1>0 DEF TypeOK
    <3>2. Still(p) /\ Elsewhere(p)
      BY <2>1, <3>1 DEF Still, Elsewhere
    <3> QED BY <1>0, <2>1, <3>1, <3>2, Bystander
  <2> QED BY <2>2, <2>3 DEF AllInv
<1> QED BY <1>1, <1>2

LEMMA AllInvHolds == Spec => []AllInv
<1> QED BY InitAllInv, NextAllInv, PTL DEF Spec

----------------------------------------------------------------------------
(* What they promise *)

\* The variables of hajimectl's commands and hajime-model's plans keep their
\* types, and a session whose command has ended has nothing left to do.
THEOREM ServicesTyped == Spec => []TypeOK
<1>1. AllInv => TypeOK
  BY DEF AllInv
<1> QED BY <1>1, AllInvHolds, PTL

\* hajimectl's exit code, however many commands run at once and whatever fails:
\* "ok" of a start (cmd_start, cmd_resume) leaves all it was to start running but
\* for what others took down, and "failed" has a cause; a restart is a success over
\* the old process only when a stop failed; only a jail's command is turned down.
THEOREM CodesAreHonest == Spec => []ExitCodeIsHonest
<1>1. ASSUME AllInv, NEW p \in Sessions
      PROVE  /\ Verb(p) \in {"start", "restart", "resume"} =>
                  /\ exit[p] = "ok" => Wanted(p) \subseteq up \cup lost[p]
                  /\ exit[p] = "failed" =>
                       \/ faults > 0
                       \/ Wanted(p) \cap gained[p] # {}
                       \/ Verb(p) = "resume" /\ before[p] \cap Optional # {}
             /\ exit[p] = "ok" /\ Verb(p) = "restart" /\ Target(p) \in kept[p] => faults > 0
             /\ exit[p] = "usage" => target[p] \in Jails
  <2>0. SessionInv(p) /\ TypeOK
    BY <1>1 DEF AllInv
  <2>1. exit[p] # "none" =>
          ~Thinking(p) /\ ToRaise(p) = {} /\ \A y : ~Has(script[p], y)
    BY <2>0 DEF TypeOK, Thinking, ToRaise, Has
  <2>2. Verb(p) \in {"start", "restart", "resume"} => Wanted(p) = Raises(p)
    BY DEF Wanted, Raises, RaisesOf
  <2>3. exit[p] = "ok" => Raises(p) \subseteq up \cup lost[p]
    BY <2>0, <2>1 DEF SessionInv, GoalInv
  <2>4. exit[p] = "failed" =>
          \/ faults > 0
          \/ Raises(p) \cap gained[p] # {}
          \/ Verb(p) = "resume" /\ before[p] \cap Optional # {}
    BY <2>0, <2>1 DEF SessionInv, ExitInv, BlameInv
  <2>5. exit[p] = "ok" /\ Verb(p) = "restart" /\ Target(p) \in kept[p] => faults > 0
    BY <2>0, <2>1 DEF SessionInv, RestartInv
  <2>6. exit[p] = "usage" => target[p] \in Jails
    BY <2>0 DEF SessionInv, ExitInv
  <2> QED BY <2>2, <2>3, <2>4, <2>5, <2>6
<1>2. AllInv => ExitCodeIsHonest
  BY <1>1 DEF ExitCodeIsHonest
<1> QED BY <1>2, AllInvHolds, PTL

\* A command that nobody disturbs leaves running exactly what hajimectl's table of
\* commands says, and a request that was refused or not confirmed (print_plan)
\* leaves the machine as it was.
THEOREM CommandsKeepTheirWord == Spec => []CommandsDoAsTheySay
<1>1. ASSUME AllInv, NEW p \in Sessions, exit[p] # "none", Undisturbed(p)
      PROVE  /\ up = Intended(p)
             /\ verb[p] = "ask" /\ target[p] = None => Verb(p) \notin Pointed
             /\ exit[p] = "failed" <=> Verb(p) = "resume" /\ before[p] \cap Optional # {}
  <2>0. SessionInv(p) /\ TypeOK
    BY <1>1 DEF AllInv
  <2>1. ~Thinking(p) /\ ToRaise(p) = {} /\ ToHalt(p) = {}
    BY <1>1, <2>0 DEF TypeOK, Thinking, ToRaise, ToHalt, Has
  <2>2. exit[p] \in {"ok", "failed", "refused", "usage"} /\ before[p] \subseteq Services
    BY <1>1, <2>0 DEF TypeOK
  <2>3. verb[p] # "none"
    BY <1>1, <2>0 DEF SessionInv, ExitInv
  <2>4. ASSUME verb[p] = "ask", target[p] = None
        PROVE  Verb(p) \notin Pointed
    <3>1. Verb(p) # "rollback"
      BY <2>0, <2>4 DEF TypeOK, Verb
    <3> QED BY <2>0, <2>4, <3>1 DEF SessionInv, PlannedInv, Pointed
  <2>5. CASE exit[p] \in {"refused", "usage"}
    <3>1. up = before[p] /\ Verb(p) # "resume"
      BY <1>1, <2>0, <2>3, <2>5 DEF SessionInv, AloneInv, ExitInv
    <3>2. Intended(p) = before[p]
      BY <2>5 DEF Intended
    <3> QED BY <2>4, <2>5, <3>1, <3>2
  <2>6. CASE exit[p] \in {"ok", "failed"}
    <3>1. /\ up = (before[p] \ Halts(p)) \cup Raises(p)
          /\ failed[p] <=> Verb(p) = "resume" /\ before[p] \cap Raises(p) # {}
      BY <1>1, <2>0, <2>1, <2>3, <2>6 DEF SessionInv, AloneInv
    <3>2. exit[p] = "failed" <=> failed[p]
      BY <2>0, <2>6 DEF SessionInv, ExitInv
    <3>3. Verb(p) \in {"start", "stop", "restart", "save", "resume", "snapshot", "jail-snapshot"}
      BY <2>0, <2>1, <2>3, <2>6 DEF SessionInv, ExitInv
    <3>4. Verb(p) = "resume" => Raises(p) = Optional
      BY DEF Raises, RaisesOf
    <3>5. up = Intended(p)
      BY <2>2, <2>6, <3>1, <3>3
         DEF Intended, Raises, RaisesOf, Halts, HaltsOf, Optional
    <3> QED BY <2>4, <3>1, <3>2, <3>4, <3>5
  <2> QED BY <2>2, <2>5, <2>6
<1>2. AllInv => CommandsDoAsTheySay
  BY <1>1 DEF CommandsDoAsTheySay
<1> QED BY <1>2, AllInvHolds, PTL

\* Planner::plan_start never plans a start that would leave more in use than there
\* is, but for what others start while running_now looks or after it did.
THEOREM VetoStands == Spec => []VetoHolds
<1>1. ASSUME AllInv, NEW p \in Sessions, verb[p] = "ask", plan[p].verb = "start",
             target[p] \in up
      PROVE  MemoryOf((up \ gained[p]) \cup {target[p]}
                      \cup (Requires(target[p]) \ gained[p])) <= Available
  BY <1>1 DEF AllInv, SessionInv, RoomInv, TypeOK
<1>2. AllInv => VetoHolds
  BY <1>1 DEF VetoHolds
<1> QED BY <1>2, AllInvHolds, PTL

\* No start, stop, save or resume of everything, left alone, lets a service run
\* without what it needs where the service table has what it needs above it
\* (start_order and stop_order).
THEOREM TableProtects == Spec => []OrderProtects
<1>1. ASSUME AllInv, NEW p \in Sessions, Verb(p) # "none", Target(p) = None, Undisturbed(p),
             NEW q \in NewlyBroken(p)
      PROVE  Place(q[1]) < Place(q[2])
  <2> DEFINE a == q[1]
             b == q[2]
  <2>0. SessionInv(p) /\ TypeOK
    BY <1>1 DEF AllInv
  <2>1. /\ q \in Requirements /\ a \in up /\ b \notin up
        /\ ~(a \in before[p] /\ b \notin before[p])
        /\ a \in Services /\ b \in Services
        /\ a \in Essential <=> b \in Essential
    BY <1>1, WorldAssumption, OneTierAssumption DEF NewlyBroken
  <2> HIDE DEF a, b
  <2>2. verb[p] # "none"
    BY <1>1, <2>0 DEF Verb
  <2>3. ~(Thinking(p) \/ exit[p] \in {"refused", "usage"})
    BY <1>1, <2>0, <2>1, <2>2 DEF SessionInv, AloneInv
  <2>4. up = (before[p] \ (Halts(p) \ ToHalt(p))) \cup (Raises(p) \ ToRaise(p))
    BY <1>1, <2>0, <2>2, <2>3 DEF SessionInv, AloneInv
  <2>5. /\ \A x \in Raises(p) \ ToRaise(p) : \A y \in ToRaise(p) : Place(x) < Place(y)
        /\ \A x \in Halts(p) \ ToHalt(p) : \A y \in ToHalt(p) : Place(y) < Place(x)
    BY <2>0, <2>3 DEF SessionInv, LoopInv
  <2>6. Verb(p) \in {"start", "stop", "save", "resume", "snapshot"}
    <3>1. Verb(p) \in {"start", "stop", "restart", "save", "resume", "snapshot", "jail-snapshot"}
      BY <2>0, <2>2, <2>3 DEF SessionInv, ExitInv
    <3>2. Verb(p) \notin {"restart", "jail-snapshot"}
      <4>1. verb[p] = "ask" => Verb(p) \notin {"restart", "jail-snapshot"}
        BY <1>1, <2>0 DEF SessionInv, PlannedInv
      <4>2. verb[p] # "ask" => Verb(p) \notin {"restart", "jail-snapshot"}
        BY <1>1, <2>0 DEF SessionInv, ExitInv, Verb, Target, TypeOK
      <4> QED BY <4>1, <4>2
    <3> QED BY <3>1, <3>2
  <2>7. CASE Verb(p) \in {"start", "resume"}
    <3>1. Halts(p) = {} /\ (a \in Raises(p) <=> b \in Raises(p))
      BY <1>1, <2>1, <2>7 DEF Halts, HaltsOf, Raises, RaisesOf, Scope, Optional
    <3>2. b \notin before[p] /\ a \notin before[p]
      BY <2>1, <2>4, <3>1
    <3>3. a \in Raises(p) \ ToRaise(p) /\ b \in ToRaise(p)
      BY <2>1, <2>4, <3>1, <3>2
    <3> QED BY <2>5, <3>3 DEF a, b
  <2>8. CASE Verb(p) \in {"stop", "save"}
    <3>1. Raises(p) = {} /\ (a \in Halts(p) <=> b \in Halts(p))
      BY <1>1, <2>1, <2>8 DEF Halts, HaltsOf, Raises, RaisesOf, Scope, Optional
    <3>2. a \in before[p] /\ b \in before[p]
      BY <2>1, <2>4, <3>1
    <3>3. b \in Halts(p) \ ToHalt(p) /\ a \in ToHalt(p)
      BY <2>1, <2>4, <3>1, <3>2
    <3> QED BY <2>5, <3>3 DEF a, b
  <2>9. CASE Verb(p) = "snapshot"
    <3>1. Raises(p) = {} /\ Halts(p) = {}
      BY <2>9 DEF Halts, HaltsOf, Raises, RaisesOf
    <3> QED BY <2>1, <2>4, <3>1
  <2> QED BY <2>6, <2>7, <2>8, <2>9
<1>2. AllInv => OrderProtects
  BY <1>1 DEF OrderProtects
<1> QED BY <1>2, AllInvHolds, PTL
=============================================================================
