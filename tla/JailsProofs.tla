---------------------------- MODULE JailsProofs ----------------------------
(***************************************************************************)
(* Proofs for Jails, for any number of jails, sessions and reasons.        *)
(***************************************************************************)
EXTENDS Jails, SequenceTheorems, TLAPS

Snapshot == [name : Names, data : 0 .. version]

\* Names are used once, so that a snapshot has one place.
LEMMA PositionOfName ==
  ASSUME NEW list, NEW i \in DOMAIN list,
         \A k, l \in DOMAIN list : list[k].name = list[l].name => k = l
  PROVE  PositionIn(list, list[i].name) = i
  <1>1. \E k \in DOMAIN list : list[k].name = list[i].name
    OBVIOUS
  <1>2. /\ PositionIn(list, list[i].name) \in DOMAIN list
        /\ list[PositionIn(list, list[i].name)].name = list[i].name
    BY <1>1 DEF PositionIn
  <1> QED
    BY <1>2

LEMMA ElementsHaveNames ==
  ASSUME NEW list \in Seq(Snapshot)
  PROVE  /\ DOMAIN list = 1 .. Len(list) /\ Len(list) \in Nat
         /\ \A i \in DOMAIN list : list[i] \in Snapshot
         /\ \A i \in DOMAIN list : list[i].name \in Names
  <1>1. DOMAIN list = 1 .. Len(list) /\ Len(list) \in Nat
    OBVIOUS
  <1>2. \A i \in DOMAIN list : list[i] \in Snapshot
    BY <1>1
  <1> QED
    BY <1>1, <1>2 DEF Snapshot

LEMMA WiderSeq ==
  ASSUME NEW S, NEW T, S \subseteq T
  PROVE  Seq(S) \subseteq Seq(T)
  <1> SUFFICES ASSUME NEW s \in Seq(S)
               PROVE  s \in Seq(T)
    OBVIOUS
  <1>1. s \in [1 .. Len(s) -> S] /\ Len(s) \in Nat
    BY LenProperties
  <1>2. s \in [1 .. Len(s) -> T]
    BY <1>1
  <1> QED
    BY <1>1, <1>2, SeqDef

LEMMA PositionIsThere ==
  ASSUME NEW list, NEW n \in NamesIn(list)
  PROVE  /\ PositionIn(list, n) \in DOMAIN list
         /\ list[PositionIn(list, n)].name = n
  <1>1. PICK k \in DOMAIN list : list[k].name = n
    BY DEF NamesIn
  <1> QED
    BY <1>1 DEF PositionIn

----------------------------------------------------------------------------
(* Types *)

LEMMA TypeInit == Init => TypeOK
  <1> SUFFICES ASSUME Init PROVE TypeOK
    OBVIOUS
  <1> USE JailsAssumption
  <1>1. snaps \in [Jails -> Seq(Snapshot)]
    BY DEF Init, Snapshot
  <1> QED
    BY <1>1 DEF Init, TypeOK, Snapshot

LEMMA TypeBegin ==
  ASSUME TypeOK, NEW p \in Sessions, NEW call \in {"name", "look"},
         NEW j \in Jails, NEW s \in Jails \X Names, Begin(p, call, j, s)
  PROVE  TypeOK'
  <1> USE DEF TypeOK, Begin, disk
  <1>1. commands' \in 0 .. MaxCommands
    BY JailsAssumption
  <1>2. /\ at' \in [Sessions -> {"idle", "name", "take", "look", "list", "roll"}]
        /\ jail' \in [Sessions -> Jails \cup {None}]
        /\ given' \in [Sessions -> (Jails \X Names) \cup {None}]
        /\ looked' \in [Sessions -> SUBSET Jails]
        /\ told' \in [Sessions -> SUBSET (Jails \X Names)]
        /\ missed' \in [Sessions -> BOOLEAN]
    OBVIOUS
  <1>3. \A q \in Sessions : at'[q] # "idle" => jail'[q] \in Jails /\ given'[q] \in Jails \X Names
    OBVIOUS
  <1>4. \A q \in Sessions : told'[q] # {} => given'[q][1] = jail'[q]
    OBVIOUS
  <1> QED
    BY <1>1, <1>2, <1>3, <1>4, ZenonT(60)

LEMMA TypeName ==
  ASSUME TypeOK, NEW p \in Sessions, Name(p)
  PROVE  TypeOK'
  <1> USE DEF TypeOK, Name, Call
  <1>1. jail[p] \in Jails /\ given[p] \in Jails \X Names /\ second \in 0 .. MaxSecond
    OBVIOUS
  <1>2. given[p][2] \in Names /\ given[p][2][1] \in Reasons
    BY <1>1 DEF Names
  <1>3. <<jail[p], <<given[p][2][1], second>>>> \in Jails \X Names
    BY <1>1, <1>2 DEF Names
  <1>4. \/ given' = given
        \/ given' = [given EXCEPT ![p] = <<jail[p], <<given[p][2][1], second>>>>]
    OBVIOUS
  <1> DEFINE new == <<jail[p], <<given[p][2][1], second>>>>
  <1>5. \/ given' = given
        \/ given' = [given EXCEPT ![p] = new] /\ new \in Jails \X Names /\ new[1] = jail[p]
    BY <1>3, <1>4
  <1> HIDE DEF new
  <1>6. faults' \in 0 .. MaxFaults
    BY JailsAssumption DEF Fault
  <1>7. given' \in [Sessions -> (Jails \X Names) \cup {None}]
    BY <1>5
  <1>8. \A q \in Sessions : at'[q] # "idle" => jail'[q] \in Jails /\ given'[q] \in Jails \X Names
    BY <1>1, <1>5, ZenonT(60)
  <1>9. \A q \in Sessions : told'[q] # {} => given'[q][1] = jail'[q]
    BY <1>5
  <1> QED
    BY <1>6, <1>7, <1>8, <1>9

LEMMA TypeTake ==
  ASSUME TypeOK, NEW p \in Sessions, Take(p)
  PROVE  TypeOK'
  <1> USE DEF TypeOK, Take, Call
  <1>1. jail[p] \in Jails /\ given[p] \in Jails \X Names
    OBVIOUS
  <1>2. given[p][2] \in Names /\ data[jail[p]] \in 0 .. version
    BY <1>1
  <1>3. Taken(p) \in Snapshot /\ Taken(p).name = given[p][2]
    BY <1>2 DEF Taken, Snapshot
  <1>4. faults' \in 0 .. MaxFaults
    BY JailsAssumption DEF Fault
  <1>5. /\ receipts' \subseteq Jails \X Names \X (0 .. version)
        /\ newer' \in [Sessions -> SUBSET (Jails \X Names)]
    BY <1>1, <1>2
  <1>6. at' \in [Sessions -> {"idle", "name", "take", "look", "list", "roll"}]
    OBVIOUS
  <1>7. \A q \in Sessions : at'[q] # "idle" => jail'[q] \in Jails /\ given'[q] \in Jails \X Names
    OBVIOUS
  <1>8. CASE snaps' = snaps
    BY <1>4, <1>5, <1>6, <1>7, <1>8
  <1>9. CASE /\ given[p][2] \notin NamesIn(snaps[jail[p]])
             /\ jail[p] \in created
             /\ snaps' = [snaps EXCEPT ![jail[p]] = Append(@, Taken(p))]
    <2> DEFINE j == jail[p]
    <2>1. snaps \in [Jails -> Seq(Snapshot)]
      BY DEF Snapshot
    <2>2. snaps' \in [Jails -> Seq(Snapshot)]
      BY <2>1, <1>1, <1>3, <1>9
    <2>3. \A k \in Jails : snaps'[k] # <<>> => k \in created
      BY <1>1, <1>9
    <2>4. /\ snaps'[j] = Append(snaps[j], Taken(p))
          /\ \A k \in Jails \ {j} : snaps'[k] = snaps[k]
      BY <1>1, <1>9
    <2>5. /\ Len(snaps'[j]) = Len(snaps[j]) + 1
          /\ \A i \in 1 .. Len(snaps[j]) : snaps'[j][i] = snaps[j][i]
          /\ snaps'[j][Len(snaps[j]) + 1] = Taken(p)
          /\ DOMAIN snaps[j] = 1 .. Len(snaps[j]) /\ DOMAIN snaps'[j] = 1 .. Len(snaps[j]) + 1
          /\ Len(snaps[j]) \in Nat
      BY <2>1, <2>4, <1>1, <1>3
    <2>6. \A i \in DOMAIN snaps[j] : snaps[j][i].name # Taken(p).name
      <3>1. Taken(p).name \notin NamesIn(snaps[j])
        BY <1>3, <1>9
      <3> HIDE <1>9 DEF TypeOK, Take, Call, j
      <3> QED
        BY <3>1 DEF NamesIn
    <2>7. \A i, k \in DOMAIN snaps'[j] : snaps'[j][i].name = snaps'[j][k].name => i = k
      <3> SUFFICES ASSUME NEW i \in DOMAIN snaps'[j], NEW k \in DOMAIN snaps'[j],
                          snaps'[j][i].name = snaps'[j][k].name
                   PROVE  i = k
        OBVIOUS
      <3>1. \A l \in DOMAIN snaps'[j] : l \in DOMAIN snaps[j] \/ l = Len(snaps[j]) + 1
        BY <2>5
      <3>2. \A l, m \in DOMAIN snaps[j] : snaps[j][l].name = snaps[j][m].name => l = m
        BY <1>1
      <3> HIDE DEF j
      <3> QED
        BY <3>1, <3>2, <2>5, <2>6, ZenonT(60)
    <2>8. \A l \in Jails : \A i, k \in DOMAIN snaps'[l] :
            snaps'[l][i].name = snaps'[l][k].name => i = k
      BY <2>4, <2>7
    <2> QED
      BY <1>4, <1>5, <1>6, <1>7, <2>2, <2>3, <2>8 DEF Snapshot
  <1> QED
    BY <1>8, <1>9

LEMMA TypeLook ==
  ASSUME TypeOK, NEW p \in Sessions, Look(p)
  PROVE  TypeOK'
  <1> USE DEF TypeOK, Look, Call
  <1>1. faults' \in 0 .. MaxFaults
    BY JailsAssumption DEF Fault
  <1>2. /\ looked' \in [Sessions -> SUBSET Jails]
        /\ since' \in [Sessions -> SUBSET Jails]
    OBVIOUS
  <1>3. \A q \in Sessions : at'[q] # "idle" => jail'[q] \in Jails /\ given'[q] \in Jails \X Names
    OBVIOUS
  <1> QED
    BY <1>1, <1>2, <1>3

LEMMA TypeList ==
  ASSUME TypeOK, NEW p \in Sessions, List(p)
  PROVE  TypeOK'
  <1> USE DEF TypeOK, List, Call
  <1>1. faults' \in 0 .. MaxFaults
    BY JailsAssumption DEF Fault
  <1>2. jail[p] \in Jails /\ given[p] \in Jails \X Names
    OBVIOUS
  <1>3. {jail[p]} \X Doomed(snaps[jail[p]], given[p][2]) \subseteq Jails \X Names
        \/ ~Listed(jail[p], given[p])
    <2> SUFFICES ASSUME Listed(jail[p], given[p])
                 PROVE  Doomed(snaps[jail[p]], given[p][2]) \subseteq Names
      BY <1>2
    <2> DEFINE list == snaps[jail[p]]
    <2>1. list \in Seq(Snapshot)
      BY <1>2 DEF Snapshot
    <2>2. PositionIn(list, given[p][2]) \in DOMAIN list
      BY PositionIsThere DEF Listed
    <2>3. \A i \in DOMAIN list : list[i].name \in Names
      BY <2>1, ElementsHaveNames
    <2>4. DOMAIN list = 1 .. Len(list) /\ Len(list) \in Nat
      BY <2>1
    <2> HIDE DEF list
    <2>5. \A i \in (PositionIn(list, given[p][2]) + 1) .. Len(list) : i \in DOMAIN list
      BY <2>2, <2>4
    <2> QED
      BY <2>3, <2>5 DEF Doomed, list
  <1>4. told' \in [Sessions -> SUBSET (Jails \X Names)]
    <2> DEFINE said == {jail[p]} \X Doomed(snaps[jail[p]], given[p][2])
    <2>1. \/ told' = told
          \/ told' = [told EXCEPT ![p] = {}]
          \/ told' = [told EXCEPT ![p] = said] /\ Listed(jail[p], given[p])
      BY Zenon
    <2>2. said \subseteq Jails \X Names \/ ~Listed(jail[p], given[p])
      BY <1>3
    <2>3. told \in [Sessions -> SUBSET (Jails \X Names)]
      OBVIOUS
    <2> HIDE DEF said, TypeOK, List, Call
    <2> QED
      BY <2>1, <2>2, <2>3
  <1>5. /\ \A q \in Sessions : told'[q] # {} => given'[q][1] = jail'[q]
        /\ \A q \in Sessions : at'[q] \in {"look", "list"} => told'[q] = {} /\ ~missed'[q]
        /\ \A q \in Sessions : missed'[q] => told'[q] = {}
    <2>1. /\ given' = given /\ jail' = jail /\ at' = [at EXCEPT ![p] = "roll"]
          /\ \/ missed' = missed
             \/ missed' = [missed EXCEPT ![p] = TRUE] /\ told' = told
          /\ \A q \in Sessions \ {p} : told'[q] = told[q]
          /\ told[p] = {} /\ ~missed[p]
      OBVIOUS
    <2>2. told'[p] # {} => given[p][1] = jail[p]
      BY <2>1 DEF Listed
    <2>3. /\ \A q \in Sessions : told[q] # {} => given[q][1] = jail[q]
          /\ \A q \in Sessions : at[q] \in {"look", "list"} => told[q] = {} /\ ~missed[q]
          /\ \A q \in Sessions : missed[q] => told[q] = {}
          /\ at \in [Sessions -> {"idle", "name", "take", "look", "list", "roll"}]
          /\ missed \in [Sessions -> BOOLEAN]
      OBVIOUS
    <2> HIDE DEF TypeOK, List, Call
    <2>4. \A q \in Sessions \ {p} : at'[q] = at[q] /\ missed'[q] = missed[q]
      BY <2>1, <2>3
    <2>5. at'[p] = "roll" /\ (missed'[p] => told'[p] = {})
      BY <2>1, <2>3
    <2> QED
      BY <2>1, <2>2, <2>3, <2>4, <2>5
  <1>6. /\ missed' \in [Sessions -> BOOLEAN]
        /\ newer' \in [Sessions -> SUBSET (Jails \X Names)]
    OBVIOUS
  <1>7. \A q \in Sessions : at'[q] # "idle" => jail'[q] \in Jails /\ given'[q] \in Jails \X Names
    OBVIOUS
  <1> QED
    BY <1>1, <1>4, <1>5, <1>6, <1>7

LEMMA TypeRoll ==
  ASSUME TypeOK, NEW p \in Sessions, Roll(p)
  PROVE  TypeOK'
  <1> USE DEF TypeOK, Roll, Call
  <1> DEFINE j == given[p][1]
             n == given[p][2]
             i == PositionIn(snaps[j], n)
  <1>1. j \in Jails /\ n \in Names
    OBVIOUS
  <1>2. faults' \in 0 .. MaxFaults
    BY JailsAssumption DEF Fault
  <1>3. \A q \in Sessions : at'[q] # "idle" => jail'[q] \in Jails /\ given'[q] \in Jails \X Names
    OBVIOUS
  <1>4. CASE UNCHANGED <<data, snaps, destroyed>>
    BY <1>2, <1>3, <1>4
  <1>5. CASE /\ n \in NamesIn(snaps[j])
             /\ data' = [data EXCEPT ![j] = snaps[j][i].data]
             /\ snaps' = [snaps EXCEPT ![j] = SubSeq(@, 1, i)]
             /\ destroyed' = destroyed \cup ({j} \X NewerThan(snaps[j], n))
    <2>1. snaps \in [Jails -> Seq(Snapshot)] /\ snaps[j] \in Seq(Snapshot)
      BY <1>1 DEF Snapshot
    <2>2. i \in DOMAIN snaps[j]
      BY <1>5, PositionIsThere
    <2>3. DOMAIN snaps[j] = 1 .. Len(snaps[j]) /\ Len(snaps[j]) \in Nat
      BY <2>1
    <2>4. snaps[j][i] \in Snapshot /\ i \in 1 .. Len(snaps[j])
      BY <2>1, <2>2, <2>3
    <2>5. data' \in [Jails -> 0 .. version]
      BY <1>1, <1>5, <2>4 DEF Snapshot
    <2>6. /\ SubSeq(snaps[j], 1, i) \in Seq(Snapshot)
          /\ Len(SubSeq(snaps[j], 1, i)) = i
          /\ \A k \in 1 .. i : SubSeq(snaps[j], 1, i)[k] = snaps[j][k]
      <3> HIDE DEF i, j, n
      <3> QED
        BY <2>1, <2>3, <2>4
    <2>7. snaps' \in [Jails -> Seq(Snapshot)]
      BY <1>1, <1>5, <2>1, <2>6
    <2>8. NewerThan(snaps[j], n) \subseteq Names
      <3>1. \A k \in DOMAIN snaps[j] : snaps[j][k].name \in Names
        BY <2>1, ElementsHaveNames
      <3>2. \A k \in (i + 1) .. Len(snaps[j]) : k \in DOMAIN snaps[j]
        BY <2>3, <2>4
      <3> QED
        <4>1. NewerThan(snaps[j], n) = {snaps[j][k].name : k \in (i + 1) .. Len(snaps[j])}
          BY DEF NewerThan
        <4> HIDE DEF TypeOK, Roll, Call, i, j, n
        <4> QED
          BY <3>1, <3>2, <4>1
    <2>9. destroyed' \subseteq Jails \X Names
      BY <1>1, <1>5, <2>8
    <2>10. /\ snaps'[j] = SubSeq(snaps[j], 1, i)
           /\ \A k \in Jails \ {j} : snaps'[k] = snaps[k]
      BY <1>1, <1>5
    <2>11. \A k \in Jails : snaps'[k] # <<>> => k \in created
      <3>1. snaps[j] # <<>>
        BY <2>2, <2>3
      <3> QED
        BY <1>1, <2>10, <3>1
    <2>12. \A k \in Jails : \A l, m \in DOMAIN snaps'[k] :
             snaps'[k][l].name = snaps'[k][m].name => l = m
      <3>1. \A l, m \in DOMAIN snaps[j] : snaps[j][l].name = snaps[j][m].name => l = m
        BY <1>1
      <3>2. /\ DOMAIN snaps'[j] = 1 .. i
            /\ \A l \in 1 .. i : l \in DOMAIN snaps[j] /\ snaps'[j][l] = snaps[j][l]
        <4>1. DOMAIN SubSeq(snaps[j], 1, i) = 1 .. Len(SubSeq(snaps[j], 1, i))
          BY <2>6
        <4>2. DOMAIN snaps'[j] = 1 .. i
          BY <4>1, <2>6, <2>10
        <4>3. \A l \in 1 .. i : l \in DOMAIN snaps[j]
          BY <2>3, <2>4
        <4> HIDE DEF TypeOK, Roll, Call, i, j, n
        <4> QED
          BY <4>2, <4>3, <2>6, <2>10
      <3>3. \A l, m \in DOMAIN snaps'[j] : snaps'[j][l].name = snaps'[j][m].name => l = m
        <4> HIDE DEF i, j
        <4> QED
          BY <3>1, <3>2, SMTT(30)
      <3> QED
        BY <2>10, <3>3
    <2> QED
      BY <1>2, <1>3, <2>5, <2>7, <2>9, <2>11, <2>12 DEF Snapshot
  <1> QED
    BY <1>4, <1>5

LEMMA TypeMachine ==
  ASSUME TypeOK, \/ \E j \in Jails : StartJail(j) \/ StopJail(j) \/ Write(j)
                 \/ Tick
  PROVE  TypeOK'
  <1> USE DEF TypeOK, disk, session
  <1>1. ASSUME NEW j \in Jails, StartJail(j) PROVE TypeOK'
    BY <1>1 DEF StartJail
  <1>2. ASSUME NEW j \in Jails, StopJail(j) PROVE TypeOK'
    BY <1>2 DEF StopJail
  <1>3. ASSUME NEW j \in Jails, Write(j) PROVE TypeOK'
    <2> USE <1>3 DEF Write
    <2>1. version' \in 0 .. MaxVersion /\ version' = version + 1 /\ version \in Nat
      BY JailsAssumption
    <2>2. \A v \in 0 .. version : v \in 0 .. version'
      BY <2>1
    <2>3. data' \in [Jails -> 0 .. version']
      BY <2>1, <2>2
    <2>4. [name : Names, data : 0 .. version] \subseteq [name : Names, data : 0 .. version']
      BY <2>2
    <2>5. snaps' \in [Jails -> Seq([name : Names, data : 0 .. version'])]
      <3>1. Seq([name : Names, data : 0 .. version])
              \subseteq Seq([name : Names, data : 0 .. version'])
        <4> DEFINE S == [name : Names, data : 0 .. version]
                   T == [name : Names, data : 0 .. version']
        <4>1. S \subseteq T
          BY <2>4
        <4> HIDE DEF S, T
        <4>2. Seq(S) \subseteq Seq(T)
          BY <4>1, WiderSeq
        <4> QED
          BY <4>2 DEF S, T
      <3> QED
        BY <3>1
    <2>6. receipts' \subseteq Jails \X Names \X (0 .. version')
      BY <2>2
    <2> QED
      BY <2>1, <2>3, <2>5, <2>6
  <1>4. CASE Tick
    <2>1. second' \in 0 .. MaxSecond
      BY <1>4, JailsAssumption DEF Tick
    <2> QED
      BY <1>4, <2>1 DEF Tick
  <1> QED
    BY <1>1, <1>2, <1>3, <1>4

\* A command begins, for one of p's calls.
Begins(p) ==
  \E call \in {"name", "look"}, j \in Jails, s \in Jails \X Names : Begin(p, call, j, s)

\* The steps, with a begun command's inputs in their types.
LEMMA Steps ==
  ASSUME TypeOK, Next
  PROVE  \/ \E p \in Sessions : Begins(p) \/ Name(p) \/ Take(p) \/ Look(p) \/ List(p) \/ Roll(p)
         \/ \E j \in Jails : StartJail(j) \/ StopJail(j) \/ Write(j)
         \/ Tick
  <1>1. ASSUME NEW p \in Sessions, NEW j \in Jails, NEW r \in Reasons, JailSnapshot(p, j, r)
        PROVE  Begins(p)
    <2>1. <<j, <<r, second>>>> \in Jails \X Names
      BY DEF TypeOK, Names
    <2> QED
      BY <1>1, <2>1 DEF JailSnapshot, Begins
  <1>2. ASSUME NEW p \in Sessions, NEW j \in Jails, NEW d \in Jails,
               NEW n \in UNION {NamesIn(snaps[k]) : k \in Jails}, JailRollback(p, j, <<d, n>>)
        PROVE  Begins(p)
    <2>1. PICK k \in Jails : n \in NamesIn(snaps[k])
      OBVIOUS
    <2>2. snaps[k] \in Seq(Snapshot)
      BY DEF TypeOK, Snapshot
    <2>3. n \in Names
      BY <2>1, <2>2, ElementsHaveNames DEF NamesIn
    <2> QED
      BY <1>2, <2>3 DEF JailRollback, Begins
  <1> QED
    BY <1>1, <1>2 DEF Next

LEMMA TypeNext == TypeOK /\ [Next]_vars => TypeOK'
  <1> SUFFICES ASSUME TypeOK, [Next]_vars PROVE TypeOK'
    OBVIOUS
  <1>1. ASSUME NEW p \in Sessions, Begins(p) PROVE TypeOK'
    BY <1>1, TypeBegin DEF Begins
  <1>2. ASSUME NEW p \in Sessions, Name(p) \/ Take(p) \/ Look(p) \/ List(p) \/ Roll(p)
        PROVE  TypeOK'
    BY <1>2, TypeName, TypeTake, TypeLook, TypeList, TypeRoll
  <1>3. CASE UNCHANGED vars
    BY <1>3 DEF TypeOK, vars, disk, session
  <1> QED
    BY <1>1, <1>2, <1>3, Steps, TypeMachine

\* Every variable keeps its type, a dataset uses a name once, and a command
\* announces losses in its own jail only.
THEOREM TypeCorrect == Spec => []TypeOK
  BY TypeInit, TypeNext, PTL DEF Spec

----------------------------------------------------------------------------
(* Receipts *)

LEMMA ReceiptsNext ==
  ASSUME TypeOK, ReceiptsAreTrue, [Next]_vars
  PROVE  ReceiptsAreTrue'
  <1>1. ASSUME NEW p \in Sessions, Take(p) PROVE ReceiptsAreTrue'
    <2> USE <1>1 DEF Take, Call
    <2>1. jail[p] \in Jails /\ given[p] \in Jails \X Names
      BY DEF TypeOK
    <2>2. CASE UNCHANGED <<snaps, receipts>>
      BY <2>2 DEF ReceiptsAreTrue
    <2> DEFINE j == jail[p]
    <2>3. CASE /\ snaps' = [snaps EXCEPT ![j] = Append(@, Taken(p))]
               /\ receipts' = receipts \cup {<<j, given[p][2], data[j]>>}
      <3>1. snaps \in [Jails -> Seq(Snapshot)]
        BY DEF TypeOK, Snapshot
      <3>2. Taken(p) = [name |-> given[p][2], data |-> data[j]] /\ Taken(p) \in Snapshot
        BY <2>1 DEF Taken, Snapshot, TypeOK
      <3>3. /\ snaps'[j] = Append(snaps[j], Taken(p))
            /\ \A k \in Jails \ {j} : snaps'[k] = snaps[k]
        BY <2>1, <2>3, <3>1
      <3>4. /\ DOMAIN snaps[j] = 1 .. Len(snaps[j]) /\ Len(snaps[j]) \in Nat
            /\ DOMAIN snaps'[j] = 1 .. Len(snaps[j]) + 1
            /\ \A i \in DOMAIN snaps[j] : snaps'[j][i] = snaps[j][i]
            /\ snaps'[j][Len(snaps[j]) + 1] = Taken(p)
        BY <2>1, <3>1, <3>2, <3>3
      <3>5. \A k \in Jails :
              {snaps[k][i] : i \in DOMAIN snaps[k]} \subseteq {snaps'[k][i] : i \in DOMAIN snaps'[k]}
        <4>1. \A i \in DOMAIN snaps[j] : i \in DOMAIN snaps'[j]
          BY <3>4
        <4> QED
          BY <4>1, <3>3, <3>4, ZenonT(60)
      <3>6. Taken(p) \in {snaps'[j][i] : i \in DOMAIN snaps'[j]}
        <4>1. Len(snaps[j]) + 1 \in DOMAIN snaps'[j]
          BY <3>4
        <4> QED
          BY <3>4, <4>1
      <3> SUFFICES ASSUME NEW r \in receipts'
                   PROVE  \/ [name |-> r[2], data |-> r[3]]
                               \in {snaps'[r[1]][i] : i \in DOMAIN snaps'[r[1]]}
                          \/ <<r[1], r[2]>> \in destroyed'
        BY DEF ReceiptsAreTrue
      <3>7. CASE r \in receipts
        <4>1. r[1] \in Jails
          BY <3>7 DEF TypeOK
        <4> QED
          BY <3>5, <3>7, <4>1 DEF ReceiptsAreTrue
      <3>8. CASE r = <<j, given[p][2], data[j]>>
        BY <3>2, <3>6, <3>8
      <3> QED
        BY <2>3, <3>7, <3>8
    <2> QED
      BY <2>2, <2>3
  <1>2. ASSUME NEW p \in Sessions, Roll(p) PROVE ReceiptsAreTrue'
    <2> USE <1>2 DEF Roll, Call
    <2> DEFINE j == given[p][1]
               n == given[p][2]
               i == PositionIn(snaps[j], n)
    <2>1. j \in Jails
      BY DEF TypeOK
    <2>2. CASE UNCHANGED <<snaps, destroyed>>
      BY <2>2 DEF ReceiptsAreTrue
    <2>3. CASE /\ n \in NamesIn(snaps[j])
               /\ snaps' = [snaps EXCEPT ![j] = SubSeq(@, 1, i)]
               /\ destroyed' = destroyed \cup ({j} \X NewerThan(snaps[j], n))
      <3>1. snaps[j] \in Seq(Snapshot) /\ snaps \in [Jails -> Seq(Snapshot)]
        BY <2>1 DEF TypeOK, Snapshot
      <3>2. i \in DOMAIN snaps[j] /\ DOMAIN snaps[j] = 1 .. Len(snaps[j]) /\ Len(snaps[j]) \in Nat
        BY <2>3, <3>1, PositionIsThere, ElementsHaveNames
      <3>3. /\ snaps'[j] = SubSeq(snaps[j], 1, i)
            /\ \A k \in Jails \ {j} : snaps'[k] = snaps[k]
        BY <2>1, <2>3, <3>1
      <3>4. /\ DOMAIN SubSeq(snaps[j], 1, i) = 1 .. i
            /\ \A k \in 1 .. i : SubSeq(snaps[j], 1, i)[k] = snaps[j][k]
        <4> HIDE DEF i, j
        <4> QED
          BY <3>1, <3>2
      <3> SUFFICES ASSUME NEW r \in receipts
                   PROVE  \/ [name |-> r[2], data |-> r[3]]
                               \in {snaps'[r[1]][k] : k \in DOMAIN snaps'[r[1]]}
                          \/ <<r[1], r[2]>> \in destroyed'
        BY DEF ReceiptsAreTrue
      <3>5. r[1] \in Jails
        BY DEF TypeOK
      <3>6. CASE <<r[1], r[2]>> \in destroyed \/ r[1] # j
        <4> DEFINE w == [name |-> r[2], data |-> r[3]]
        <4>1. w \in {snaps[r[1]][k] : k \in DOMAIN snaps[r[1]]} \/ <<r[1], r[2]>> \in destroyed
          BY DEF ReceiptsAreTrue
        <4>2. CASE <<r[1], r[2]>> \in destroyed'
          BY <4>2
        <4>3. CASE r[1] # j
          <5>1. snaps'[r[1]] = snaps[r[1]] /\ destroyed \subseteq destroyed'
            BY <2>3, <3>3, <3>5, <4>3
          <5> HIDE <1>2 DEF Roll, Call, i, j, n
          <5> QED
            BY <4>1, <5>1
        <4>4. destroyed \subseteq destroyed'
          BY <2>3
        <4> QED
          BY <3>6, <4>2, <4>3, <4>4
      <3>7. CASE r[1] = j /\ <<r[1], r[2]>> \notin destroyed
        <4>1. PICK k \in DOMAIN snaps[j] : snaps[j][k] = [name |-> r[2], data |-> r[3]]
          BY <3>7 DEF ReceiptsAreTrue
        <4>2. CASE k \in 1 .. i
          BY <3>3, <3>4, <3>7, <4>1, <4>2, ZenonT(60)
        <4>3. CASE k \in (i + 1) .. Len(snaps[j])
          <5>1. snaps[j][k].name = r[2]
            BY <4>1
          <5>2. r[2] \in NewerThan(snaps[j], n)
            BY <4>3, <5>1 DEF NewerThan
          <5> QED
            BY <2>3, <3>7, <5>2
        <4>4. k \in 1 .. Len(snaps[j]) /\ i \in 1 .. Len(snaps[j])
          BY <3>2, <4>1
        <4>5. k \in 1 .. i \/ k \in (i + 1) .. Len(snaps[j])
          <5> HIDE <1>2 DEF Roll, Call, i, j, n
          <5> QED
            BY <3>2, <4>4
        <4> QED
          BY <4>2, <4>3, <4>5
      <3> QED
        BY <3>6, <3>7
    <2> QED
      BY <2>2, <2>3
  <1>3. CASE UNCHANGED <<snaps, receipts, destroyed>>
    BY <1>3 DEF ReceiptsAreTrue
  <1>4. CASE UNCHANGED vars
    BY <1>3, <1>4 DEF vars, disk
  <1>5. ASSUME NEW p \in Sessions, Begins(p) \/ Name(p) \/ Look(p) \/ List(p)
        PROVE  ReceiptsAreTrue'
    BY <1>3, <1>5 DEF Begins, Begin, Name, Look, List, disk
  <1>6. ASSUME \/ \E j \in Jails : StartJail(j) \/ StopJail(j) \/ Write(j)
               \/ Tick
        PROVE  ReceiptsAreTrue'
    BY <1>3, <1>6 DEF StartJail, StopJail, Write, Tick, disk
  <1> QED
    BY <1>1, <1>2, <1>4, <1>5, <1>6, Steps

\* A snapshot reported as taken is there, with the data of its moment, until a
\* rollback destroys it.
THEOREM ReceiptsStayTrue == Spec => []ReceiptsAreTrue
  <1>1. Init => ReceiptsAreTrue
    BY DEF Init, ReceiptsAreTrue
  <1>2. TypeOK /\ ReceiptsAreTrue /\ [Next]_vars => ReceiptsAreTrue'
    BY ReceiptsNext
  <1> QED
    BY <1>1, <1>2, TypeCorrect, PTL DEF Spec

----------------------------------------------------------------------------
(* Rollbacks and their announcements *)

\* A command past its look knows of every jail that runs, but for those
\* started since.
LookInv ==
  \A p \in Sessions : at[p] \in {"list", "roll"} => running \subseteq looked[p] \cup since[p]

\* A command past its listing has announced what a rollback would destroy, but
\* for the snapshots taken since.
ListInv ==
  \A p \in Sessions :
    at[p] = "roll" /\ ~missed[p] /\ given[p][1] = jail[p] =>
      \A k, i \in DOMAIN snaps[jail[p]] :
        k < i /\ snaps[jail[p]][k].name = given[p][2] =>
          <<jail[p], snaps[jail[p]][i].name>> \in told[p] \cup newer[p]

LEMMA LookNext ==
  ASSUME TypeOK, LookInv, [Next]_vars
  PROVE  LookInv'
  <1>1. CASE UNCHANGED vars
    BY <1>1 DEF LookInv, vars, session
  <1>2. ASSUME NEW p \in Sessions, Begins(p) PROVE LookInv'
    BY <1>2 DEF LookInv, TypeOK, Begins, Begin
  <1>3. ASSUME NEW p \in Sessions, Name(p) \/ Take(p) \/ List(p) \/ Roll(p) PROVE LookInv'
    BY <1>3, ZenonT(60) DEF LookInv, TypeOK, Name, Take, List, Roll, Call
  <1>4. ASSUME NEW p \in Sessions, Look(p) PROVE LookInv'
    <2>1. at' = [at EXCEPT ![p] = "list"] \/ at' = [at EXCEPT ![p] = "idle"]
      BY <1>4 DEF Look, Call
    <2>2. \/ /\ at' = [at EXCEPT ![p] = "list"] /\ looked' = [looked EXCEPT ![p] = running]
             /\ since' = [since EXCEPT ![p] = {}]
          \/ at' = [at EXCEPT ![p] = "idle"] /\ UNCHANGED <<looked, since>>
      BY <1>4 DEF Look, Call
    <2>3. running' = running
      BY <1>4 DEF Look, Call
    <2>4. /\ at \in [Sessions -> {"idle", "name", "take", "look", "list", "roll"}]
          /\ looked \in [Sessions -> SUBSET Jails] /\ since \in [Sessions -> SUBSET Jails]
      BY DEF TypeOK
    <2> QED
      BY <2>1, <2>2, <2>3, <2>4 DEF LookInv
  <1>5. ASSUME NEW j \in Jails, StartJail(j) \/ StopJail(j) \/ Write(j) PROVE LookInv'
    BY <1>5 DEF LookInv, TypeOK, StartJail, StopJail, Write, session
  <1>6. CASE Tick
    BY <1>6 DEF LookInv, Tick, session
  <1> QED
    BY <1>1, <1>2, <1>3, <1>4, <1>5, <1>6, Steps

\* A rollback goes through: what Roll does when nothing stops it.
Rolls(p) ==
  LET j == jail[p]
      n == given[p][2]
  IN  /\ j \in Jails
      /\ j \notin looked[p]
      /\ n \in NamesIn(snaps[j])
      /\ data' = [data EXCEPT ![j] = snaps[j][PositionIn(snaps[j], n)].data]
      /\ snaps' = [snaps EXCEPT ![j] = SubSeq(@, 1, PositionIn(snaps[j], n))]
      /\ destroyed' = destroyed \cup ({j} \X NewerThan(snaps[j], n))

LEMMA RollsOrNot ==
  ASSUME TypeOK, NEW p \in Sessions, Roll(p)
  PROVE  /\ at[p] = "roll" /\ at'[p] = "idle"
         /\ \/ Rolls(p) /\ given[p][1] = jail[p]
            \/ UNCHANGED <<data, snaps, destroyed>>
  <1>1. at[p] = "roll" /\ at'[p] = "idle"
    BY DEF Roll, Call, TypeOK
  <1>2. jail[p] \in Jails
    BY <1>1 DEF TypeOK
  <1>3. CASE UNCHANGED <<data, snaps, destroyed>>
    BY <1>1, <1>3
  <1>4. CASE ~Refused(p)
    <2>1. given[p][1] = jail[p] /\ jail[p] \notin looked[p]
      BY <1>4 DEF Refused
    <2> QED
      BY <1>1, <1>2, <2>1 DEF Roll, Rolls
  <1>5. CASE Refused(p)
    BY <1>1, <1>5 DEF Roll
  <1> QED
    BY <1>4, <1>5

LEMMA RollsBack ==
  ASSUME TypeOK, LookInv, [Next]_vars, NEW j \in Jails, GoesBack(j)
  PROVE  \E p \in Sessions :
           /\ at[p] = "roll" /\ at'[p] = "idle"
           /\ jail[p] = j
           /\ j \in running => j \in since[p]
  <1>1. data[j] \in 0 .. version /\ version \in Nat /\ snaps[j] \in Seq(Snapshot)
    <2>1. data[j] \in 0 .. version /\ version \in Nat
      BY JailsAssumption DEF TypeOK
    <2>2. snaps[j] \in Seq(Snapshot)
      BY DEF TypeOK, Snapshot
    <2> QED
      BY <2>1, <2>2
  <1>2. data[j] \in Nat /\ Len(snaps[j]) \in Nat
    BY <1>1
  <1>3. ~(data'[j] = data[j] /\ snaps'[j] = snaps[j])
    BY <1>2 DEF GoesBack
  <1>4. ASSUME NEW p \in Sessions, Take(p) PROVE FALSE
    <2>1. data' = data /\ jail[p] \in Jails
      BY <1>4 DEF Take, Call, TypeOK
    <2>2. snaps'[j] = snaps[j] \/ snaps'[j] = Append(snaps[j], Taken(p))
      BY <1>4, <2>1 DEF Take, TypeOK
    <2>3. Len(Append(snaps[j], Taken(p))) = Len(snaps[j]) + 1
      BY <1>1 DEF Taken
    <2> QED
      BY <1>2, <1>3, <2>1, <2>2, <2>3 DEF GoesBack
  <1>5. ASSUME NEW i \in Jails, Write(i) PROVE FALSE
    <2>1. snaps' = snaps /\ (data'[j] = data[j] \/ data'[j] = version + 1)
      BY <1>5 DEF Write, TypeOK
    <2> QED
      BY <1>1, <1>2, <1>3, <2>1 DEF GoesBack
  <1>6. ~UNCHANGED <<data, snaps>>
    BY <1>3
  <1>7. PICK p \in Sessions : Roll(p)
    <2>1. ~UNCHANGED vars
      BY <1>6 DEF vars, disk
    <2>2. \A p \in Sessions : ~Begins(p) /\ ~Name(p) /\ ~Look(p) /\ ~List(p)
      BY <1>6 DEF Begins, Begin, Name, Look, List, disk
    <2>3. ~Tick /\ \A i \in Jails : ~StartJail(i) /\ ~StopJail(i)
      BY <1>6 DEF Tick, StartJail, StopJail, disk
    <2> QED
      BY <1>4, <1>5, <2>1, <2>2, <2>3, Steps
  <1>8. at[p] = "roll" /\ at'[p] = "idle" /\ Rolls(p)
    BY <1>6, <1>7, RollsOrNot
  <1>9. jail[p] = j
    BY <1>3, <1>8 DEF Rolls, TypeOK
  <1>10. j \in running => j \in since[p]
    BY <1>8, <1>9 DEF LookInv, Rolls
  <1> QED
    BY <1>8, <1>9, <1>10

\* A dataset goes back only by a rollback of its own jail, and never under a
\* jail that ran already when the command looked.
THEOREM OnlyStoppedRollBack == Spec => RollsBackOnlyStopped
  <1>1. Init => LookInv
    BY DEF Init, LookInv
  <1>2. TypeOK /\ LookInv /\ [Next]_vars => LookInv'
    BY LookNext
  <1>3. TypeOK /\ LookInv /\ [Next]_vars =>
          [\A j \in Jails : GoesBack(j) =>
             \E p \in Sessions :
               /\ at[p] = "roll" /\ at'[p] = "idle"
               /\ jail[p] = j
               /\ j \in running => j \in since[p]]_vars
    BY RollsBack
  <1> QED
    BY <1>1, <1>2, <1>3, TypeCorrect, PTL DEF Spec, RollsBackOnlyStopped

LEMMA ListTake ==
  ASSUME TypeOK, ListInv, NEW p \in Sessions, Take(p)
  PROVE  ListInv'
  <1> SUFFICES ASSUME NEW q \in Sessions, at'[q] = "roll", ~missed'[q],
                      given'[q][1] = jail'[q],
                      NEW k \in DOMAIN snaps'[jail'[q]], NEW i \in DOMAIN snaps'[jail'[q]],
                      k < i, snaps'[jail'[q]][k].name = given'[q][2]
               PROVE  <<jail'[q], snaps'[jail'[q]][i].name>> \in told'[q] \cup newer'[q]
    BY DEF ListInv
  <1>1. /\ at[q] = "roll" /\ ~missed[q] /\ given[q][1] = jail[q]
        /\ jail' = jail /\ given' = given /\ told' = told
        /\ jail[q] \in Jails /\ jail[p] \in Jails
    BY DEF Take, Call, TypeOK
  <1> DEFINE j == jail[q]
             list == snaps[j]
  <1>2. \A m, l \in DOMAIN list :
          m < l /\ list[m].name = given[q][2] => <<j, list[l].name>> \in told[q] \cup newer[q]
    BY <1>1 DEF ListInv
  <1>3. CASE snaps'[j] = list
    <2>1. newer[q] \subseteq newer'[q]
      BY DEF Take, TypeOK
    <2> QED
      BY <1>1, <1>2, <1>3, <2>1
  <1>4. CASE jail[p] = j /\ snaps' = [snaps EXCEPT ![j] = Append(@, Taken(p))]
    <2>1. list \in Seq(Snapshot)
      BY <1>1 DEF TypeOK, Snapshot
    <2>2. snaps'[j] = Append(list, Taken(p))
      BY <1>1, <1>4 DEF TypeOK
    <2>3. /\ DOMAIN list = 1 .. Len(list) /\ Len(list) \in Nat
          /\ DOMAIN snaps'[j] = 1 .. Len(list) + 1
          /\ \A l \in DOMAIN list : snaps'[j][l] = list[l]
          /\ snaps'[j][Len(list) + 1] = Taken(p)
      BY <2>1, <2>2 DEF Taken
    <2>4. Taken(p).name = given[p][2]
      BY DEF Taken
    <2>5. CASE newer'[q] = newer[q] \cup {<<jail[p], given[p][2]>>}
      <3>1. CASE i = Len(list) + 1
        BY <1>1, <1>4, <2>3, <2>4, <2>5, <3>1
      <3>2. CASE i \in DOMAIN list
        <4>1. k \in DOMAIN list
          BY <1>1, <2>3, <3>2
        <4> QED
          BY <1>1, <1>2, <2>3, <2>5, <3>2, <4>1
      <3> QED
        BY <1>1, <2>3, <3>1, <3>2
    <2>6. CASE snaps'[j] = list
      BY <1>3, <2>6
    <2> QED
      BY <2>5, <2>6 DEF Take, TypeOK
  <1> QED
    BY <1>1, <1>3, <1>4, ZenonT(60) DEF Take, TypeOK

LEMMA ListList ==
  ASSUME TypeOK, ListInv, NEW p \in Sessions, List(p)
  PROVE  ListInv'
  <1> SUFFICES ASSUME NEW q \in Sessions, at'[q] = "roll", ~missed'[q],
                      given'[q][1] = jail'[q],
                      NEW k \in DOMAIN snaps'[jail'[q]], NEW i \in DOMAIN snaps'[jail'[q]],
                      k < i, snaps'[jail'[q]][k].name = given'[q][2]
               PROVE  <<jail'[q], snaps'[jail'[q]][i].name>> \in told'[q] \cup newer'[q]
    BY DEF ListInv
  <1>1. snaps' = snaps /\ jail' = jail /\ given' = given
    BY DEF List, Call
  <1>2. CASE q # p
    <2>1. /\ at[q] = "roll" /\ ~missed[q]
          /\ told'[q] = told[q] /\ newer'[q] = newer[q]
      BY <1>2 DEF List, Call, TypeOK
    <2> QED
      BY <1>1, <2>1 DEF ListInv
  <1>3. CASE q = p
    <2> DEFINE j == jail[p]
               list == snaps[j]
               n == given[p][2]
    <2>1. j \in Jails /\ list \in Seq(Snapshot)
      BY DEF List, Call, TypeOK, Snapshot
    <2>2. DOMAIN list = 1 .. Len(list) /\ Len(list) \in Nat
      BY <2>1, ElementsHaveNames
    <2>3. k \in DOMAIN list /\ i \in DOMAIN list /\ list[k].name = n
      BY <1>1, <1>3
    <2>4. Listed(j, given[p]) /\ j \in created
      <3>1. snaps[j] # <<>>
        BY <2>2, <2>3
      <3> QED
        BY <1>1, <1>3, <2>1, <2>3, <3>1 DEF Listed, NamesIn, TypeOK
    <2>5. told'[p] = {j} \X Doomed(list, n)
      BY <1>3, <2>4 DEF List, TypeOK
    <2>6. PositionIn(list, n) = k
      <3>1. \A l, m \in DOMAIN list : list[l].name = list[m].name => l = m
        BY <2>1 DEF TypeOK
      <3> HIDE DEF list, n
      <3> QED
        BY <2>3, <3>1, PositionOfName
    <2>7. i \in (k + 1) .. Len(list)
      BY <2>2, <2>3
    <2>8. list[i].name \in Doomed(list, n)
      BY <2>6, <2>7 DEF Doomed
    <2> QED
      BY <1>1, <1>3, <2>5, <2>8
  <1> QED
    BY <1>2, <1>3

LEMMA ListRoll ==
  ASSUME TypeOK, ListInv, NEW p \in Sessions, Roll(p)
  PROVE  ListInv'
  <1> SUFFICES ASSUME NEW q \in Sessions, at'[q] = "roll", ~missed'[q],
                      given'[q][1] = jail'[q],
                      NEW k \in DOMAIN snaps'[jail'[q]], NEW i \in DOMAIN snaps'[jail'[q]],
                      k < i, snaps'[jail'[q]][k].name = given'[q][2]
               PROVE  <<jail'[q], snaps'[jail'[q]][i].name>> \in told'[q] \cup newer'[q]
    BY DEF ListInv
  <1>1. /\ at[q] = "roll" /\ ~missed[q] /\ given[q][1] = jail[q]
        /\ jail' = jail /\ given' = given /\ told' = told /\ newer' = newer
        /\ jail[q] \in Jails
    BY DEF Roll, Call, TypeOK
  <1> DEFINE j == jail[q]
  <1>2. \A m, l \in DOMAIN snaps[j] :
          m < l /\ snaps[j][m].name = given[q][2]
            => <<j, snaps[j][l].name>> \in told[q] \cup newer[q]
    BY <1>1 DEF ListInv
  <1>3. /\ DOMAIN snaps'[j] \subseteq DOMAIN snaps[j]
        /\ \A l \in DOMAIN snaps'[j] : snaps'[j][l] = snaps[j][l]
    <2>1. CASE snaps'[j] = snaps[j]
      BY <2>1
    <2>2. CASE Rolls(p) /\ jail[p] = j
      <3> DEFINE i0 == PositionIn(snaps[j], given[p][2])
      <3>1. snaps[j] \in Seq(Snapshot)
        BY <1>1 DEF TypeOK, Snapshot
      <3>2. i0 \in 1 .. Len(snaps[j]) /\ DOMAIN snaps[j] = 1 .. Len(snaps[j])
              /\ Len(snaps[j]) \in Nat
        BY <2>2, <3>1, PositionIsThere, ElementsHaveNames DEF Rolls
      <3>3. snaps'[j] = SubSeq(snaps[j], 1, i0)
        BY <1>1, <2>2 DEF Rolls, TypeOK
      <3>4. /\ DOMAIN SubSeq(snaps[j], 1, i0) = 1 .. i0
            /\ \A l \in 1 .. i0 : SubSeq(snaps[j], 1, i0)[l] = snaps[j][l]
        <4> HIDE DEF i0, j
        <4> QED
          BY <3>1, <3>2
      <3>5. 1 .. i0 \subseteq DOMAIN snaps[j]
        BY <3>2
      <3> QED
        BY <3>3, <3>4, <3>5
    <2> QED
      <3>1. CASE UNCHANGED snaps
        BY <2>1, <3>1
      <3>2. CASE Rolls(p) /\ jail[p] # j
        <4>1. snaps'[j] = snaps[j]
          BY <1>1, <3>2 DEF Rolls, TypeOK
        <4> QED
          BY <2>1, <4>1
      <3> QED
        BY <2>2, <3>1, <3>2, RollsOrNot
  <1> QED
    BY <1>1, <1>2, <1>3

LEMMA ListNext ==
  ASSUME TypeOK, ListInv, [Next]_vars
  PROVE  ListInv'
  <1>1. CASE UNCHANGED <<snaps, at, missed, given, jail, told, newer>>
    BY <1>1 DEF ListInv
  <1>2. CASE UNCHANGED vars
    BY <1>1, <1>2 DEF vars, session, disk
  <1>3. ASSUME NEW p \in Sessions, Begins(p) \/ Name(p) \/ Look(p) PROVE ListInv'
    <2>1. /\ snaps' = snaps /\ newer' = newer /\ at'[p] # "roll"
          /\ \A q \in Sessions \ {p} :
               /\ at'[q] = at[q] /\ missed'[q] = missed[q] /\ given'[q] = given[q]
               /\ jail'[q] = jail[q] /\ told'[q] = told[q]
      BY <1>3 DEF Begins, Begin, Name, Look, Call, disk, TypeOK
    <2> QED
      BY <2>1 DEF ListInv
  <1>4. ASSUME \/ \E j \in Jails : StartJail(j) \/ StopJail(j) \/ Write(j)
               \/ Tick
        PROVE  ListInv'
    BY <1>1, <1>4 DEF StartJail, StopJail, Write, Tick, disk, session
  <1> QED
    BY <1>2, <1>3, <1>4, ListTake, ListList, ListRoll, Steps

LEMMA LossAnnounced ==
  ASSUME TypeOK, ListInv, [Next]_vars, NEW s \in destroyed' \ destroyed
  PROVE  \E p \in Sessions :
           /\ at[p] = "roll" /\ at'[p] = "idle"
           /\ s \in told[p] \cup newer[p] \/ (missed[p] /\ told[p] = {})
  <1>1. ~UNCHANGED destroyed
    OBVIOUS
  <1>2. PICK p \in Sessions : Roll(p)
    <2>1. ~UNCHANGED vars
      BY <1>1 DEF vars
    <2>2. \A p \in Sessions : ~Begins(p) /\ ~Name(p) /\ ~Take(p) /\ ~Look(p) /\ ~List(p)
      BY <1>1 DEF Begins, Begin, Name, Take, Look, List
    <2>3. ~Tick /\ \A i \in Jails : ~StartJail(i) /\ ~StopJail(i) /\ ~Write(i)
      BY <1>1 DEF Tick, StartJail, StopJail, Write
    <2> QED
      BY <2>1, <2>2, <2>3, Steps
  <1>3. at[p] = "roll" /\ at'[p] = "idle" /\ Rolls(p) /\ given[p][1] = jail[p]
    BY <1>1, <1>2, RollsOrNot
  <1> DEFINE j == jail[p]
             n == given[p][2]
  <1>4. n \in NamesIn(snaps[j]) /\ s \in {j} \X NewerThan(snaps[j], n) /\ j \in Jails
    BY <1>3 DEF Rolls
  <1>5. PICK i \in (PositionIn(snaps[j], n) + 1) .. Len(snaps[j]) : s = <<j, snaps[j][i].name>>
    BY <1>4 DEF NewerThan
  <1>6. snaps[j] \in Seq(Snapshot)
    BY <1>4 DEF TypeOK, Snapshot
  <1>7. /\ PositionIn(snaps[j], n) \in DOMAIN snaps[j] /\ i \in DOMAIN snaps[j]
        /\ PositionIn(snaps[j], n) < i
        /\ snaps[j][PositionIn(snaps[j], n)].name = n
    BY <1>4, <1>5, <1>6, PositionIsThere, ElementsHaveNames
  <1>8. CASE ~missed[p]
    BY <1>3, <1>5, <1>7, <1>8 DEF ListInv
  <1>9. CASE missed[p]
    BY <1>3, <1>9 DEF TypeOK
  <1> QED
    BY <1>3, <1>8, <1>9

\* A rollback announced whatever it destroys, but for the snapshots taken since
\* it listed them; or a call failed as it listed them, and it announced nothing.
THEOREM LossIsSaidFirst == Spec => LossIsAnnounced
  <1>1. Init => ListInv
    BY DEF Init, ListInv
  <1>2. TypeOK /\ ListInv /\ [Next]_vars => ListInv'
    BY ListNext
  <1>3. TypeOK /\ ListInv /\ [Next]_vars =>
          [\A s \in destroyed' \ destroyed :
             \E p \in Sessions :
               /\ at[p] = "roll" /\ at'[p] = "idle"
               /\ s \in told[p] \cup newer[p] \/ (missed[p] /\ told[p] = {})]_vars
    BY LossAnnounced
  <1> QED
    BY <1>1, <1>2, <1>3, TypeCorrect, PTL DEF Spec, LossIsAnnounced
=============================================================================
