---------------------------- MODULE ConsoleProofs ----------------------------
(***************************************************************************)
(* Proofs about Console and the Machine and History it looks at, for every *)
(* table of services, every directory of secrets and any edits.            *)
(***************************************************************************)
EXTENDS Console, FiniteSetTheorems, SequenceTheorems, TLAPS

----------------------------------------------------------------------------
(* The history's file *)

HistoryTypes ==
  /\ file \in Seq(Texts \cup {NewLine})
  /\ pc \in [Records -> {"ready", "text", "newline", "kept", "lost"}]
  /\ lock = {r \in Records : pc[r] \in {"text", "newline"}}
  /\ faults \in [{"full", "kill", "power"} -> Nat]

\* One append at a time; the text of a record is written once; and while an
\* append is between its two writes, its text ends the file.
AppendInv ==
  /\ \A r, q \in lock : r = q
  /\ \A r \in Records : pc[r] \in {"ready", "text"} => \A i \in DOMAIN file : file[i] # Whole(r)
  /\ \A r \in Records : \A i, j \in DOMAIN file : file[i] = Whole(r) /\ file[j] = Whole(r) => i = j
  /\ \A r \in Records : pc[r] = "newline" => file # <<>> /\ file[Len(file)] = Whole(r)

\* Records whose text is all there and shares its line.
Hidden ==
  {r \in Records :
     /\ pc[r] \in {"newline", "kept"}
     /\ \E i \in DOMAIN file : file[i] = Whole(r)
     /\ \A i \in DOMAIN file : file[i] = Whole(r) => ~Alone(i)}

\* The file ends in the middle of a line and no append is there to finish it.
OpenEnd ==
  /\ file # <<>> /\ file[Len(file)] # NewLine
  /\ \A r \in Records : pc[r] # "newline"

\* What ends it is a record that is read so far.
AtRisk ==
  /\ Alone(Len(file))
  /\ \E r \in Records : pc[r] = "kept" /\ file[Len(file)] = Whole(r)

\* Records that the next append will hide: itself, and the one it runs into.
Debt == IF OpenEnd THEN IF AtRisk THEN 2 ELSE 1 ELSE 0

Allowed == faults["full"] + faults["kill"] + 2 * faults["power"]

\* Faults pay for what is hidden, and for what is going to be.
CostInv == IsFiniteSet(Hidden) /\ Cardinality(Hidden) + Debt <= Allowed

HistoryInv == HistoryTypes /\ AppendInv /\ CostInv /\ TypeOK

LEMMA OneMore ==
  ASSUME NEW S, IsFiniteSet(S), NEW x, NEW T, T \subseteq S \cup {x}
  PROVE  IsFiniteSet(T) /\ Cardinality(T) \in Nat /\ Cardinality(T) <= Cardinality(S) + 1
<1>1. /\ IsFiniteSet(S \cup {x})
      /\ Cardinality(S \cup {x}) = IF x \in S THEN Cardinality(S) ELSE Cardinality(S) + 1
  BY FS_AddElement, Zenon
<1>2. IsFiniteSet(T) /\ Cardinality(T) <= Cardinality(S \cup {x})
  BY <1>1, FS_Subset, Zenon
<1>3. Cardinality(S) \in Nat /\ Cardinality(T) \in Nat
  BY <1>2, FS_CardinalityType
<1> QED BY <1>1, <1>2, <1>3

\* The elements of the file.
LEMMA Pieces ==
  ASSUME HistoryTypes
  PROVE  /\ Len(file) \in Nat /\ DOMAIN file = 1..Len(file)
         /\ \A i \in 1..Len(file) : file[i] \in Texts \cup {NewLine}
         /\ file # <<>> <=> Len(file) # 0
         /\ \A r, q \in Records : Whole(r) = Whole(q) => r = q
         /\ \A r \in Records : Whole(r) \in Texts /\ Whole(r) # NewLine
BY HistoryAssumption DEF HistoryTypes, Whole, Texts

\* What an append leaves as it was.
LEMMA Appended ==
  ASSUME HistoryTypes, NEW x \in Texts \cup {NewLine}, file' = Append(file, x),
         NEW end \in Nat, end = Len(file)
  PROVE  /\ file' \in Seq(Texts \cup {NewLine})
         /\ Len(file') = end + 1 /\ DOMAIN file' = 1..(end + 1)
         /\ file' # <<>>
         /\ file'[end + 1] = x
         /\ \A i \in 1..end : file'[i] = file[i]
         /\ \A i \in 1..end : i < end => (Alone(i)' <=> Alone(i))
         /\ end # 0 => (Alone(end)' <=> Alone(end) /\ x = NewLine)
         /\ Alone(end + 1)' <=> end = 0 \/ file[end] = NewLine
<1>1. /\ file' \in Seq(Texts \cup {NewLine})
      /\ Len(file') = end + 1 /\ DOMAIN file' = 1..(end + 1)
      /\ file'[end + 1] = x
      /\ \A i \in 1..end : file'[i] = file[i]
      /\ file' # <<>>
  BY DEF HistoryTypes
<1>2. \A i \in 1..end : i < end => (Alone(i)' <=> Alone(i))
  BY <1>1 DEF Alone
<1>3. end # 0 => (Alone(end)' <=> Alone(end) /\ x = NewLine)
  BY <1>1 DEF Alone
<1>4. Alone(end + 1)' <=> end = 0 \/ file[end] = NewLine
  <2>1. end + 1 - 1 = end /\ (end + 1 = 1 <=> end = 0)
    OBVIOUS
  <2>2. end # 0 => end \in 1..end
    OBVIOUS
  <2> QED BY <1>1, <2>1, <2>2 DEF Alone
<1> QED BY <1>1, <1>2, <1>3, <1>4

\* The records that an append hides: the one it adds, when it does not begin a
\* line, and the one at the end of the file, when it was in sight.
LEMMA AppendHides ==
  ASSUME HistoryTypes, NEW x \in Texts \cup {NewLine}, file' = Append(file, x),
         \A r \in Records : pc'[r] \in {"newline", "kept"} =>
           pc[r] \in {"newline", "kept"} \/ x = Whole(r),
         NEW end \in Nat, end = Len(file),
         NEW r \in Hidden', r \notin Hidden
  PROVE  /\ end # 0 /\ file[end] # NewLine
         /\ \/ x = Whole(r)
            \/ /\ x # NewLine /\ Alone(end)
               /\ file[end] = Whole(r) /\ pc[r] \in {"newline", "kept"}
<1>0. DOMAIN file = 1..end /\ (end # 0 => end \in 1..end)
  BY Pieces
<1>1. r \in Records /\ pc'[r] \in {"newline", "kept"}
  BY DEF Hidden
<1>2. \A i \in 1..(end + 1) : file'[i] = Whole(r) => ~Alone(i)'
  BY Appended DEF Hidden
<1>3. CASE x = Whole(r)
  <2>1. ~Alone(end + 1)'
    BY <1>0, <1>2, <1>3, Appended
  <2> QED BY <1>0, <1>3, <2>1, Appended
<1>4. CASE x # Whole(r)
  <2>1. pc[r] \in {"newline", "kept"}
    BY <1>1, <1>4
  <2>2. PICK i \in 1..end : file[i] = Whole(r)
    BY <1>1, <1>4, <1>0, Appended DEF Hidden
  <2>3. PICK j \in 1..end : file[j] = Whole(r) /\ Alone(j)
    BY <1>0, <1>1, <2>1, <2>2 DEF Hidden
  <2>4. ~Alone(j)'
    BY <1>2, <2>3, <1>0, Appended
  <2>5. ~(j < end)
    BY <2>3, <2>4, Appended
  <2>6. j = end /\ end # 0
    BY <2>3, <2>5
  <2>7. x # NewLine
    BY <2>3, <2>4, <2>6, Appended
  <2>8. file[end] # NewLine
    BY <1>1, <2>3, <2>6, Pieces
  <2> QED BY <2>1, <2>3, <2>6, <2>7, <2>8
<1> QED BY <1>3, <1>4

\* Allowed, as a number, and what a fault adds to it.
LEMMA Paid ==
  ASSUME HistoryTypes
  PROVE  /\ Allowed \in Nat
         /\ Happened("full") \/ Happened("kill") =>
              Allowed' = Allowed + 1 /\ faults' \in [{"full", "kill", "power"} -> Nat]
         /\ Happened("power") =>
              Allowed' = Allowed + 2 /\ faults' \in [{"full", "kill", "power"} -> Nat]
         /\ \A kind \in {"full", "kill", "power"} : Happened(kind) => faults'[kind] > 0
<1>1. ASSUME NEW kind \in {"full", "kill", "power"}, Happened(kind)
      PROVE  /\ faults' \in [{"full", "kill", "power"} -> Nat]
             /\ faults'[kind] = faults[kind] + 1
             /\ \A k \in {"full", "kill", "power"} \ {kind} : faults'[k] = faults[k]
             /\ faults'[kind] > 0
  BY <1>1 DEF HistoryTypes, Happened
<1>2. \A kind \in {"full", "kill", "power"} : faults[kind] \in Nat
  BY DEF HistoryTypes
<1>3. Allowed \in Nat
  BY <1>2 DEF Allowed
<1>4. Happened("full") => Allowed' = Allowed + 1
  BY <1>1, <1>2 DEF Allowed
<1>5. Happened("kill") => Allowed' = Allowed + 1
  BY <1>1, <1>2 DEF Allowed
<1>6. Happened("power") => Allowed' = Allowed + 2
  BY <1>1, <1>2 DEF Allowed
<1> QED BY <1>1, <1>3, <1>4, <1>5, <1>6

LEMMA InitHistory == Init => HistoryInv
<1> SUFFICES ASSUME Init PROVE HistoryInv
  OBVIOUS
<1>1. HistoryTypes /\ TypeOK
  BY DEF Init, HistoryTypes, TypeOK
<1>2. AppendInv
  BY DEF Init, AppendInv
<1>3. Hidden = {} /\ Debt = 0 /\ Allowed = 0
  BY DEF Init, Hidden, Debt, OpenEnd, Allowed
<1>4. CostInv
  BY <1>3, FS_EmptySet DEF CostInv
<1> QED BY <1>1, <1>2, <1>4 DEF HistoryInv

\* Debt is a number, and none while an append is between its two writes.
LEMMA Debts ==
  /\ Debt \in {0, 1, 2}
  /\ \A r \in Records : pc[r] = "newline" => Debt = 0
BY DEF Debt, OpenEnd

\* The lock is taken.
LEMMA OpenStep ==
  ASSUME HistoryInv, NEW r \in Records, Open(r)
  PROVE  HistoryInv'
<1>1. /\ pc[r] = "ready" /\ lock = {} /\ lock' = {r} /\ file' = file /\ faults' = faults
      /\ pc' = [pc EXCEPT ![r] = "text"]
  BY DEF Open, Unlocked
<1>2. /\ \A q \in Records \ {r} : pc'[q] = pc[q]
      /\ pc'[r] = "text"
      /\ \A q \in Records : pc[q] \notin {"text", "newline"}
  BY <1>1 DEF HistoryInv, HistoryTypes
<1>3. HistoryTypes' /\ TypeOK'
  BY <1>1, <1>2 DEF HistoryInv, HistoryTypes, TypeOK
<1>4. AppendInv'
  BY <1>1, <1>2 DEF HistoryInv, AppendInv
<1>5. \A i : Alone(i)' <=> Alone(i)
  BY <1>1 DEF Alone
<1>6. Hidden' = Hidden
  BY <1>1, <1>2, <1>5 DEF Hidden
<1>7. (OpenEnd' <=> OpenEnd) /\ (AtRisk' <=> AtRisk)
  BY <1>1, <1>2 DEF OpenEnd, AtRisk, Alone
<1>8. Debt' = Debt /\ Allowed' = Allowed
  BY <1>1, <1>7 DEF Debt, Allowed
<1>9. CostInv'
  BY <1>6, <1>8 DEF HistoryInv, CostInv
<1> QED BY <1>3, <1>4, <1>9 DEF HistoryInv

\* A text lands in the file: what was open before it is hidden now.
LEMMA TextStep ==
  ASSUME HistoryInv, NEW r \in Records, WriteText(r)
  PROVE  HistoryInv'
<1>1. /\ pc[r] = "text" /\ file' = Append(file, Whole(r)) /\ UNCHANGED <<lock, faults>>
      /\ pc' = [pc EXCEPT ![r] = "newline"]
  BY DEF WriteText
<1>2. /\ \A q \in Records \ {r} : pc'[q] = pc[q]
      /\ pc'[r] = "newline"
      /\ pc' \in [Records -> {"ready", "text", "newline", "kept", "lost"}]
      /\ HistoryTypes
  BY <1>1 DEF HistoryInv, HistoryTypes
<1>3. \A q \in Records : pc[q] # "newline"
  BY <1>1 DEF HistoryInv, HistoryTypes, AppendInv
<1>4. PICK end \in Nat : end = Len(file)
  BY <1>2, Pieces
<1>5. Whole(r) \in Texts \cup {NewLine} /\ Whole(r) # NewLine
  BY <1>2, Pieces
<1>6. /\ file' \in Seq(Texts \cup {NewLine})
      /\ Len(file') = end + 1 /\ DOMAIN file' = 1..(end + 1) /\ DOMAIN file = 1..end
      /\ file' # <<>>
      /\ file'[end + 1] = Whole(r)
      /\ \A i \in 1..end : file'[i] = file[i]
  BY <1>1, <1>2, <1>4, <1>5, Appended, Pieces
<1>7. HistoryTypes'
  BY <1>1, <1>2, <1>6 DEF HistoryTypes
<1>8. TypeOK'
  BY <1>2, <1>7 DEF HistoryTypes, TypeOK
<1>9. \A q \in Records : Whole(q) = Whole(r) => q = r
  BY DEF Whole
<1>10. \A i \in 1..end : file[i] # Whole(r)
  BY <1>1, <1>6 DEF HistoryInv, AppendInv
<1>11. AppendInv'
  <2>1. \A p, q \in lock' : p = q
    BY <1>1 DEF HistoryInv, AppendInv
  <2>2. \A q \in Records : pc'[q] \in {"ready", "text"} => \A i \in 1..(end + 1) : file'[i] # Whole(q)
    <3> SUFFICES ASSUME NEW q \in Records, pc'[q] \in {"ready", "text"},
                        NEW i \in 1..(end + 1)
                 PROVE  file'[i] # Whole(q)
      OBVIOUS
    <3>1. q # r /\ pc[q] \in {"ready", "text"}
      BY <1>2
    <3>2. CASE i = end + 1
      BY <1>6, <1>9, <3>1, <3>2
    <3>3. CASE i # end + 1
      <4>1. i \in 1..end
        BY <3>3
      <4> QED BY <1>6, <3>1, <4>1 DEF HistoryInv, AppendInv
    <3> QED BY <3>2, <3>3
  <2>3. \A q \in Records : \A i, j \in 1..(end + 1) :
          file'[i] = Whole(q) /\ file'[j] = Whole(q) => i = j
    <3> SUFFICES ASSUME NEW q \in Records, NEW i \in 1..(end + 1), NEW j \in 1..(end + 1),
                        file'[i] = Whole(q), file'[j] = Whole(q), i # j
                 PROVE  FALSE
      OBVIOUS
    <3>1. (i \in 1..end \/ i = end + 1) /\ (j \in 1..end \/ j = end + 1)
      OBVIOUS
    <3>2. i \in 1..end /\ j \in 1..end
      BY <1>6, <1>9, <1>10, <3>1
    <3> QED BY <1>6, <3>2 DEF HistoryInv, AppendInv
  <2>4. \A q \in Records : pc'[q] = "newline" => file' # <<>> /\ file'[Len(file')] = Whole(q)
    BY <1>2, <1>3, <1>6
  <2> QED BY <1>6, <2>1, <2>2, <2>3, <2>4 DEF AppendInv
<1>12. \A q \in Records : pc'[q] \in {"newline", "kept"} =>
          pc[q] \in {"newline", "kept"} \/ Whole(r) = Whole(q)
  BY <1>2
<1>13. \A q \in Hidden' :
         \/ q \in Hidden
         \/ /\ end # 0 /\ file[end] # NewLine
            /\ \/ q = r
               \/ Alone(end) /\ file[end] = Whole(q) /\ pc[q] = "kept"
  <2> SUFFICES ASSUME NEW q \in Hidden', q \notin Hidden
               PROVE  /\ end # 0 /\ file[end] # NewLine
                      /\ \/ q = r
                         \/ Alone(end) /\ file[end] = Whole(q) /\ pc[q] = "kept"
    OBVIOUS
  <2>1. q \in Records
    BY DEF Hidden
  <2>2. /\ end # 0 /\ file[end] # NewLine
        /\ \/ Whole(r) = Whole(q)
           \/ Alone(end) /\ file[end] = Whole(q) /\ pc[q] \in {"newline", "kept"}
    BY <1>1, <1>2, <1>4, <1>5, <1>12, AppendHides
  <2> QED BY <1>3, <1>9, <2>1, <2>2
<1>14. Debt' = 0
  BY <1>2, Debts DEF Debt, OpenEnd
<1>15. Allowed' = Allowed /\ Allowed \in Nat
  BY <1>1, <1>2, Paid DEF Allowed
<1>16. IsFiniteSet(Hidden) /\ Cardinality(Hidden) \in Nat /\ Cardinality(Hidden) + Debt <= Allowed
  BY FS_CardinalityType DEF HistoryInv, CostInv
<1>17. CASE end # 0 /\ file[end] # NewLine
  <2>1. OpenEnd
    BY <1>2, <1>3, <1>4, <1>17, Pieces DEF OpenEnd
  <2>2. CASE AtRisk
    <3>1. PICK q \in Records : file[end] = Whole(q)
      BY <1>4, <2>2 DEF AtRisk
    <3>2. \A p \in Records : file[end] = Whole(p) => p = q
      BY <3>1 DEF Whole
    <3>3. Hidden' \subseteq (Hidden \cup {q}) \cup {r}
      BY <1>13, <3>2 DEF Hidden
    <3>4. IsFiniteSet(Hidden \cup {q}) /\ Cardinality(Hidden \cup {q}) \in Nat
          /\ Cardinality(Hidden \cup {q}) <= Cardinality(Hidden) + 1
      BY <1>16, OneMore
    <3>5. /\ IsFiniteSet(Hidden') /\ Cardinality(Hidden') \in Nat
          /\ Cardinality(Hidden') <= Cardinality(Hidden \cup {q}) + 1
      BY <3>3, <3>4, OneMore
    <3>6. Debt = 2
      BY <2>1, <2>2 DEF Debt
    <3>7. CostInv'
      BY <1>14, <1>15, <1>16, <3>4, <3>5, <3>6 DEF CostInv
    <3> QED BY <1>7, <1>8, <1>11, <3>7 DEF HistoryInv
  <2>3. CASE ~AtRisk
    <3>1. Hidden' \subseteq Hidden \cup {r}
      BY <1>4, <1>13, <2>3 DEF AtRisk, Hidden
    <3>2. /\ IsFiniteSet(Hidden') /\ Cardinality(Hidden') \in Nat
          /\ Cardinality(Hidden') <= Cardinality(Hidden) + 1
      BY <1>16, <3>1, OneMore
    <3>3. Debt = 1
      BY <2>1, <2>3 DEF Debt
    <3>4. CostInv'
      BY <1>14, <1>15, <1>16, <3>2, <3>3 DEF CostInv
    <3> QED BY <1>7, <1>8, <1>11, <3>4 DEF HistoryInv
  <2> QED BY <2>2, <2>3
<1>18. CASE ~(end # 0 /\ file[end] # NewLine)
  <2>1. Hidden' \subseteq Hidden
    BY <1>13, <1>18
  <2>2. IsFiniteSet(Hidden') /\ Cardinality(Hidden') <= Cardinality(Hidden)
        /\ Cardinality(Hidden') \in Nat
    BY <1>16, <2>1, FS_Subset, FS_CardinalityType
  <2>3. CostInv'
    BY <1>14, <1>15, <1>16, <2>2, Debts DEF CostInv
  <2> QED BY <1>7, <1>8, <1>11, <2>3 DEF HistoryInv
<1> QED BY <1>17, <1>18

\* The line end follows its text: what the file shows stays as it was.
LEMMA NewLineStep ==
  ASSUME HistoryInv, NEW r \in Records, WriteNewLine(r)
  PROVE  HistoryInv'
<1>1. /\ pc[r] = "newline" /\ file' = Append(file, NewLine) /\ lock' = lock \ {r}
      /\ faults' = faults /\ pc' = [pc EXCEPT ![r] = "kept"]
  BY DEF WriteNewLine
<1>2. /\ \A q \in Records \ {r} : pc'[q] = pc[q]
      /\ pc'[r] = "kept"
      /\ pc' \in [Records -> {"ready", "text", "newline", "kept", "lost"}]
      /\ HistoryTypes
  BY <1>1 DEF HistoryInv, HistoryTypes
<1>3. \A q \in Records : pc[q] = "newline" => q = r
  BY <1>1 DEF HistoryInv, HistoryTypes, AppendInv
<1>4. PICK end \in Nat : end = Len(file)
  BY <1>2, Pieces
<1>5. \A q \in Records : Whole(q) # NewLine
  BY <1>2, Pieces
<1>6. /\ file' \in Seq(Texts \cup {NewLine})
      /\ Len(file') = end + 1 /\ DOMAIN file' = 1..(end + 1) /\ DOMAIN file = 1..end
      /\ file' # <<>>
      /\ file'[end + 1] = NewLine
      /\ \A i \in 1..end : file'[i] = file[i]
  BY <1>1, <1>2, <1>4, Appended, Pieces
<1>7. HistoryTypes'
  BY <1>1, <1>2, <1>6 DEF HistoryTypes
<1>8. TypeOK'
  BY <1>6, <1>7 DEF HistoryTypes, TypeOK
<1>9. AppendInv'
  <2>1. \A p, q \in lock' : p = q
    BY <1>1 DEF HistoryInv, AppendInv
  <2>2. \A q \in Records : \A i \in 1..(end + 1) : file'[i] = Whole(q) => i \in 1..end /\ file[i] = Whole(q)
    <3> SUFFICES ASSUME NEW q \in Records, NEW i \in 1..(end + 1), file'[i] = Whole(q)
                 PROVE  i \in 1..end /\ file[i] = Whole(q)
      OBVIOUS
    <3>1. i # end + 1
      BY <1>5, <1>6
    <3>2. i \in 1..end
      BY <3>1
    <3> QED BY <1>6, <3>2
  <2>3. \A q \in Records : pc'[q] \in {"ready", "text"} => pc[q] \in {"ready", "text"}
    BY <1>2
  <2>4. \A q \in Records : pc'[q] # "newline"
    BY <1>2, <1>3
  <2> QED BY <1>6, <2>1, <2>2, <2>3, <2>4 DEF HistoryInv, AppendInv
<1>10. \A q \in Records : pc'[q] \in {"newline", "kept"} =>
          pc[q] \in {"newline", "kept"} \/ NewLine = Whole(q)
  BY <1>1, <1>2
<1>11. Hidden' \subseteq Hidden
  <2> SUFFICES ASSUME NEW q \in Hidden', q \notin Hidden PROVE FALSE
    OBVIOUS
  <2>1. q \in Records /\ NewLine \in Texts \cup {NewLine}
    BY DEF Hidden
  <2>2. NewLine = Whole(q) \/ NewLine # NewLine
    BY <1>1, <1>2, <1>4, <1>10, <2>1, AppendHides
  <2> QED BY <1>5, <2>1, <2>2
<1>12. Debt' = 0 /\ Debt = 0
  BY <1>1, <1>6, Debts DEF Debt, OpenEnd
<1>13. Allowed' = Allowed /\ Allowed \in Nat
  BY <1>1, <1>2, Paid DEF Allowed
<1>14. IsFiniteSet(Hidden) /\ Cardinality(Hidden) \in Nat /\ Cardinality(Hidden) + Debt <= Allowed
  BY FS_CardinalityType DEF HistoryInv, CostInv
<1>15. IsFiniteSet(Hidden') /\ Cardinality(Hidden') <= Cardinality(Hidden)
       /\ Cardinality(Hidden') \in Nat
  BY <1>11, <1>14, FS_Subset, FS_CardinalityType
<1>16. CostInv'
  BY <1>12, <1>13, <1>14, <1>15 DEF CostInv
<1> QED BY <1>7, <1>8, <1>9, <1>16 DEF HistoryInv

\* A write is cut short, with or without its process: one fault, and at most
\* one record more that the file shows no longer or the next append will hide.
LEMMA CutStep ==
  ASSUME HistoryInv, NEW r \in Records, pc[r] \in {"text", "newline"},
         file' \in CutShort(r), pc' = [pc EXCEPT ![r] = "lost"], lock' = lock \ {r},
         NEW kind \in {"full", "kill"} \cap Faults, Happened(kind)
  PROVE  HistoryInv'
<1>1. /\ \A q \in Records \ {r} : pc'[q] = pc[q]
      /\ pc'[r] = "lost"
      /\ pc' \in [Records -> {"ready", "text", "newline", "kept", "lost"}]
      /\ HistoryTypes
  BY DEF HistoryInv, HistoryTypes
<1>2. \A q \in Records : pc[q] \in {"text", "newline"} => q = r
  BY DEF HistoryInv, HistoryTypes, AppendInv
<1>3. PICK end \in Nat : end = Len(file) /\ DOMAIN file = 1..end
  BY <1>1, Pieces
<1>4. /\ Allowed' = Allowed + 1 /\ Allowed \in Nat
      /\ faults' \in [{"full", "kill", "power"} -> Nat]
      /\ \E k \in Faults : faults'[k] > 0
  BY <1>1, Paid
<1>5. \A p, q \in lock' : p = q
  BY DEF HistoryInv, AppendInv
<1>6. \A q \in Records : pc'[q] # "newline" /\ pc'[q] # "text"
  BY <1>1, <1>2
<1>7. IsFiniteSet(Hidden) /\ Cardinality(Hidden) \in Nat /\ Cardinality(Hidden) + Debt <= Allowed
  BY FS_CardinalityType DEF HistoryInv, CostInv
<1>8. CASE file' = file
  <2>1. HistoryTypes'
    BY <1>1, <1>4, <1>8 DEF HistoryTypes
  <2>2. TypeOK'
    BY <1>4, <2>1 DEF HistoryTypes, TypeOK
  <2>3. AppendInv'
    BY <1>1, <1>5, <1>6, <1>8 DEF HistoryInv, AppendInv
  <2>4. \A i : Alone(i)' <=> Alone(i)
    BY <1>8 DEF Alone
  <2>5. Hidden' \subseteq Hidden
    BY <1>1, <1>8, <2>4 DEF Hidden
  <2>6. IsFiniteSet(Hidden') /\ Cardinality(Hidden') <= Cardinality(Hidden)
        /\ Cardinality(Hidden') \in Nat
    BY <1>7, <2>5, FS_Subset, FS_CardinalityType
  <2>7. Debt' <= Debt + 1
    <3>1. CASE pc[r] = "newline"
      <4>1. file[end] = Whole(r)
        BY <1>3, <3>1 DEF HistoryInv, AppendInv
      <4>2. \A q \in Records : pc'[q] = "kept" => file'[Len(file')] # Whole(q)
        BY <1>1, <1>3, <1>8, <4>1 DEF Whole
      <4>3. ~AtRisk'
        BY <4>2 DEF AtRisk
      <4> QED BY <4>3, Debts DEF Debt
    <3>2. CASE pc[r] = "text"
      <4>1. \A q \in Records : pc[q] # "newline"
        BY <1>2, <3>2
      <4>2. (OpenEnd' <=> OpenEnd) /\ (AtRisk' => AtRisk)
        BY <1>1, <1>6, <1>8, <4>1 DEF OpenEnd, AtRisk, Alone
      <4> QED BY <4>2, Debts DEF Debt
    <3> QED BY <3>1, <3>2
  <2>8. Debt \in Nat /\ Debt' \in Nat
    BY Debts DEF Debt
  <2>9. CostInv'
    BY <1>4, <1>7, <2>6, <2>7, <2>8 DEF CostInv
  <2> QED BY <2>1, <2>2, <2>3, <2>9 DEF HistoryInv
<1>9. CASE file' # file
  <2>1. PICK c \in Cuts : file' = Append(file, [rec |-> r, cut |-> c])
    BY <1>9 DEF CutShort
  <2>2. PICK x \in Texts : x = [rec |-> r, cut |-> c] /\ file' = Append(file, x)
    BY <2>1 DEF Texts
  <2>3. x \in Texts \cup {NewLine} /\ x # NewLine /\ \A q \in Records : x # Whole(q)
    BY <2>2, HistoryAssumption DEF Whole, Cuts
  <2>4. /\ file' \in Seq(Texts \cup {NewLine})
        /\ Len(file') = end + 1 /\ DOMAIN file' = 1..(end + 1)
        /\ file' # <<>>
        /\ file'[end + 1] = x
        /\ \A i \in 1..end : file'[i] = file[i]
    BY <1>1, <1>3, <2>2, <2>3, Appended
  <2>5. HistoryTypes'
    BY <1>1, <1>4, <2>4 DEF HistoryTypes
  <2>6. TypeOK'
    BY <1>4, <2>5 DEF HistoryTypes, TypeOK
  <2>7. AppendInv'
    <3>1. \A q \in Records : \A i \in 1..(end + 1) :
            file'[i] = Whole(q) => i \in 1..end /\ file[i] = Whole(q)
      <4> SUFFICES ASSUME NEW q \in Records, NEW i \in 1..(end + 1), file'[i] = Whole(q)
                   PROVE  i \in 1..end /\ file[i] = Whole(q)
        OBVIOUS
      <4>1. i # end + 1
        BY <2>3, <2>4
      <4>2. i \in 1..end
        BY <4>1
      <4> QED BY <2>4, <4>2
    <3>2. \A q \in Records : pc'[q] \in {"ready", "text"} => pc[q] \in {"ready", "text"}
      BY <1>1
    <3> QED BY <1>3, <1>5, <1>6, <2>4, <3>1, <3>2 DEF HistoryInv, AppendInv
  <2>8. \A q \in Records : pc'[q] \in {"newline", "kept"} =>
            pc[q] \in {"newline", "kept"} \/ x = Whole(q)
    BY <1>1
  <2>9. \A q \in Hidden' :
          \/ q \in Hidden
          \/ end # 0 /\ file[end] # NewLine /\ Alone(end) /\ file[end] = Whole(q) /\ pc[q] = "kept"
    <3> SUFFICES ASSUME NEW q \in Hidden', q \notin Hidden
                 PROVE  /\ end # 0 /\ file[end] # NewLine
                        /\ Alone(end) /\ file[end] = Whole(q) /\ pc[q] = "kept"
      OBVIOUS
    <3>1. q \in Records /\ pc'[q] = "kept"
      BY <1>6 DEF Hidden
    <3>2. /\ end # 0 /\ file[end] # NewLine
          /\ \/ x = Whole(q)
             \/ Alone(end) /\ file[end] = Whole(q) /\ pc[q] \in {"newline", "kept"}
      BY <1>1, <1>3, <2>2, <2>3, <2>8, AppendHides
    <3> QED BY <1>1, <2>3, <3>1, <3>2
  <2>10. Debt' = 1
    <3>1. Len(file') = end + 1 /\ file'[Len(file')] = x
      BY <2>4
    <3>2. ~AtRisk'
      BY <2>3, <3>1 DEF AtRisk
    <3>3. OpenEnd'
      BY <1>6, <2>3, <2>4, <3>1 DEF OpenEnd
    <3> QED BY <3>2, <3>3 DEF Debt
  <2>11. pc[r] = "text"
    BY <1>9 DEF CutShort
  <2>12. CASE OpenEnd /\ AtRisk
    <3>1. PICK q \in Records : file[end] = Whole(q)
      BY <1>3, <2>12 DEF AtRisk
    <3>2. \A p \in Records : file[end] = Whole(p) => p = q
      BY <3>1 DEF Whole
    <3>3. Hidden' \subseteq Hidden \cup {q}
      BY <2>9, <3>2 DEF Hidden
    <3>4. IsFiniteSet(Hidden') /\ Cardinality(Hidden') \in Nat
          /\ Cardinality(Hidden') <= Cardinality(Hidden) + 1
      BY <1>7, <3>3, OneMore
    <3>5. Debt = 2
      BY <2>12 DEF Debt
    <3>6. CostInv'
      BY <1>4, <1>7, <2>10, <3>4, <3>5 DEF CostInv
    <3> QED BY <2>5, <2>6, <2>7, <3>6 DEF HistoryInv
  <2>13. CASE ~(OpenEnd /\ AtRisk)
    <3>1. \A q \in Records : pc[q] # "newline"
      BY <1>2, <2>11
    <3>2. end # 0 /\ file[end] # NewLine => OpenEnd
      BY <1>1, <1>3, <3>1, Pieces DEF OpenEnd
    <3>3. Hidden' \subseteq Hidden
      BY <1>3, <2>9, <2>13, <3>2 DEF AtRisk, Hidden
    <3>4. IsFiniteSet(Hidden') /\ Cardinality(Hidden') <= Cardinality(Hidden)
          /\ Cardinality(Hidden') \in Nat
      BY <1>7, <3>3, FS_Subset, FS_CardinalityType
    <3>5. CostInv'
      BY <1>4, <1>7, <2>10, <3>4, Debts DEF CostInv
    <3> QED BY <2>5, <2>6, <2>7, <3>5 DEF HistoryInv
  <2> QED BY <2>12, <2>13
<1> QED BY <1>8, <1>9

\* The file comes back as a beginning of it: nothing that it still shows is
\* newly hidden, and at most two records will be.
LEMMA PowerStep ==
  ASSUME HistoryInv, PowerCut
  PROVE  HistoryInv'
<1>1. /\ pc' = [r \in Records |-> IF pc[r] \in {"text", "newline"} THEN "lost" ELSE pc[r]]
      /\ lock' = {} /\ Happened("power") /\ "power" \in Faults /\ HistoryTypes
  BY DEF PowerCut, May, Restarted, HistoryInv
<1>2. PICK end \in Nat : end = Len(file) /\ DOMAIN file = 1..end
  BY <1>1, Pieces
<1>3. /\ Allowed' = Allowed + 2 /\ Allowed \in Nat
      /\ faults' \in [{"full", "kill", "power"} -> Nat]
      /\ \E k \in Faults : faults'[k] > 0
  BY <1>1, Paid
<1>4. \A q \in Records :
        /\ pc'[q] \in {"ready", "kept", "lost"}
        /\ pc'[q] \in {"ready", "kept"} => pc[q] = pc'[q]
  BY <1>1 DEF HistoryTypes
<1>5. PICK kept \in 0..end :
        \/ file' = SubSeq(file, 1, kept)
        \/ /\ kept > 0
           /\ file[kept] \in Texts /\ file[kept].cut = "whole"
           /\ \E c \in Cuts : file' = [SubSeq(file, 1, kept) EXCEPT ![kept].cut = c]
  BY <1>2 DEF PowerCut
<1>6. /\ SubSeq(file, 1, kept) \in Seq(Texts \cup {NewLine})
      /\ Len(SubSeq(file, 1, kept)) = kept
      /\ \A i \in 1..kept : SubSeq(file, 1, kept)[i] = file[i]
  BY <1>1, <1>2 DEF HistoryTypes
<1>7. /\ file' \in Seq(Texts \cup {NewLine})
      /\ Len(file') = kept /\ DOMAIN file' = 1..kept
      /\ \A i \in 1..kept :
           \/ file'[i] = file[i]
           \/ i = kept /\ file[i] # NewLine /\ file'[i] # NewLine /\ file'[i].cut # "whole"
  <2>1. CASE file' = SubSeq(file, 1, kept)
    BY <1>6, <2>1
  <2>2. CASE file' # SubSeq(file, 1, kept)
    <3>1. PICK c \in Cuts : file' = [SubSeq(file, 1, kept) EXCEPT ![kept].cut = c]
      BY <1>5, <2>2
    <3>2. kept \in 1..kept /\ file[kept] \in Texts /\ SubSeq(file, 1, kept)[kept] = file[kept]
      BY <1>5, <1>6, <2>2
    <3>3. [file[kept] EXCEPT !.cut = c] \in Texts /\ [file[kept] EXCEPT !.cut = c].cut = c
      BY <3>2 DEF Texts
    <3>4. file' = [SubSeq(file, 1, kept) EXCEPT ![kept] = [file[kept] EXCEPT !.cut = c]]
      BY <3>1, <3>2
    <3>5. PICK x \in Texts : x = [file[kept] EXCEPT !.cut = c] /\ x.cut = c
      BY <3>3
    <3>6. file' = [SubSeq(file, 1, kept) EXCEPT ![kept] = x]
      BY <3>4, <3>5
    <3>7. x # NewLine /\ c # "whole" /\ file[kept] # NewLine
      BY <3>2, HistoryAssumption DEF Cuts
    <3>8. PICK g \in Seq(Texts \cup {NewLine}) : g = SubSeq(file, 1, kept)
      BY <1>6
    <3>9. /\ g \in [1..kept -> Texts \cup {NewLine}]
          /\ file' = [g EXCEPT ![kept] = x]
          /\ \A i \in 1..kept : g[i] = file[i]
      <4>1. Len(g) = kept /\ \A i \in 1..kept : g[i] = file[i]
        BY <1>6, <3>8
      <4>2. g \in [1..kept -> Texts \cup {NewLine}]
        BY <3>8, <4>1, LenProperties
      <4> QED BY <3>6, <3>8, <4>1, <4>2
    <3>10. file' \in [1..kept -> Texts \cup {NewLine}] /\ file'[kept] = x
           /\ \A i \in 1..kept : i # kept => file'[i] = g[i]
      BY <3>2, <3>5, <3>9
    <3>11. file' \in Seq(Texts \cup {NewLine}) /\ Len(file') = kept
      BY <3>10
    <3> QED BY <3>5, <3>7, <3>9, <3>10, <3>11
  <2> QED BY <2>1, <2>2
<1>8. \A q \in Records : \A i \in 1..kept : file'[i] = Whole(q) => file[i] = Whole(q)
  BY <1>7 DEF Whole
<1>9. HistoryTypes'
  BY <1>1, <1>3, <1>4, <1>7 DEF HistoryTypes
<1>10. TypeOK'
  BY <1>3, <1>9 DEF HistoryTypes, TypeOK
<1>11. AppendInv'
  BY <1>1, <1>2, <1>4, <1>7, <1>8 DEF HistoryInv, AppendInv
<1>12. \A i \in 1..kept : Alone(i) => Alone(i)'
  <2> SUFFICES ASSUME NEW i \in 1..kept, Alone(i) PROVE Alone(i)'
    OBVIOUS
  <2>1. i = 1 \/ file'[i - 1] = NewLine
    <3>1. i # 1 => i - 1 \in 1..kept /\ i - 1 # kept
      OBVIOUS
    <3> QED BY <1>7, <3>1 DEF Alone
  <2>2. i = kept \/ file'[i + 1] = NewLine
    <3>1. i # kept => i + 1 \in 1..kept /\ i # end
      OBVIOUS
    <3> QED BY <1>2, <1>7, <3>1 DEF Alone
  <2> QED BY <1>7, <2>1, <2>2 DEF Alone
<1>13. Hidden' \subseteq Hidden
  <2> SUFFICES ASSUME NEW q \in Hidden' PROVE q \in Hidden
    OBVIOUS
  <2>1. q \in Records /\ pc[q] = "kept"
    <3>1. q \in Records /\ pc'[q] \in {"newline", "kept"}
      BY DEF Hidden
    <3> QED BY <1>4, <3>1
  <2>2. PICK i \in 1..kept : file'[i] = Whole(q)
    BY <1>7 DEF Hidden
  <2>3. ~Alone(i) /\ file[i] = Whole(q) /\ i \in 1..end
    BY <1>7, <1>8, <1>12, <2>1, <2>2 DEF Hidden
  <2>4. \A j \in 1..end : file[j] = Whole(q) => j = i
    BY <1>2, <2>1, <2>3 DEF HistoryInv, AppendInv
  <2> QED BY <1>2, <2>1, <2>3, <2>4 DEF Hidden
<1>14. IsFiniteSet(Hidden) /\ Cardinality(Hidden) \in Nat /\ Cardinality(Hidden) + Debt <= Allowed
  BY FS_CardinalityType DEF HistoryInv, CostInv
<1>15. IsFiniteSet(Hidden') /\ Cardinality(Hidden') <= Cardinality(Hidden)
       /\ Cardinality(Hidden') \in Nat
  BY <1>13, <1>14, FS_Subset, FS_CardinalityType
<1>16. Debt' \in {0, 1, 2}
  BY DEF Debt
<1>17. CostInv'
  BY <1>3, <1>14, <1>15, <1>16, Debts DEF CostInv
<1> QED BY <1>9, <1>10, <1>11, <1>17 DEF HistoryInv

LEMMA KillStep ==
  ASSUME HistoryInv, Kill
  PROVE  HistoryInv'
<1>1. PICK r \in lock : file' \in CutShort(r)
  BY DEF Kill
<1>2. /\ r \in Records /\ pc[r] \in {"text", "newline"}
      /\ \A q \in Records : pc[q] \in {"text", "newline"} => q = r
  BY <1>1 DEF HistoryInv, HistoryTypes, AppendInv
<1>3. lock' = lock \ {r}
  BY <1>1 DEF Kill, Restarted, HistoryInv, AppendInv
<1>4. pc' = [pc EXCEPT ![r] = "lost"]
  BY <1>2 DEF Kill, Restarted, HistoryInv, HistoryTypes
<1>5. "kill" \in {"full", "kill"} \cap Faults /\ Happened("kill")
  BY DEF Kill, May
<1> QED BY <1>1, <1>2, <1>3, <1>4, <1>5, CutStep

LEMMA WriteFailsStep ==
  ASSUME HistoryInv, NEW r \in Records, WriteFails(r)
  PROVE  HistoryInv'
BY CutStep DEF WriteFails, May

LEMMA HistoryStep ==
  ASSUME HistoryInv, [Next]_vars
  PROVE  HistoryInv'
<1>1. CASE UNCHANGED vars
  <2>1. UNCHANGED <<file, pc, lock, faults>>
    BY <1>1 DEF vars
  <2>2. HistoryTypes' /\ AppendInv' /\ TypeOK'
    BY <2>1 DEF HistoryInv, HistoryTypes, AppendInv, TypeOK
  <2>3. CostInv'
    BY <2>1 DEF HistoryInv, CostInv, Hidden, Debt, OpenEnd, AtRisk, Alone, Allowed
  <2> QED BY <2>2, <2>3 DEF HistoryInv
<1> QED BY <1>1, OpenStep, TextStep, NewLineStep, WriteFailsStep, KillStep, PowerStep DEF Next

LEMMA SpecHistoryInv == Spec => []HistoryInv
BY InitHistory, HistoryStep, PTL DEF Spec

\* What is all there, not read, and not behind a text cut inside a character
\* shares its line.
LEMMA FewFollow == HistoryInv => FaultHidesFew
<1> SUFFICES ASSUME HistoryInv
             PROVE  Cardinality((Intact \ Visible) \ Behind) <= Allowed
  BY DEF FaultHidesFew, Allowed
<1>1. ASSUME NEW r \in Records \ Behind, NEW i \in DOMAIN file, file[i] = Whole(r)
      PROVE  Readable(i)
  <2> SUFFICES ASSUME NEW j \in 1..i, file[j] # NewLine PROVE file[j].cut # "broken"
    BY DEF Readable
  <2>1. j \in DOMAIN file /\ i \in Int /\ j \in Int
    BY Pieces DEF HistoryInv
  <2>2. CASE j = i
    BY <1>1, <2>2 DEF Whole
  <2>3. CASE j < i
    BY <1>1, <2>1, <2>3 DEF Behind
  <2> QED BY <2>1, <2>2, <2>3
<1>2. (Intact \ Visible) \ Behind \subseteq Hidden
  BY <1>1 DEF Intact, Kept, Visible, Hidden
<1>3. IsFiniteSet(Hidden) /\ Cardinality(Hidden) \in Nat /\ Cardinality(Hidden) + Debt <= Allowed
  BY FS_CardinalityType DEF HistoryInv, CostInv
<1>4. /\ Cardinality((Intact \ Visible) \ Behind) <= Cardinality(Hidden)
      /\ Cardinality((Intact \ Visible) \ Behind) \in Nat
  BY <1>2, <1>3, FS_Subset, FS_CardinalityType
<1>5. Allowed \in Nat
  BY Paid DEF HistoryInv
<1> QED BY <1>3, <1>4, <1>5, Debts

\* Over any faults, what was kept and is not read is paid for, one record for a
\* cut write and two for a power cut, but for what comes after a text cut inside
\* a character.
THEOREM FaultsHideFew == Spec => []FaultHidesFew
BY SpecHistoryInv, FewFollow, PTL

\* What stays in sight when something is appended.
LEMMA StaysVisible ==
  ASSUME HistoryTypes, NEW x \in Texts \cup {NewLine},
         file' = file \/ file' = Append(file, x),
         NEW r \in Visible, file[Len(file)] # Whole(r)
  PROVE  r \in Visible'
<1>1. PICK i \in DOMAIN file : file[i] = Whole(r) /\ Alone(i) /\ Readable(i)
  BY DEF Visible
<1>2. CASE file' = file
  BY <1>1, <1>2 DEF Visible, Alone, Readable
<1>3. CASE file' = Append(file, x)
  <2>1. PICK end \in Nat : end = Len(file) /\ DOMAIN file = 1..end
    BY Pieces
  <2>2. /\ DOMAIN file' = 1..(end + 1)
        /\ \A j \in 1..end : file'[j] = file[j]
        /\ \A j \in 1..end : j < end => (Alone(j)' <=> Alone(j))
    BY <1>3, <2>1, Appended
  <2>3. i \in 1..end /\ i < end /\ 1..i \subseteq 1..end
    BY <1>1, <2>1
  <2>4. Readable(i)'
    BY <1>1, <2>2, <2>3 DEF Readable
  <2>5. i \in DOMAIN file' /\ file'[i] = Whole(r)' /\ Alone(i)' /\ r \in Records
    BY <1>1, <2>2, <2>3 DEF Visible, Whole
  <2> QED BY <2>4, <2>5 DEF Visible
<1> QED BY <1>2, <1>3

\* But for power cuts, the file only grows.
LEMMA OnlyGrows ==
  ASSUME HistoryTypes, [Next]_vars
  PROVE  \/ file' = file
         \/ \E x \in Texts \cup {NewLine} : file' = Append(file, x)
         \/ faults'["power"] # faults["power"]
<1>1. \A r \in Records : CutShort(r) \subseteq {file} \cup {Append(file, x) : x \in Texts}
  BY DEF CutShort, Texts
<1>2. ASSUME NEW r \in Records, WriteText(r) PROVE Whole(r) \in Texts /\ file' = Append(file, Whole(r))
  BY <1>2 DEF WriteText, Whole, Texts
<1>3. ASSUME NEW r \in Records, WriteNewLine(r) PROVE file' = Append(file, NewLine)
  BY <1>3 DEF WriteNewLine
<1>4. ASSUME Kill PROVE \E r \in Records : file' \in CutShort(r)
  BY <1>4 DEF Kill, HistoryTypes
<1>5. ASSUME NEW r \in Records, WriteFails(r) PROVE file' \in CutShort(r)
  BY <1>5 DEF WriteFails
<1>6. ASSUME PowerCut PROVE faults'["power"] # faults["power"]
  BY <1>6 DEF PowerCut, Happened, HistoryTypes
<1> QED BY <1>1, <1>2, <1>3, <1>4, <1>5, <1>6 DEF Next, vars, Open

\* A record in sight stays there, unless the power goes, or it ends the file
\* without a line end.
THEOREM SeenAlwaysStaysSeen == Spec => SeenStaysSeen
<1>1. ASSUME HistoryInv, [Next]_vars, NEW r \in Visible
      PROVE  \/ r \in Visible'
             \/ faults'["power"] # faults["power"]
             \/ file[Len(file)] = Whole(r)
  BY <1>1, OnlyGrows, StaysVisible DEF HistoryInv
<1>2. HistoryInv /\ [Next]_vars =>
        [\A r \in Visible : \/ r \in Visible'
                            \/ faults'["power"] # faults["power"]
                            \/ file[Len(file)] = Whole(r)]_vars
  BY <1>1
<1> QED BY <1>2, SpecHistoryInv, PTL DEF Spec, SeenStaysSeen

----------------------------------------------------------------------------
(* The machine *)

\* A token as a service or the console holds it, or none.
Values == {None} \cup [token : Tokens \cup Odd, padded : BOOLEAN]

MachineTypes ==
  /\ phase \in [Services -> Phases]
  /\ dir \in [Names -> Files \cup {None}]
  /\ asks \in [Own -> Values]
  /\ copies \in [Asked -> Values]
  /\ used \in BOOLEAN
  /\ edited \in [Own -> SUBSET Names]

\* The address that s listens on.
Bind(s) == IF s = "hajime_workflow" THEN WorkflowBind(env) ELSE BindOf(env)

\* The token that the files would have s, one of those that the console asks,
\* demand.
Demanded(s) ==
  IF s = "hajime_workflow"
  THEN LET held == dir[TokenFile(s)] IN
       IF held = None \/ held.holds = "empty" THEN None ELSE NewAuth(Secret(held))
  ELSE NewAuth(TryGet(dir, TokenFile(s)))

\* Beyond loopback there is a token; and what a service and the console loaded
\* is what the files hold, but for what was edited since.
TokenInv ==
  /\ \A s \in Own : Alive(s) /\ Bind(s) # "loopback" => asks[s] # None
  /\ \A s \in Asked :
       Alive(s) /\ TokenFile(s) \notin edited[s] => asks[s] = Demanded(s)
  /\ \A s \in Asked :
       Alive("hajime_console") /\ TokenFile(s) \notin edited["hajime_console"] =>
         copies[s] = TryGet(dir, TokenFile(s))

MachineInv == MachineTypes /\ TokenInv

LEMMA AskedOwn ==
  /\ Asked \subseteq Own /\ "hajime_console" \in Own /\ Own \subseteq Services
  /\ \A s \in Own : TokenFile(s) \in Counted /\ TokenFile(s) \in Names
BY MachineAssumption DEF Asked, Own, Counted

\* What is read from the directory.
LEMMA ReadTypes ==
  ASSUME MachineTypes, NEW name \in Counted
  PROVE  /\ TryGet(dir, name) \in Values
         /\ NewAuth(TryGet(dir, name)) \in Values
         /\ dir[name] # None => Secret(dir[name]) \in Values /\ NewAuth(Secret(dir[name])) \in Values
<1>1. name \in Names
  BY DEF Counted
<1>2. dir[name] # None =>
        /\ Secret(dir[name]) \in [token : Tokens \cup Odd, padded : BOOLEAN]
        /\ Secret(dir[name]).token \in Tokens \cup Odd
  BY <1>1 DEF MachineTypes, Files, Secret
<1>3. \A v \in Values : NewAuth(v) \in Values
  BY DEF NewAuth, Values
<1>4. dir[name] # None => Secret(dir[name]) \in Values
  BY <1>2 DEF Values
<1>5. None \in Values
  BY DEF Values
<1> QED BY <1>3, <1>4, <1>5 DEF TryGet

\* What a start of one of Hajime's own services comes to.
LEMMA OwnStarts ==
  ASSUME MachineTypes, NEW s \in Own
  PROVE  /\ OwnStart(s).asks \in Values
         /\ OwnStart(s).up /\ Bind(s) # "loopback" => OwnStart(s).asks # None
         /\ s \in Asked /\ OwnStart(s).up => OwnStart(s).asks = Demanded(s)
<1>1. TokenFile(s) \in Counted /\ None \in Values
  BY AskedOwn DEF Values
<1> DEFINE name == TokenFile(s)
<1>2. /\ TryGet(dir, name) \in Values
      /\ NewAuth(TryGet(dir, name)) \in Values
      /\ dir[name] # None => NewAuth(Secret(dir[name])) \in Values
  BY <1>1, ReadTypes
<1> HIDE DEF name
<1>3. CASE s = "hajime_workflow"
  <2>1. OwnStart(s) = StartWorkflow(env, dir, name)
    BY <1>3 DEF OwnStart, name
  <2>2. Bind(s) = WorkflowBind(env)
    BY <1>3 DEF Bind
  <2> QED BY <1>1, <1>2, <1>3, <2>1, <2>2
          DEF StartWorkflow, Listens, Exits, GuardExposure, Demanded, name
<1>4. CASE s = "hajime_wa"
  <2>1. OwnStart(s) = StartWa(env, dir, name) /\ s \notin Asked
    BY <1>4 DEF OwnStart, name, Asked
  <2>2. Bind(s) = BindOf(env)
    BY <1>4 DEF Bind
  <2> QED BY <1>1, <1>2, <2>1, <2>2
          DEF StartWa, Listens, Exits, GuardExposure
<1>5. CASE s \notin {"hajime_workflow", "hajime_wa"}
  <2>1. OwnStart(s) = StartGuarded(env, dir, name)
    BY <1>5 DEF OwnStart, name
  <2>2. Bind(s) = BindOf(env) /\ s # "hajime_workflow"
    BY <1>5 DEF Bind
  <2> QED BY <1>1, <1>2, <2>1, <2>2
          DEF StartGuarded, Listens, Exits, GuardExposure, Demanded, name
<1> QED BY <1>3, <1>4, <1>5

\* What the files would have a service demand does not change with the services.
LEMMA SameFiles ==
  ASSUME dir' = dir, env' = env, NEW s
  PROVE  /\ Demanded(s)' = Demanded(s) /\ Bind(s)' = Bind(s)
         /\ OwnStart(s)' = OwnStart(s) /\ MayStart(s)' = MayStart(s)
         /\ \A name : TryGet(dir, name)' = TryGet(dir, name)
<1>1. \A name : TryGet(dir, name)' = TryGet(dir, name)
  BY DEF TryGet
<1>2. Demanded(s)' = Demanded(s)
  BY <1>1 DEF Demanded
<1>3. Bind(s)' = Bind(s)
  BY DEF Bind
<1>4. OwnStart(s)' = OwnStart(s)
  BY DEF OwnStart, StartWorkflow, StartWa, StartGuarded, StoreLoads, TryGet
<1> QED BY <1>1, <1>2, <1>3, <1>4 DEF MayStart

\* A service starts, or starts again.
LEMMA LoadedInv ==
  ASSUME MachineInv, NEW s \in Services, NEW p \in Phases, MayStart(s),
         Change(s, p), Loaded(s), UNCHANGED <<env, dir>>
  PROVE  MachineInv'
<1>1. phase' = [phase EXCEPT ![s] = p] /\ phase' \in [Services -> Phases]
  BY DEF Change, MachineInv, MachineTypes
<1>2. asks' \in [Own -> Values] /\ edited' \in [Own -> SUBSET Names]
  BY OwnStarts DEF Loaded, MachineInv, MachineTypes
<1>3. copies' \in [Asked -> Values]
  BY AskedOwn, ReadTypes DEF Loaded, MachineInv, MachineTypes
<1>4. used' \in BOOLEAN
  BY DEF Loaded, MachineInv, MachineTypes
<1>5. MachineTypes'
  BY <1>1, <1>2, <1>3, <1>4 DEF MachineInv, MachineTypes
<1>6. /\ \A t \in Services \ {s} : phase'[t] = phase[t]
      /\ \A t \in Own \ {s} : asks'[t] = asks[t] /\ edited'[t] = edited[t]
      /\ s \in Own => asks'[s] = OwnStart(s).asks /\ OwnStart(s).up
      /\ s # "hajime_console" => copies' = copies
      /\ s = "hajime_console" => \A a \in Asked : copies'[a] = TryGet(dir, TokenFile(a))
  BY <1>1 DEF Loaded, MachineInv, MachineTypes, MayStart
<1>7. \A t \in Own : Demanded(t)' = Demanded(t) /\ Bind(t)' = Bind(t)
  BY SameFiles
<1>8. \A a : TryGet(dir, a)' = TryGet(dir, a)
  BY SameFiles
<1>9. ASSUME NEW t \in Own
      PROVE  /\ Alive(t)' /\ Bind(t)' # "loopback" => asks'[t] # None
             /\ t \in Asked /\ Alive(t)' /\ TokenFile(t) \notin edited'[t]
                  => asks'[t] = Demanded(t)'
  <2>1. CASE t = s
    BY <1>6, <1>7, <2>1, OwnStarts DEF MachineInv
  <2>2. CASE t # s
    BY <1>6, <1>7, <2>2, AskedOwn DEF MachineInv, TokenInv, Alive
  <2> QED BY <2>1, <2>2
<1>10. ASSUME NEW a \in Asked, Alive("hajime_console")',
              TokenFile(a) \notin edited'["hajime_console"]
       PROVE  copies'[a] = TryGet(dir, TokenFile(a))'
  <2>1. CASE s = "hajime_console"
    BY <1>6, <1>8, <2>1
  <2>2. CASE s # "hajime_console"
    BY <1>6, <1>8, <1>10, <2>2, AskedOwn DEF MachineInv, TokenInv, Alive
  <2> QED BY <2>1, <2>2
<1>11. TokenInv'
  BY <1>9, <1>10, AskedOwn DEF TokenInv
<1> QED BY <1>5, <1>11 DEF MachineInv

\* A service goes down.
LEMMA ForgottenInv ==
  ASSUME MachineInv, NEW s \in Services,
         Change(s, "down"), Forgotten({s}), UNCHANGED <<env, dir, edited>>
  PROVE  MachineInv'
<1>1. phase' = [phase EXCEPT ![s] = "down"] /\ phase' \in [Services -> Phases]
  BY DEF Change, MachineInv, MachineTypes, Phases
<1>2. None \in Values
  BY DEF Values
<1>3. MachineTypes'
  BY <1>1, <1>2 DEF Forgotten, MachineInv, MachineTypes
<1>4. /\ \A t \in Services \ {s} : phase'[t] = phase[t]
      /\ phase'[s] = "down"
      /\ \A t \in Own \ {s} : asks'[t] = asks[t]
      /\ s # "hajime_console" => copies' = copies
  BY <1>1 DEF Forgotten, MachineInv, MachineTypes
<1>5. \A t \in Own : Demanded(t)' = Demanded(t) /\ Bind(t)' = Bind(t)
  BY SameFiles
<1>6. \A a : TryGet(dir, a)' = TryGet(dir, a)
  BY SameFiles
<1>7. TokenInv'
  BY <1>4, <1>5, <1>6, AskedOwn DEF MachineInv, TokenInv, Alive
<1> QED BY <1>3, <1>7 DEF MachineInv

\* One that runs changes, and no process comes or goes.
LEMMA SameProcess ==
  ASSUME MachineInv, NEW s \in Services, NEW p \in Phases, Alive(s),
         Change(s, p), UNCHANGED <<env, dir, asks, copies, used, edited>>
  PROVE  MachineInv'
<1>1. phase' = [phase EXCEPT ![s] = p] /\ phase' \in [Services -> Phases]
  BY DEF Change, MachineInv, MachineTypes
<1>2. \A t \in Services : Alive(t)' => Alive(t)
  BY <1>1 DEF Alive, MachineInv, MachineTypes
<1>3. \A t \in Own : Demanded(t)' = Demanded(t) /\ Bind(t)' = Bind(t)
  BY SameFiles
<1>4. \A a : TryGet(dir, a)' = TryGet(dir, a)
  BY SameFiles
<1>5. MachineTypes'
  BY <1>1 DEF MachineInv, MachineTypes
<1>6. TokenInv'
  BY <1>2, <1>3, <1>4, AskedOwn DEF MachineInv, TokenInv
<1> QED BY <1>5, <1>6 DEF MachineInv

\* Whatever happens to a service, it happens to that one alone.
LEMMA ServiceStep ==
  ASSUME MachineInv, NEW s \in Services,
         \/ StartService(s) \/ RestartService(s) \/ StopService(s)
         \/ Hang(s) \/ Recover(s)
  PROVE  /\ MachineInv'
         /\ \A t \in Services \ {s} : phase'[t] = phase[t]
         /\ \A t \in Own \ {s} : edited'[t] = edited[t]
         /\ s # "hajime_ai" => used' = used
<1>1. CASE StartService(s)
  <2>1. PICK p \in Started(s) \cup {"byhand"} : Change(s, p)
    BY <1>1 DEF StartService
  <2>2. p \in Phases
    BY DEF Started, Phases
  <2>3. MachineInv'
    BY <1>1, <2>1, <2>2, LoadedInv DEF StartService
  <2> QED BY <1>1, <2>1, <2>3 DEF StartService, Change, Loaded, MachineInv, MachineTypes
<1>2. CASE RestartService(s)
  <2>1. CASE MayStart(s)
    <3>1. Change(s, "up") /\ Loaded(s) /\ UNCHANGED <<env, dir>>
      BY <1>2, <2>1 DEF RestartService
    <3>2. MachineInv'
      BY <2>1, <3>1, LoadedInv DEF Phases
    <3> QED BY <3>1, <3>2 DEF Change, Loaded, MachineInv, MachineTypes
  <2>2. CASE ~MayStart(s)
    <3>1. Change(s, "down") /\ Forgotten({s}) /\ UNCHANGED <<env, dir, edited>>
      BY <1>2, <2>2 DEF RestartService
    <3>2. MachineInv'
      BY <3>1, ForgottenInv
    <3> QED BY <3>1, <3>2 DEF Change, Forgotten, MachineInv, MachineTypes
  <2> QED BY <2>1, <2>2
<1>3. CASE StopService(s)
  <2>1. MachineInv'
    BY <1>3, ForgottenInv DEF StopService
  <2> QED BY <1>3, <2>1 DEF StopService, Change, Forgotten, MachineInv, MachineTypes
<1>4. CASE Hang(s)
  <2>1. Alive(s) /\ Change(s, "hung")
    BY <1>4 DEF Hang, Alive
  <2>2. MachineInv'
    BY <1>4, <2>1, SameProcess DEF Hang, Phases
  <2> QED BY <1>4, <2>2 DEF Hang, Change, MachineInv, MachineTypes
<1>5. CASE Recover(s)
  <2>1. Alive(s) /\ Change(s, "up")
    BY <1>5 DEF Recover, Alive
  <2>2. MachineInv'
    BY <1>5, <2>1, SameProcess DEF Recover, Phases
  <2> QED BY <1>5, <2>2 DEF Recover, Change, MachineInv, MachineTypes
<1> QED BY <1>1, <1>2, <1>3, <1>4, <1>5

\* After a boot, whether it is the first.
LEMMA BootInv ==
  ASSUME env' = env, dir' = dir, dir \in [Names -> Files \cup {None}],
         phase' = [s \in Services |-> IF MayStart(s) THEN "up" ELSE "down"],
         asks' = [s \in Own |-> OwnStart(s).asks],
         copies' = [a \in Asked |-> IF MayStart("hajime_console")
                                    THEN TryGet(dir, TokenFile(a)) ELSE None],
         used' = FALSE,
         edited' = [s \in Own |-> {}],
         MachineTypes
  PROVE  MachineInv'
<1>1. phase' \in [Services -> Phases]
  BY DEF Phases
<1>2. asks' \in [Own -> Values]
  BY OwnStarts
<1>3. copies' \in [Asked -> Values]
  <2>1. None \in Values
    BY DEF Values
  <2>2. \A a \in Asked : TryGet(dir, TokenFile(a)) \in Values
    BY AskedOwn, ReadTypes
  <2> QED BY <2>1, <2>2
<1>4. MachineTypes'
  BY <1>1, <1>2, <1>3 DEF MachineTypes
<1>5. \A s \in Own : Alive(s)' => OwnStart(s).up
  BY AskedOwn DEF Alive, MayStart
<1>6. \A s \in Own : Demanded(s)' = Demanded(s) /\ Bind(s)' = Bind(s)
  BY SameFiles
<1>7. \A a : TryGet(dir, a)' = TryGet(dir, a)
  BY SameFiles
<1>8. ASSUME NEW s \in Own
      PROVE  /\ Alive(s)' /\ Bind(s)' # "loopback" => asks'[s] # None
             /\ s \in Asked /\ Alive(s)' => asks'[s] = Demanded(s)'
  BY <1>5, <1>6, OwnStarts
<1>9. ASSUME NEW a \in Asked, Alive("hajime_console")'
      PROVE  copies'[a] = TryGet(dir, TokenFile(a))'
  <2>1. MayStart("hajime_console")
    BY <1>5, <1>9, AskedOwn DEF MayStart
  <2> QED BY <1>7, <2>1
<1>10. TokenInv'
  BY <1>8, <1>9, AskedOwn DEF TokenInv
<1> QED BY <1>4, <1>10 DEF MachineInv

LEMMA InitMachine == MachineInit => MachineInv
<1> SUFFICES ASSUME MachineInit PROVE MachineInv
  OBVIOUS
<1>1. dir \in [Names -> Files \cup {None}]
  BY MachineAssumption DEF MachineInit
<1>2. phase \in [Services -> Phases]
  BY DEF MachineInit, Phases
<1>3. None \in Values
  BY DEF Values
<1>4. \A s \in Own : OwnStart(s).asks \in Values
  <2> TAKE s \in Own
  <2>1. TokenFile(s) \in Counted
    BY AskedOwn
  <2> QED BY <1>1, <1>3, <2>1
          DEF OwnStart, StartWorkflow, StartWa, StartGuarded, Listens, Exits, NewAuth,
              TryGet, Secret, Values, Files, Counted
<1>5. MachineTypes
  <2>1. \A a \in Asked : TryGet(dir, TokenFile(a)) \in Values
    BY <1>1, <1>3, AskedOwn DEF TryGet, Secret, Values, Files, Counted
  <2> QED BY <1>1, <1>2, <1>3, <1>4, <2>1 DEF MachineInit, MachineTypes
<1>6. \A s \in Own : Alive(s) => OwnStart(s).up
  BY AskedOwn DEF MachineInit, Alive, MayStart
<1>7. ASSUME NEW s \in Own
      PROVE  /\ Alive(s) /\ Bind(s) # "loopback" => asks[s] # None
             /\ s \in Asked /\ Alive(s) => asks[s] = Demanded(s)
  BY <1>5, <1>6, OwnStarts DEF MachineInit
<1>8. ASSUME NEW a \in Asked, Alive("hajime_console")
      PROVE  copies[a] = TryGet(dir, TokenFile(a))
  BY <1>8, AskedOwn DEF MachineInit, Alive
<1>9. TokenInv
  BY <1>7, <1>8, AskedOwn DEF TokenInv
<1> QED BY <1>5, <1>9 DEF MachineInv

LEMMA EditInv ==
  ASSUME MachineInv, NEW e \in Edits, Edit(e[1], e[2])
  PROVE  /\ MachineInv'
         /\ phase' = phase /\ used' = used
         /\ \A s \in Own : edited[s] \subseteq edited'[s]
<1> DEFINE f == e[1]
           v == e[2]
<1>1. f \in Names /\ v \in Files \cup {None}
  BY MachineAssumption
<1>2. /\ dir' = [dir EXCEPT ![f] = v]
      /\ edited' = [s \in Own |-> edited[s] \cup {f}]
      /\ UNCHANGED <<phase, env, asks, copies, used>>
  BY DEF Edit
<1> HIDE DEF f, v
<1>3. MachineTypes'
  BY <1>1, <1>2 DEF MachineInv, MachineTypes
<1>4. \A m \in Names : m # f => dir'[m] = dir[m]
  BY <1>1, <1>2 DEF MachineInv, MachineTypes
<1>5. \A s \in Own : TokenFile(s) # f => Demanded(s)' = Demanded(s)
  BY <1>4, AskedOwn DEF Demanded, TryGet
<1>6. \A s \in Own : TokenFile(s) # f => TryGet(dir, TokenFile(s))' = TryGet(dir, TokenFile(s))
  BY <1>4, AskedOwn DEF TryGet
<1>7. \A s \in Own : Bind(s)' = Bind(s) /\ Alive(s)' = Alive(s)
  BY <1>2 DEF Bind, Alive
<1>8. \A s \in Own : \A m : m \notin edited'[s] => m # f /\ m \notin edited[s]
  BY <1>2
<1>9. TokenInv'
  <2>1. \A s \in Own : Alive(s)' /\ Bind(s)' # "loopback" => asks'[s] # None
    BY <1>2, <1>7 DEF MachineInv, TokenInv
  <2>2. \A s \in Asked : Alive(s)' /\ TokenFile(s) \notin edited'[s] => asks'[s] = Demanded(s)'
    BY <1>2, <1>5, <1>7, <1>8, AskedOwn DEF MachineInv, TokenInv
  <2>3. \A s \in Asked :
          Alive("hajime_console")' /\ TokenFile(s) \notin edited'["hajime_console"] =>
            copies'[s] = TryGet(dir, TokenFile(s))'
    BY <1>2, <1>6, <1>7, <1>8, AskedOwn DEF MachineInv, TokenInv
  <2> QED BY <2>1, <2>2, <2>3 DEF TokenInv
<1> QED BY <1>2, <1>3, <1>9 DEF MachineInv

LEMMA QuietInv ==
  ASSUME MachineInv, UNCHANGED <<phase, env, dir, asks, copies, edited>>, used' \in BOOLEAN
  PROVE  MachineInv'
<1>1. \A s : Demanded(s)' = Demanded(s) /\ Bind(s)' = Bind(s) /\ Alive(s)' = Alive(s)
  BY SameFiles DEF Alive
<1>2. \A a : TryGet(dir, a)' = TryGet(dir, a)
  BY SameFiles
<1> QED BY <1>1, <1>2 DEF MachineInv, MachineTypes, TokenInv

\* The machine of the console's behaviours.
LEMMA MachineStep ==
  ASSUME MachineInv, [ConsoleNext]_allVars
  PROVE  MachineInv'
<1>1. CASE UNCHANGED machineVars
  BY <1>1, QuietInv DEF machineVars, MachineInv, MachineTypes
<1>2. CASE Services_Change
  BY <1>2, ServiceStep DEF Services_Change
<1>3. CASE Outage
  BY <1>3, BootInv DEF Outage, MachineInv, MachineTypes
<1>4. CASE Aside
  <2>1. CASE UseTool
    BY <2>1, QuietInv DEF UseTool
  <2>2. CASE \E e \in Edits : Edit(e[1], e[2])
    BY <2>2, EditInv
  <2> QED BY <1>4, <2>1, <2>2 DEF Aside
<1> QED BY <1>1, <1>2, <1>3, <1>4
        DEF ConsoleNext, allVars, Begin, PutAway, Poll, FetchHistory, FetchAudit,
            CheckBackup, ChatArrives, ChatConnects, ChatEnds, Notes, Stays, Runs

LEMMA SpecMachineInv == ConsoleSpec => []MachineInv
<1>1. ConsoleInit => MachineInv
  BY InitMachine DEF ConsoleInit
<1> QED BY <1>1, MachineStep, PTL DEF ConsoleSpec

LEMMA Unpadded ==
  ASSUME NEW T, NEW v \in [token : T, padded : BOOLEAN]
  PROVE  [v EXCEPT !.padded = FALSE] = [token |-> v.token, padded |-> FALSE]
<1> DEFINE w == [v EXCEPT !.padded = FALSE]
           x == [token |-> v.token, padded |-> FALSE]
<1>1. w \in [token : T, padded : BOOLEAN] /\ x \in [token : T, padded : BOOLEAN]
  OBVIOUS
<1>2. w.token = x.token /\ w.padded = FALSE /\ x.padded = FALSE
  OBVIOUS
<1> HIDE DEF w, x
<1>3. w = x
  BY <1>1, <1>2
<1> QED BY <1>3 DEF w, x

\* A request with what a service demands is let in by it, padding or not.
LEMMA DemandedIsAccepted ==
  ASSUME MachineInv, NEW s \in Asked, asks[s] = Demanded(s)
  PROVE  Admits(s, Presented(TryGet(dir, TokenFile(s))))
<1> DEFINE held == dir[TokenFile(s)]
<1>1. TokenFile(s) \in Counted /\ s # "hajime_wa"
  BY AskedOwn DEF Asked
<1>2. CASE held = None
  BY <1>1, <1>2 DEF Demanded, TryGet, NewAuth, Admits, Accepts
<1>3. CASE held # None
  <2>1. TryGet(dir, TokenFile(s)) = Secret(held)
    BY <1>1, <1>3 DEF TryGet
  <2>2. Secret(held) = [token |-> held.holds, padded |-> held.padded]
    BY DEF Secret
  <2>3. [Secret(held) EXCEPT !.padded = FALSE] = [token |-> Secret(held).token, padded |-> FALSE]
    <3>1. Secret(held) \in [token : {held.holds}, padded : {held.padded}]
      BY <2>2
    <3>2. held.padded \in BOOLEAN
      <4>1. TokenFile(s) \in Names
        BY AskedOwn
      <4> QED BY <1>3, <4>1 DEF MachineInv, MachineTypes, Files
    <3>3. Secret(held) \in [token : {held.holds}, padded : BOOLEAN]
      BY <3>1, <3>2
    <3> QED BY <3>3, Unpadded
  <2>4. NewAuth(Secret(held)) = Presented(Secret(held))
    BY <2>3 DEF NewAuth, Presented
  <2> QED BY <1>1, <1>3, <2>1, <2>4 DEF Demanded, Admits, Accepts
<1> QED BY <1>2, <1>3

\* No edit and no restart opens a service that listens beyond loopback, and the
\* console is let in wherever its copy of the token is what the files hold.
LEMMA TokensFollow == MachineInv => TokensHold
<1> SUFFICES ASSUME MachineInv PROVE TokensHold
  OBVIOUS
<1>1. ASSUME NEW s \in Own, Alive(s), Bind(s) # "loopback"
      PROVE  ~Admits(s, None)
  BY <1>1 DEF MachineInv, TokenInv, Admits, Accepts, Authorised
<1>2. ASSUME NEW s \in Asked, Alive(s), Alive("hajime_console"),
             TokenFile(s) \notin edited[s] \cup edited["hajime_console"]
      PROVE  Admits(s, Presented(copies[s]))
  BY <1>2, DemandedIsAccepted DEF MachineInv, TokenInv
<1> QED BY <1>1, <1>2 DEF TokensHold, Bind

\* The tokens of the services and of the console, over edits and restarts.
THEOREM TokensAlwaysHold == ConsoleSpec => []TokensHold
BY SpecMachineInv, TokensFollow, PTL

----------------------------------------------------------------------------
(* The looks *)

\* All that a look can note.
Remarks ==
  {"unseen", "up", "unhealthy", "down", "unknown", "started, not listening",
   "listening, not via rc", "pass", "warn", "fail", "unchecked",
   "unreachable", "error", "rows", "no runs", "no tools", "missing", "fresh", "old",
   "none", "200", "400", "401", "404", "500", "501", "502", "503", "504"}

LookTypes ==
  /\ look \in [who : {"nobody", "console", "status", "check", "chat"}, at : Nat \ {0},
               seen : [Services -> Remarks], runs : Remarks, tools : Remarks, aside : Remarks]
  /\ changed \in SUBSET Services

\* What a look has seen of a service, it still would, if the service has not
\* changed; and who makes the page is there.
SeenInv ==
  /\ look.who \in {"console", "status", "check"} =>
       \A i \in 1..n : i < look.at =>
         /\ StartOrder[i] \notin changed =>
              look.seen[StartOrder[i]] \in Seen(look.who, StartOrder[i])
         /\ look.who = "check" /\ look.seen[StartOrder[i]] = "fail" =>
              StartOrder[i] \in Essential \cap Ported
  /\ look.who = "console" => "hajime_console" \notin changed /\ Answers("hajime_console")
  /\ look.who = "check" /\ look.at > n + 1 => look.aside \in {"missing", "fresh", "old"}

\* A connection stands while both of its processes do.
LinkInv ==
  /\ look.who # "chat" => link = "none"
  /\ look.who = "chat" /\ look.at = 2 => link \in {"taken", "cut"}
  /\ look.who = "chat" /\ look.at = 3 => link \in {"held", "broken", "cut"}
  /\ link = "held" => BackendListens
  /\ link = "broken" => Backend \in changed
  /\ link = "cut" => "hajime_ai" \in changed

\* What an answer to a chat says of its cause.
CauseOf(code) ==
  /\ code = "503" => Backend \in changed \/ ~BackendListens
  /\ code = "504" => link = "held" /\ BackendListens /\ phase[Backend] # "loading"
  /\ code = "200" =>
       Backend \in changed \/ (BackendListens /\ phase[Backend] \notin {"hung", "loading"})
  /\ code = "502" => Backend \in changed \/ BackendListens
  /\ code \in {"404", "500"} =>
       Backend \in changed \/ (BackendListens /\ phase[Backend] # "loading")
  /\ code = "401" => "ai_token" \in edited["hajime_ai"]
  /\ code = "none" => "hajime_ai" \in changed \/ ~Answers("hajime_ai")
  /\ code \in {"400", "501"} => Answers("hajime_ai")
  /\ code \in {"none", "200", "400", "401", "404", "500", "501", "502", "503", "504"}

ChatInv == Done("chat") => CauseOf(look.aside)

LookInv == LookTypes /\ SeenInv /\ LinkInv /\ ChatInv

LEMMA Table ==
  /\ n \in Nat /\ \A i \in 1..n : StartOrder[i] \in Services
  /\ \A s \in Services : \E i \in 1..n : StartOrder[i] = s
  /\ \A i, j \in 1..n : StartOrder[i] = StartOrder[j] => i = j
<1>1. n \in Nat /\ DOMAIN StartOrder = 1..n
  BY WorldAssumption DEF n
<1> QED BY <1>1, WorldAssumption DEF Services, Range, IsInjective

\* The looks by themselves change nothing but what is looked at.
Looking ==
  \/ \E who \in {"console", "status", "check", "chat"} : Begin(who)
  \/ PutAway \/ Poll \/ FetchHistory \/ FetchAudit \/ CheckBackup
  \/ ChatArrives \/ ChatConnects \/ ChatEnds

Meanwhile == Services_Change \/ Outage \/ Runs \/ Aside

\* What happens meanwhile happens to no look that is over, and ends the look or
\* is noticed by it.
LEMMA MeanwhileStep ==
  ASSUME MachineInv, LookTypes, Meanwhile
  PROVE  /\ ~Over
         /\ \/ look' = NoLook /\ changed' = {} /\ before' = NothingYet
            \/ /\ look' = look /\ before' = before /\ changed \subseteq changed'
               /\ changed' \in SUBSET Services
               /\ \A s \in Services \ changed' : phase'[s] = phase[s]
               /\ \A s \in Own \ changed' : edited[s] \subseteq edited'[s]
               /\ look.who = "console" =>
                    ("hajime_console" \in changed' => "hajime_console" \in changed)
               /\ "hajime_ai" \notin changed' => used' = used \/ used' = TRUE
<1>1. CASE Services_Change
  <2>1. PICK s \in Services :
          /\ \/ StartService(s) \/ RestartService(s) \/ StopService(s)
             \/ Hang(s) \/ Recover(s)
          /\ Noticed({s})
    BY <1>1 DEF Services_Change
  <2>2. /\ \A t \in Services \ {s} : phase'[t] = phase[t]
        /\ \A t \in Own \ {s} : edited'[t] = edited[t]
        /\ s # "hajime_ai" => used' = used
    BY <2>1, ServiceStep
  <2> QED BY <1>1, <2>1, <2>2 DEF Services_Change, Room, Noticed, LookTypes
<1>2. CASE Outage
  <2>1. "hajime_console" \in Services /\ "hajime_ai" \in Services /\ Own \subseteq Services
    BY AskedOwn DEF Asked
  <2>2. \/ look' = NoLook /\ changed' = {} /\ before' = NothingYet
        \/ /\ look' = look /\ before' = before /\ look.who # "console"
           /\ changed' = changed \cup Services
    BY <1>2, <2>1 DEF Outage, Noticed
  <2> QED BY <1>2, <2>1, <2>2 DEF Outage, Room, LookTypes
<1>3. CASE Runs
  BY <1>3 DEF Runs, Read, consoleVars, machineVars, LookTypes
<1>4. CASE Aside
  <2>1. /\ ~Over /\ UNCHANGED consoleVars
        /\ UseTool \/ \E e \in Edits : Edit(e[1], e[2])
    BY <1>4 DEF Aside, Read, Room
  <2>2. CASE UseTool
    BY <2>1, <2>2 DEF UseTool, consoleVars, LookTypes
  <2>3. CASE \E e \in Edits : Edit(e[1], e[2])
    <3>1. phase' = phase /\ used' = used /\ \A s \in Own : edited[s] \subseteq edited'[s]
      BY <2>3, EditInv
    <3> QED BY <2>1, <3>1 DEF consoleVars, LookTypes
  <2> QED BY <2>1, <2>2, <2>3
<1> QED BY <1>1, <1>2, <1>3, <1>4 DEF Meanwhile

LEMMA NoLookInv ==
  ASSUME look' = NoLook, changed' = {}
  PROVE  LookTypes' /\ SeenInv' /\ ChatInv'
<1>1. LookTypes'
  <2>1. "unseen" \in Remarks
    BY DEF Remarks
  <2>2. 1 \in Nat \ {0}
    OBVIOUS
  <2>3. changed' \in SUBSET Services
    OBVIOUS
  <2> QED BY <2>1, <2>2, <2>3 DEF NoLook, LookTypes
<1>2. look'.who = "nobody"
  BY DEF NoLook
<1> QED BY <1>1, <1>2 DEF SeenInv, ChatInv, Done

LEMMA SeenSame ==
  ASSUME NEW s \in Services, phase'[s] = phase[s], NEW who
  PROVE  Seen(who, s)' = Seen(who, s)
BY DEF Seen, Reach, Row, SelfCheck, ServiceCheck, RcStatus, PortOpen, Answers

\* A connection breaks with llama.cpp, and is cut with hajime-ai.
LEMMA MeanwhileLink ==
  ASSUME MachineInv, LookInv, Meanwhile
  PROVE  LinkInv'
<1>1. \/ look' = NoLook /\ link = "none"
      \/ look' = look /\ changed \subseteq changed'
  <2>1. \/ look' = NoLook /\ look.who # "chat"
        \/ look' = look /\ changed \subseteq changed'
    <3>1. ASSUME NEW S, Noticed(S)
          PROVE  \/ look' = NoLook /\ look.who # "chat"
                 \/ look' = look /\ changed \subseteq changed'
      BY <3>1 DEF Noticed
    <3> QED BY <3>1 DEF Meanwhile, Services_Change, Outage, Runs, Aside, consoleVars
  <2> QED BY <2>1 DEF LookInv, LinkInv
<1>2. ASSUME UNCHANGED link, BackendListens => BackendListens'
      PROVE  LinkInv'
  BY <1>1, <1>2 DEF LookInv, LinkInv, NoLook
<1>3. ASSUME NEW S, Noticed(S), Hear(S),
             Backend \notin S => BackendListens' = BackendListens
      PROVE  LinkInv'
  <2>1. look' = look => changed' = changed \cup S \/ link = "none"
    BY <1>3 DEF Noticed, LookInv, LinkInv
  <2>2. CASE link = "none"
    <3>1. link' = "none"
      BY <1>3, <2>2 DEF Hear
    <3> QED BY <1>1, <2>2, <3>1 DEF LookInv, LinkInv, NoLook
  <2>3. CASE link # "none" /\ "hajime_ai" \in S
    <3>1. link' = "cut" /\ look' = look /\ changed' = changed \cup S
      BY <1>1, <1>3, <2>1, <2>3 DEF Hear
    <3> QED BY <2>3, <3>1 DEF LookInv, LinkInv
  <2>4. CASE link = "held" /\ Backend \in S /\ "hajime_ai" \notin S
    <3>1. link' = "broken" /\ look' = look /\ changed' = changed \cup S
      BY <1>1, <1>3, <2>1, <2>4 DEF Hear
    <3> QED BY <2>4, <3>1 DEF LookInv, LinkInv
  <2>5. CASE link # "none" /\ "hajime_ai" \notin S /\ ~(link = "held" /\ Backend \in S)
    <3>1. link' = link
      BY <1>3, <2>5 DEF Hear
    <3> QED BY <1>1, <1>3, <2>5, <3>1 DEF LookInv, LinkInv
  <2> QED BY <2>2, <2>3, <2>4, <2>5
<1>4. phase \in [Services -> Phases] /\ Backend \in Services
  BY ConsoleAssumption DEF Backend, MachineInv, MachineTypes
<1>5. CASE Services_Change
  <2>1. PICK s \in Services :
          /\ \/ (StartService(s) \/ Hang(s) \/ Recover(s)) /\ UNCHANGED <<vars, link>>
             \/ (RestartService(s) \/ StopService(s)) /\ Hear({s})
          /\ Noticed({s})
    BY <1>5 DEF Services_Change
  <2>2. CASE (StartService(s) \/ Hang(s) \/ Recover(s)) /\ UNCHANGED <<vars, link>>
    <3>1. CASE StartService(s)
      <4>1. PICK p : Change(s, p) /\ phase[s] = "down"
        BY <3>1 DEF StartService
      <4>2. BackendListens => BackendListens'
        BY <1>4, <4>1 DEF Change, BackendListens
      <4> QED BY <1>2, <2>2, <4>2
    <3>2. CASE Hang(s) \/ Recover(s)
      <4>1. Change(s, "hung") \/ Change(s, "up")
        BY <3>2 DEF Hang, Recover
      <4>2. BackendListens => BackendListens'
        BY <1>4, <4>1 DEF Change, BackendListens
      <4> QED BY <1>2, <2>2, <4>2
    <3> QED BY <2>2, <3>1, <3>2
  <2>3. CASE (RestartService(s) \/ StopService(s)) /\ Hear({s})
    <3>1. \A t \in Services \ {s} : phase'[t] = phase[t]
      BY <2>3, ServiceStep
    <3>2. Backend \notin {s} => BackendListens' = BackendListens
      BY <1>4, <3>1 DEF BackendListens
    <3> QED BY <1>3, <2>1, <2>3, <3>2
  <2> QED BY <2>1, <2>2, <2>3
<1>6. CASE Outage
  <2>1. Noticed(Services) /\ Hear(Services)
    BY <1>6 DEF Outage
  <2> QED BY <1>3, <1>4, <2>1
<1>7. CASE Runs \/ Aside
  <2>1. UNCHANGED link /\ UNCHANGED phase
    BY <1>7 DEF Runs, Aside, consoleVars, machineVars, UseTool, Edit
  <2> QED BY <1>2, <2>1 DEF BackendListens
<1> QED BY <1>5, <1>6, <1>7 DEF Meanwhile

LEMMA MeanwhileInv ==
  ASSUME MachineInv, LookInv, Meanwhile
  PROVE  LookInv'
<1>0. LinkInv'
  BY MeanwhileLink
<1>1. CASE look' = NoLook /\ changed' = {}
  BY <1>0, <1>1, NoLookInv DEF LookInv
<1>2. CASE /\ look' = look /\ changed \subseteq changed'
           /\ changed' \in SUBSET Services
           /\ \A s \in Services \ changed' : phase'[s] = phase[s]
           /\ look.who = "console" =>
                ("hajime_console" \in changed' => "hajime_console" \in changed)
           /\ ~Over
  <2>1. LookTypes'
    BY <1>2 DEF LookInv, LookTypes
  <2>2. ASSUME look.who \in {"console", "status", "check"}, NEW i \in 1..n, i < look.at
        PROVE  /\ StartOrder[i] \notin changed' =>
                    look.seen[StartOrder[i]] \in Seen(look.who, StartOrder[i])'
               /\ look.who = "check" /\ look.seen[StartOrder[i]] = "fail" =>
                    StartOrder[i] \in Essential \cap Ported
    <3>0. PICK who : who = look.who
      OBVIOUS
    <3>1. PICK s \in Services : s = StartOrder[i] /\ who = look.who
      BY <3>0, Table
    <3>2. /\ s \notin changed => look.seen[s] \in Seen(who, s)
          /\ who = "check" /\ look.seen[s] = "fail" => s \in Essential \cap Ported
      BY <2>2, <3>1 DEF LookInv, SeenInv
    <3>3. s \notin changed' => Seen(who, s)' = Seen(who, s)
      BY <1>2, SeenSame
    <3>4. Seen(look.who, StartOrder[i])' = Seen(who, s)'
      BY <1>2, <3>1
    <3> QED BY <1>2, <3>1, <3>2, <3>3, <3>4
  <2>3. look.who = "console" => "hajime_console" \notin changed' /\ Answers("hajime_console")'
    <3>1. "hajime_console" \in Services
      BY AskedOwn
    <3> QED BY <1>2, <3>1 DEF LookInv, SeenInv, Answers
  <2>4. SeenInv'
    BY <1>2, <2>2, <2>3 DEF LookInv, SeenInv
  <2>5. ~Done("chat")'
    BY <1>2 DEF Done, Over
  <2> QED BY <1>0, <2>1, <2>4, <2>5 DEF LookInv, ChatInv
<1> QED BY <1>1, <1>2, MeanwhileStep DEF LookInv

\* What each of them notes is a remark.
LEMMA Remarked ==
  /\ \A s, who : who \in {"console", "status", "check"} => Seen(who, s) \subseteq Remarks
  /\ HistoryPanel \in Remarks /\ AuditPanel \in Remarks
<1>1. \A s : Reach(s) \subseteq Remarks /\ Row(s) \in Remarks /\ SelfCheck(s) \in Remarks
  <2> TAKE s
  <2>1. Reach(s) \subseteq Remarks
    BY DEF Reach, Remarks
  <2>2. Row(s) \in Remarks
    <3>1. Row(s) \in {"up", "started, not listening", "listening, not via rc", "down"}
      BY DEF Row, PortOpen
    <3> QED BY <3>1 DEF Remarks
  <2>3. SelfCheck(s) \in Remarks
    BY DEF SelfCheck, ServiceCheck, Remarks
  <2> QED BY <2>1, <2>2, <2>3
<1>2. \A s, who : who \in {"console", "status", "check"} => Seen(who, s) \subseteq Remarks
  BY <1>1 DEF Seen
<1>3. \A s : Fetched(s, "rows") \in Remarks /\ Fetched(s, "no runs") \in Remarks
             /\ Fetched(s, "no tools") \in Remarks
  BY DEF Fetched, Remarks
<1> QED BY <1>2, <1>3 DEF HistoryPanel, AuditPanel

LEMMA PollStep ==
  ASSUME MachineInv, LookInv, Poll
  PROVE  /\ LookInv'
         /\ look'.who = look.who /\ look'.at = look.at + 1
         /\ look'.runs = look.runs /\ look'.tools = look.tools
<1>1. PICK who \in {"console", "status", "check"} : \E at \in 1..n : \E s \in Services :
        who = look.who /\ at = look.at /\ s = StartOrder[at]
  BY Table DEF Poll, LookInv, LookTypes
<1>2. PICK at \in 1..n : \E s \in Services :
        who = look.who /\ at = look.at /\ s = StartOrder[at]
  BY <1>1
<1>3. PICK s \in Services : who = look.who /\ at = look.at /\ s = StartOrder[at]
  BY <1>2
<1>4. PICK v \in Seen(who, s) : look' = [look EXCEPT !.at = @ + 1, !.seen[s] = v]
  BY <1>3 DEF Poll
<1>5. v \in Remarks
  BY <1>4, Remarked
<1>6. /\ look'.who = who /\ look'.at = at + 1
      /\ look'.seen = [look.seen EXCEPT ![s] = v]
      /\ look'.runs = look.runs /\ look'.tools = look.tools /\ look'.aside = look.aside
  BY <1>3, <1>4 DEF LookInv, LookTypes
<1>7. UNCHANGED <<machineVars, link, changed, before>>
  BY DEF Poll, Notes, Stays
<1>8. LookTypes'
  <2>1. look'.seen \in [Services -> Remarks]
    BY <1>5, <1>6 DEF LookInv, LookTypes
  <2>2. at + 1 \in Nat \ {0}
    BY <1>3, Table
  <2> QED BY <1>3, <1>4, <1>7, <2>1, <2>2 DEF LookInv, LookTypes
<1>9. \A w, t : Seen(w, t)' = Seen(w, t)
  BY <1>7 DEF machineVars, Seen, Reach, Row, SelfCheck, ServiceCheck, RcStatus, PortOpen,
              Answers
<1>10. v = "fail" /\ who = "check" => s \in Essential \cap Ported
  BY <1>3, <1>4, WorldAssumption DEF Seen, SelfCheck, ServiceCheck
<1>11. ASSUME NEW i \in 1..n, i < at + 1
      PROVE  /\ StartOrder[i] \notin changed' =>
                  look'.seen[StartOrder[i]] \in Seen(who, StartOrder[i])'
             /\ who = "check" /\ look'.seen[StartOrder[i]] = "fail" =>
                  StartOrder[i] \in Essential \cap Ported
  <2>1. CASE i = at
    <3>1. look'.seen[s] = v
      BY <1>6 DEF LookInv, LookTypes
    <3> QED BY <1>3, <1>4, <1>9, <1>10, <2>1, <3>1
  <2>2. CASE i # at
    <3>1. i < at /\ StartOrder[i] \in Services /\ StartOrder[i] # s
      BY <1>3, <1>11, <2>2, Table
    <3>2. look'.seen[StartOrder[i]] = look.seen[StartOrder[i]]
      BY <1>6, <3>1 DEF LookInv, LookTypes
    <3> QED BY <1>3, <1>7, <1>9, <3>1, <3>2 DEF LookInv, SeenInv
  <2> QED BY <2>1, <2>2
<1>12. SeenInv'
  <2>1. ~(at + 1 > n + 1)
    BY <1>3, Table
  <2>2. \A t : Seen(look.who, t)' = Seen(who, t)'
    BY <1>6
  <2>3. look.who = "console" => "hajime_console" \notin changed' /\ Answers("hajime_console")'
    BY <1>7 DEF machineVars, LookInv, SeenInv, Answers
  <2> QED BY <1>3, <1>6, <1>11, <2>1, <2>2, <2>3 DEF SeenInv
<1>13. ChatInv' /\ LinkInv'
  BY <1>3, <1>6, <1>7 DEF LookInv, ChatInv, LinkInv, Done
<1> QED BY <1>3, <1>6, <1>8, <1>12, <1>13 DEF LookInv

\* A look that notes something else goes on.
LEMMA Noting ==
  ASSUME LookTypes, NEW at \in Nat \ {0}, NEW v \in Remarks, UNCHANGED changed,
         \/ look' = [look EXCEPT !.at = at]
         \/ look' = [look EXCEPT !.at = at, !.runs = v]
         \/ look' = [look EXCEPT !.at = at, !.tools = v]
         \/ look' = [look EXCEPT !.at = at, !.aside = v]
  PROVE  /\ LookTypes'
         /\ look'.who = look.who /\ look'.at = at /\ look'.seen = look.seen
BY DEF LookTypes

\* Nothing that was seen is forgotten, until the look is put away.
LEMMA GoingOn ==
  ASSUME LookInv, LookTypes', UNCHANGED <<machineVars, changed>>,
         look'.who = look.who, look'.seen = look.seen,
         look'.at = look.at + 1 \/ look.who = "chat",
         look.who \in {"console", "status", "check"} => look.at > n,
         look'.who = "check" /\ look'.at > n + 1 => look'.aside \in {"missing", "fresh", "old"}
  PROVE  SeenInv'
<1>1. PICK who : who = look.who
  OBVIOUS
<1>2. \A t : Seen(who, t)' = Seen(who, t)
  BY DEF machineVars, Seen, Reach, Row, SelfCheck, ServiceCheck, RcStatus, PortOpen, Answers
<1>3. \A t : Seen(look.who, t)' = Seen(look.who, t)
  BY <1>1, <1>2
<1>4. look.at \in Nat /\ n \in Nat
  BY Table DEF LookInv, LookTypes
<1>5. look.who \in {"console", "status", "check"} => \A i \in 1..n : i < look.at
  BY <1>4
<1>6. Answers("hajime_console")' = Answers("hajime_console")
  BY DEF machineVars, Answers
<1> QED BY <1>3, <1>5, <1>6 DEF LookInv, SeenInv

LEMMA NotesInv ==
  ASSUME MachineInv, LookInv, FetchHistory \/ FetchAudit \/ CheckBackup
  PROVE  LookInv'
<1>1. look.at \in Nat \ {0} /\ look.at + 1 \in Nat \ {0} /\ n \in Nat
  BY Table DEF LookInv, LookTypes
<1>2. UNCHANGED <<machineVars, link, changed>>
  BY DEF FetchHistory, FetchAudit, CheckBackup, Notes, Stays
<1>9. look'.who = look.who /\ look.who # "chat" => LinkInv'
  BY <1>2 DEF LookInv, LinkInv
<1>3. CASE FetchHistory
  <2>1. HistoryPanel \in Remarks
    BY Remarked
  <2>2. /\ LookTypes' /\ look'.who = look.who /\ look'.at = look.at + 1
        /\ look'.seen = look.seen
    BY <1>1, <1>2, <1>3, <2>1, Noting DEF FetchHistory, LookInv
  <2>3. look.who = "console" /\ look.at > n
    BY <1>1, <1>3 DEF FetchHistory
  <2>4. SeenInv'
    BY <1>2, <2>2, <2>3, GoingOn
  <2> QED BY <1>9, <2>2, <2>3, <2>4 DEF LookInv, ChatInv, Done
<1>4. CASE FetchAudit
  <2>1. AuditPanel \in Remarks
    BY Remarked
  <2>2. /\ LookTypes' /\ look'.who = look.who /\ look'.at = look.at + 1
        /\ look'.seen = look.seen
    BY <1>1, <1>2, <1>4, <2>1, Noting DEF FetchAudit, LookInv
  <2>3. look.who = "console" /\ look.at > n
    BY <1>1, <1>4 DEF FetchAudit
  <2>4. SeenInv'
    BY <1>2, <2>2, <2>3, GoingOn
  <2> QED BY <1>9, <2>2, <2>3, <2>4 DEF LookInv, ChatInv, Done
<1>5. CASE CheckBackup
  <2>1. PICK marker \in {"missing", "fresh", "old"} :
          look' = [look EXCEPT !.at = @ + 1, !.aside = marker]
    BY <1>5 DEF CheckBackup
  <2>2. marker \in Remarks
    BY DEF Remarks
  <2>3. /\ LookTypes' /\ look'.who = look.who /\ look'.at = look.at + 1
        /\ look'.seen = look.seen
    BY <1>1, <1>2, <2>1, <2>2, Noting DEF LookInv
  <2>4. look.who = "check" /\ look.at > n
    BY <1>1, <1>5 DEF CheckBackup
  <2>5. look'.aside = marker
    BY <2>1 DEF LookInv, LookTypes
  <2>6. SeenInv'
    BY <1>2, <2>3, <2>4, <2>5, GoingOn
  <2> QED BY <1>9, <2>3, <2>4, <2>6 DEF LookInv, ChatInv, Done
<1> QED BY <1>3, <1>4, <1>5

LEMMA BeginInv ==
  ASSUME LookInv, \E who \in {"console", "status", "check", "chat"} : Begin(who)
  PROVE  LookInv'
<1>1. PICK who \in {"console", "status", "check", "chat"} : Begin(who)
  OBVIOUS
<1>2. /\ look' = [NoLook EXCEPT !.who = who] /\ changed' = {}
      /\ who = "console" => Answers("hajime_console")
      /\ link' = "none" /\ UNCHANGED machineVars
  BY <1>1 DEF Begin
<1>3. "unseen" \in Remarks
  BY DEF Remarks
<1>4. LookTypes' /\ look'.who = who /\ look'.at = 1
  BY <1>2, <1>3 DEF LookTypes, NoLook
<1>5. \A i \in 1..n : ~(i < 1)
  BY Table
<1>6. ~(1 > n + 1)
  BY Table
<1>7. SeenInv'
  BY <1>2, <1>4, <1>5, <1>6 DEF SeenInv, machineVars, Answers
<1>8. ~Done("chat")'
  BY <1>4 DEF Done, Last
<1>9. LinkInv'
  BY <1>2, <1>4 DEF LinkInv
<1> QED BY <1>4, <1>7, <1>8, <1>9 DEF LookInv, ChatInv

\* The answer to a chat, from what there is as it is given.
LEMMA ChatAnswered ==
  ASSUME MachineInv, LookInv, look.who = "chat", Stays,
         NEW v \in Remarks, ChatSays(v), CauseOf(v)
  PROVE  LookInv'
<1>0. 4 \in Nat \ {0} /\ 4 # 2 /\ 4 # 3
  OBVIOUS
<1>1. /\ UNCHANGED <<machineVars, link, changed>>
      /\ look' = [look EXCEPT !.at = 4, !.aside = v]
  BY DEF ChatSays, Stays
<1>2. LookTypes' /\ look'.who = look.who /\ look'.at = 4 /\ look'.seen = look.seen
  BY <1>0, <1>1, Noting DEF LookInv
<1>3. look'.aside = v
  BY <1>1 DEF LookInv, LookTypes
<1>4. SeenInv'
  BY <1>1, <1>2, GoingOn
<1>5. BackendListens' = BackendListens /\ Answers("hajime_ai")' = Answers("hajime_ai")
      /\ phase' = phase /\ edited' = edited
  BY <1>1 DEF machineVars, BackendListens, Answers
<1>6. ChatInv'
  BY <1>1, <1>3, <1>5 DEF ChatInv, CauseOf
<1>7. LinkInv'
  BY <1>0, <1>1, <1>2, <1>5 DEF LookInv, LinkInv
<1> QED BY <1>2, <1>4, <1>6, <1>7 DEF LookInv

\* A chat that goes one step on.
LEMMA ChatGoesOn ==
  ASSUME MachineInv, LookInv, look.who = "chat", look.at \in {1, 2}, Stays, Goes,
         \/ look.at = 1 /\ link' = "taken"
         \/ look.at = 2 /\ link' = "held" /\ BackendListens
  PROVE  LookInv'
<1>0. 2 \in Nat \ {0} /\ 3 \in Nat \ {0} /\ 2 + 1 = 3 /\ 1 + 1 = 2 /\ "none" \in Remarks
  BY DEF Remarks
<1>1. UNCHANGED <<machineVars, changed>>
  BY DEF Stays
<1>2. PICK at \in Nat \ {0} : at = look.at + 1 /\ look' = [look EXCEPT !.at = at]
  BY <1>0 DEF Goes
<1>3. LookTypes' /\ look'.who = look.who /\ look'.at = at /\ look'.seen = look.seen
  BY <1>0, <1>1, <1>2, Noting DEF LookInv
<1>4. SeenInv'
  BY <1>1, <1>2, <1>3, GoingOn
<1>5. BackendListens' = BackendListens
  BY <1>1 DEF machineVars, BackendListens
<1>6. LinkInv'
  BY <1>0, <1>1, <1>2, <1>3, <1>5 DEF LookInv, LinkInv
<1>7. ChatInv'
  BY <1>0, <1>2, <1>3 DEF ChatInv, Done, Last
<1> QED BY <1>3, <1>4, <1>6, <1>7 DEF LookInv

LEMMA ChatStep ==
  ASSUME MachineInv, LookInv, ChatArrives \/ ChatConnects \/ ChatEnds
  PROVE  LookInv'
<1>1. look.who = "chat" /\ Stays
  BY DEF ChatArrives, ChatConnects, ChatEnds
<1>2. CASE ChatArrives
  <2>1. CASE \E code \in TurnedAway : ChatSays(code)
    <3>1. PICK code \in TurnedAway : ChatSays(code)
      BY <2>1
    <3>2. CASE ~Answers("hajime_ai")
      <4>1. code = "none" /\ "none" \in Remarks
        BY <3>2 DEF TurnedAway, Remarks
      <4>2. CauseOf(code)
        BY <3>2, <4>1 DEF CauseOf
      <4> QED BY <1>1, <3>1, <4>1, <4>2, ChatAnswered
    <3>3. CASE Answers("hajime_ai") /\ ~Admits("hajime_ai", Presented(TryGet(dir, "ai_token")))
      <4>1. code = "401" /\ "401" \in Remarks
        BY <3>3 DEF TurnedAway, Remarks
      <4>2. "hajime_ai" \in Asked /\ TokenFile("hajime_ai") = "ai_token"
        BY DEF Asked, TokenFile
      <4>3. Alive("hajime_ai")
        BY <3>3 DEF Answers, Alive
      <4>4. "ai_token" \in edited["hajime_ai"]
        BY <3>3, <4>2, <4>3, DemandedIsAccepted DEF MachineInv, TokenInv
      <4>5. CauseOf(code)
        BY <4>1, <4>4 DEF CauseOf
      <4> QED BY <1>1, <3>1, <4>1, <4>5, ChatAnswered
    <3>4. CASE Answers("hajime_ai") /\ Admits("hajime_ai", Presented(TryGet(dir, "ai_token")))
      <4>1. code \in {"400", "501"} /\ code \in Remarks
        BY <3>4 DEF TurnedAway, Remarks
      <4>2. CauseOf(code)
        BY <3>4, <4>1 DEF CauseOf
      <4> QED BY <1>1, <3>1, <4>1, <4>2, ChatAnswered
    <3> QED BY <3>2, <3>3, <3>4
  <2>2. CASE Goes /\ link' = "taken"
    BY <1>1, <1>2, <2>2, ChatGoesOn DEF ChatArrives
  <2> QED BY <1>2, <2>1, <2>2 DEF ChatArrives
<1>3. CASE Orphaned /\ ChatSays("none") /\ look.at \in {2, 3}
  <2>1. "none" \in Remarks
    BY DEF Remarks
  <2>2. CauseOf("none")
    BY <1>3 DEF Orphaned, CauseOf, LookInv, LinkInv
  <2> QED BY <1>1, <1>3, <2>1, <2>2, ChatAnswered
<1>4. CASE ChatConnects
  <2>1. CASE ~Orphaned /\ BackendListens /\ Goes /\ link' = "held"
    BY <1>1, <1>4, <2>1, ChatGoesOn DEF ChatConnects
  <2>2. CASE ~BackendListens /\ ChatSays(StatusFor("Unreachable"))
    <3>1. StatusFor("Unreachable") = "503" /\ "503" \in Remarks
      BY DEF StatusFor, Remarks
    <3>2. CauseOf("503")
      BY <2>2 DEF CauseOf
    <3> QED BY <1>1, <2>2, <3>1, <3>2, ChatAnswered
  <2> QED BY <1>3, <1>4, <2>1, <2>2 DEF ChatConnects
<1>5. CASE ChatEnds
  <2>1. CASE ~Orphaned /\ \E said \in BackendSays : ChatSays(StatusFor(said))
    <3>1. PICK said \in BackendSays : ChatSays(StatusFor(said))
      BY <2>1
    <3>2. /\ link \in {"held", "broken"}
          /\ link = "held" => BackendListens
          /\ link = "broken" => Backend \in changed
      BY <1>5, <2>1 DEF ChatEnds, Orphaned, LookInv, LinkInv
    <3>3. /\ said \in {"reply", "reply not found", "no such model", "Rejected", "garbled",
                       "Unreachable", "Timeout"}
          /\ said = "Unreachable" => link = "broken"
          /\ said = "Timeout" => link = "held" /\ phase[Backend] # "loading"
          /\ said \in {"no such model", "garbled", "reply not found"} =>
               link = "broken" \/ phase[Backend] # "loading"
          /\ said = "reply" => link = "broken" \/ phase[Backend] \notin {"hung", "loading"}
      BY <3>1, <3>2 DEF BackendSays, Replies, Refusals
    <3>4. StatusFor(said) \in Remarks
      BY <3>3 DEF StatusFor, Remarks
    <3>5. CauseOf(StatusFor(said))
      BY <3>2, <3>3 DEF StatusFor, CauseOf
    <3> QED BY <1>1, <3>1, <3>4, <3>5, ChatAnswered
  <2> QED BY <1>3, <1>5, <2>1 DEF ChatEnds
<1> QED BY <1>2, <1>4, <1>5

LEMMA LookStep ==
  ASSUME MachineInv, LookInv, [ConsoleNext]_allVars
  PROVE  LookInv'
<1>1. CASE PutAway
  BY <1>1, NoLookInv DEF PutAway, LookInv, LinkInv, NoLook
<1>2. CASE UNCHANGED allVars
  <2>1. UNCHANGED machineVars /\ UNCHANGED <<look, link, changed>>
    BY <1>2 DEF allVars, consoleVars
  <2>2. PICK who : who = look.who
    OBVIOUS
  <2>3. \A t : Seen(who, t)' = Seen(who, t)
    BY <2>1 DEF machineVars, Seen, Reach, Row, SelfCheck, ServiceCheck, RcStatus, PortOpen,
                Answers
  <2>4. \A t : Seen(look.who, t)' = Seen(look.who, t)
    BY <2>1, <2>2, <2>3
  <2>5. \A t : Answers(t)' = Answers(t)
    BY <2>1 DEF machineVars, Answers
  <2>6. LookTypes' /\ SeenInv'
    BY <2>1, <2>4, <2>5 DEF LookInv, LookTypes, SeenInv
  <2>7. ChatInv' /\ LinkInv'
    BY <2>1, <2>5, Zenon DEF machineVars, LookInv, ChatInv, LinkInv, Done, CauseOf, BackendListens
  <2> QED BY <2>6, <2>7 DEF LookInv
<1> QED BY <1>1, <1>2, BeginInv, PollStep, NotesInv, ChatStep, MeanwhileInv
        DEF ConsoleNext, Meanwhile

LEMMA SpecLookInv == ConsoleSpec => [](MachineInv /\ LookInv)
<1>1. ConsoleInit => MachineInv /\ LookInv
  <2> SUFFICES ASSUME ConsoleInit PROVE MachineInv /\ LookInv
    OBVIOUS
  <2>1. MachineInv
    BY InitMachine DEF ConsoleInit
  <2>2. "unseen" \in Remarks
    BY DEF Remarks
  <2>3. look = NoLook /\ link = "none" /\ changed = {}
    BY DEF ConsoleInit
  <2>4. LookTypes
    BY <2>2, <2>3 DEF LookTypes, NoLook
  <2>5. look.who = "nobody"
    BY <2>3 DEF NoLook
  <2> QED BY <2>1, <2>3, <2>4, <2>5 DEF LookInv, SeenInv, LinkInv, ChatInv, Done
<1>2. MachineInv /\ LookInv /\ [ConsoleNext]_allVars => (MachineInv /\ LookInv)'
  BY MachineStep, LookStep
<1> QED BY <1>1, <1>2, PTL DEF ConsoleSpec

\* A look that is over has seen every service.
LEMMA AllSeen ==
  ASSUME LookInv, NEW who \in {"console", "status", "check"}, Done(who)
  PROVE  \A s \in Services :
           /\ s \notin changed => look.seen[s] \in Seen(who, s)
           /\ who = "check" /\ look.seen[s] = "fail" => s \in Essential \cap Ported
<1>1. look.who = who /\ look.at > n
  BY Table DEF Done, Last, LookInv, LookTypes
<1>2. ASSUME NEW s \in Services
      PROVE  \E i \in 1..n : i < look.at /\ StartOrder[i] = s
  BY <1>1, Table DEF LookInv, LookTypes
<1> QED BY <1>1, <1>2 DEF LookInv, SeenInv

LEMMA GoodNewsFollows == MachineInv /\ LookInv => GoodNewsIsTrue
<1> SUFFICES ASSUME MachineInv, LookInv PROVE GoodNewsIsTrue
  OBVIOUS
<1>1. ASSUME Done("console"), Tone = "is-good", NEW s \in Ported \cap Steady
      PROVE  PortOpen(s) /\ (s \in Checked => Answers(s))
  <2>1. s \in Services /\ s \notin changed
    BY <1>1 DEF Steady
  <2>2. Headline = "everything up"
    BY <1>1 DEF Tone, Headline
  <2>3. \A t \in Services : look.seen[t] \notin {"down", "unhealthy"}
    BY <2>2 DEF Headline
  <2>4. PICK v \in Reach(s) : v \notin {"down", "unhealthy"}
    BY <1>1, <2>1, <2>3, AllSeen DEF Seen
  <2> QED BY <1>1, <2>4 DEF Reach, PortOpen, Answers
<1>2. ASSUME Done("status"), StatusOk, NEW s \in Essential \cap Steady
      PROVE  RcStatus(s) \/ PortOpen(s)
  <2>1. s \in Services /\ s \notin changed
    BY <1>2 DEF Steady
  <2>2. Row(s) # "down"
    BY <1>2, <2>1, AllSeen DEF Seen, StatusOk
  <2> QED BY <2>2 DEF Row
<1>3. ASSUME Done("check"), Ready, NEW s \in Essential \cap Ported \cap Steady
      PROVE  PortOpen(s)
  <2>1. s \in Services /\ s \notin changed
    BY <1>3 DEF Steady
  <2>2. SelfCheck(s) # "fail"
    BY <1>3, <2>1, AllSeen DEF Seen, Ready
  <2> QED BY <1>3, <2>2 DEF SelfCheck, ServiceCheck
<1> QED BY <1>1, <1>2, <1>3 DEF GoodNewsIsTrue

LEMMA BadNewsFollows == MachineInv /\ LookInv => BadNewsIsTrue
<1> SUFFICES ASSUME MachineInv, LookInv PROVE BadNewsIsTrue
  OBVIOUS
<1>1. ASSUME Done("console"), Tone = "is-bad"
      PROVE  \E s \in Essential : s \in changed \/ ~Answers(s)
  <2>1. Headline = "down"
    BY <1>1 DEF Tone, Headline
  <2>2. PICK s \in Essential : s \in Services /\ look.seen[s] = "down"
    BY <2>1 DEF Headline
  <2>3. s \notin changed => "down" \in Reach(s)
    BY <1>1, <2>2, AllSeen DEF Seen
  <2>4. "down" \in Reach(s) => ~Answers(s)
    <3>1. s \notin Fronts
      BY <2>2, ConsoleAssumption
    <3> QED BY <3>1 DEF Reach, PortOpen, Answers
  <2> QED BY <2>2, <2>3, <2>4
<1>2. ASSUME Done("status"), ~StatusOk
      PROVE  \E s \in Essential : \/ s \in changed \/ ~Alive(s)
                                  \/ phase[s] = "byhand" /\ s \notin Ported
  <2>1. PICK s \in Essential : look.seen[s] = "down"
    BY <1>2 DEF StatusOk
  <2>2. s \in Services /\ phase[s] \in Phases
    BY WorldAssumption DEF MachineInv, MachineTypes
  <2>3. s \notin changed => Row(s) = "down"
    BY <1>2, <2>1, <2>2, AllSeen DEF Seen
  <2>4. Row(s) = "down" => ~RcStatus(s) /\ ~PortOpen(s)
    BY DEF Row
  <2> QED BY <2>2, <2>3, <2>4 DEF RcStatus, PortOpen, Alive, Phases
<1>3. ASSUME Done("check"), ~Ready
      PROVE  look.aside = "old" \/ \E s \in Essential \cap Ported : s \in changed \/ ~PortOpen(s)
  <2>1. CASE Backup(look.aside) = "fail"
    <3>1. look.who = "check" /\ look.at > n + 1
      BY <1>3 DEF Done, Last
    <3>2. look.aside \in {"missing", "fresh", "old"}
      BY <3>1 DEF LookInv, SeenInv
    <3> QED BY <2>1, <3>2 DEF Backup
  <2>2. CASE \E s \in Services : look.seen[s] = "fail"
    <3>1. PICK s \in Services : look.seen[s] = "fail"
      BY <2>2
    <3>2. s \in Essential \cap Ported
      BY <1>3, <3>1, AllSeen
    <3>3. s \notin changed => SelfCheck(s) = "fail"
      BY <1>3, <3>1, AllSeen DEF Seen
    <3> QED BY <3>2, <3>3 DEF SelfCheck, ServiceCheck
  <2> QED BY <1>3, <2>1, <2>2 DEF Ready
<1>4. ASSUME Done("console"), NEW q \in Requirements,
             <<"MissingDependency", q[1], q[2]>> \in Constraints
      PROVE  {q[1], q[2]} \cap changed # {} \/ ~Answers(q[2]) \/ q[2] \notin Ported
  <2>1. q[1] \in Services /\ q[2] \in Services
    BY WorldAssumption
  <2>2. look.seen[q[2]] # "up"
    BY <1>4, <2>1 DEF Constraints, Check
  <2>3. q[2] \notin changed => Reach(q[2]) # {"up"}
    BY <1>4, <2>1, <2>2, AllSeen DEF Seen
  <2>4. Reach(q[2]) # {"up"} => ~Answers(q[2]) \/ q[2] \notin Ported
    <3>1. q[2] \notin Fronts
      BY <1>4, ConsoleAssumption
    <3> QED BY <3>1 DEF Reach, PortOpen, Answers
  <2> QED BY <2>3, <2>4
<1> QED BY <1>1, <1>2, <1>3, <1>4 DEF BadNewsIsTrue

LEMMA ChatFollows == LookInv => ChatNamesTheCause
BY DEF LookInv, ChatInv, CauseOf, ChatNamesTheCause

\* What the page, the status and the self-check call good is so, of all that
\* stayed as it was while they looked.
THEOREM GoodNewsIsAlwaysTrue == ConsoleSpec => []GoodNewsIsTrue
BY SpecLookInv, GoodNewsFollows, PTL

\* And what they call bad is bad.
THEOREM BadNewsIsAlwaysTrue == ConsoleSpec => []BadNewsIsTrue
BY SpecLookInv, BadNewsFollows, PTL

\* The status of a chat's answer names the cause.
THEOREM ChatsNameTheCause == ConsoleSpec => []ChatNamesTheCause
BY SpecLookInv, ChatFollows, PTL

----------------------------------------------------------------------------
(* The panels, and the history under the console *)

\* What happens around a look does to the history what may happen to it.
LEMMA HistoryUnder == [ConsoleNext]_allVars => [Next]_vars
<1>1. ASSUME Services_Change PROVE Kill \/ UNCHANGED vars
  BY <1>1 DEF Services_Change, CutAppends
<1>2. ASSUME Outage PROVE PowerCut
  BY <1>2 DEF Outage
<1>3. ASSUME Runs PROVE Next
  BY <1>3 DEF Runs, Next
<1>4. ASSUME Aside PROVE UNCHANGED vars
  BY <1>4 DEF Aside
<1>5. ASSUME Looking PROVE UNCHANGED vars
  BY <1>5, Zenon DEF Looking, Begin, PutAway, Poll, FetchHistory, FetchAudit, CheckBackup,
              ChatArrives, ChatConnects, ChatEnds, Notes, Stays
<1>6. ASSUME UNCHANGED allVars PROVE UNCHANGED vars
  BY <1>6 DEF allVars
<1> QED BY <1>1, <1>2, <1>3, <1>4, <1>5, <1>6 DEF ConsoleNext, Looking, Next

\* So the history of a machine that is looked at is a history, and what is
\* proved of it holds there too.
THEOREM ConsoleImplementsHistory == ConsoleSpec => Spec
<1>1. ConsoleInit => Init
  BY DEF ConsoleInit
<1> QED BY <1>1, HistoryUnder, PTL DEF ConsoleSpec, Spec

LEMMA UnderInv == ConsoleSpec => []HistoryInv
BY ConsoleImplementsHistory, SpecHistoryInv, PTL

\* Faults are counted.
LEMMA FaultsCount ==
  ASSUME HistoryTypes, [Next]_vars
  PROVE  /\ AllFaults \in Nat /\ AllFaults' \in Nat /\ AllFaults <= AllFaults'
         /\ AllFaults' = AllFaults => faults'["power"] = faults["power"]
<1>1. faults' = faults \/ \E kind \in {"full", "kill", "power"} : Happened(kind)
  BY DEF Next, vars, Open, WriteText, WriteNewLine, WriteFails, Kill, PowerCut
<1>2. /\ faults["full"] \in Nat /\ faults["kill"] \in Nat /\ faults["power"] \in Nat
      /\ faults \in [{"full", "kill", "power"} -> Nat]
  BY DEF HistoryTypes
<1>3. CASE faults' = faults
  BY <1>2, <1>3 DEF AllFaults
<1>4. ASSUME NEW kind \in {"full", "kill", "power"}, Happened(kind)
      PROVE  AllFaults' = AllFaults + 1
  <2>1. /\ faults'[kind] = faults[kind] + 1
        /\ \A k \in {"full", "kill", "power"} \ {kind} : faults'[k] = faults[k]
    BY <1>2, <1>4 DEF Happened
  <2> QED BY <1>2, <2>1 DEF AllFaults
<1>5. AllFaults \in Nat
  BY <1>2 DEF AllFaults
<1>6. CASE \E kind \in {"full", "kill", "power"} : Happened(kind)
  BY <1>4, <1>5, <1>6
<1> QED BY <1>1, <1>3, <1>6

\* A record on a finished line is there until a fault.
LEMMA FinishedStays ==
  ASSUME HistoryInv, [Next]_vars, faults'["power"] = faults["power"], NEW r \in Finished
  PROVE  r \in Finished'
<1>0. HistoryTypes
  BY DEF HistoryInv
<1>1. PICK end \in Nat : end = Len(file) /\ DOMAIN file = 1..end
  BY <1>0, Pieces
<1>2. PICK i \in 1..end : file[i] = Whole(r) /\ i < end /\ r \in Visible /\ r \in Records
  BY <1>1 DEF Finished, Visible
<1>3. file[end] # Whole(r)
  <2>1. end \in 1..end
    BY <1>2
  <2> QED BY <1>1, <1>2, <2>1 DEF HistoryInv, AppendInv
<1>4. file' = file \/ \E x \in Texts \cup {NewLine} : file' = Append(file, x)
  BY OnlyGrows DEF HistoryInv
<1>5. r \in Visible'
  BY <1>1, <1>2, <1>3, <1>4, StaysVisible, Pieces DEF HistoryInv
<1>6. CASE file' = file
  BY <1>1, <1>2, <1>5, <1>6 DEF Finished
<1>7. CASE \E x \in Texts \cup {NewLine} : file' = Append(file, x)
  <2>1. /\ Len(file') = end + 1 /\ DOMAIN file' = 1..(end + 1)
        /\ \A j \in 1..end : file'[j] = file[j]
    BY <1>1, <1>7, Appended DEF HistoryInv
  <2>2. i \in DOMAIN file' /\ file'[i] = Whole(r)' /\ i < Len(file')
    BY <1>2, <2>1 DEF Whole
  <2> QED BY <1>5, <2>2 DEF Finished
<1> QED BY <1>4, <1>6, <1>7

\* What a panel that had no rows to show says of the service it asked.
Noted(panel, s) ==
  /\ panel = "unreachable" => s \in changed \/ ~Answers(s)
  /\ panel = "error" => \/ s \in changed \/ TokenFile(s) \in edited[s]
                        \/ TokenFile(s) \in edited["hajime_console"]

BeforeTypes == before \in [runs : BOOLEAN, tools : BOOLEAN, faults : Nat]

PanelInv ==
  look.who = "console" =>
    /\ before.faults <= AllFaults
    /\ look.at <= n + 1 /\ before.runs /\ AllFaults = before.faults => Finished # {}
    /\ before.tools /\ "hajime_ai" \notin changed => used
    /\ look.at > n + 1 =>
         /\ look.runs = "no runs" /\ before.runs => before.faults < AllFaults
         /\ Noted(look.runs, "hajime_workflow")
    /\ look.at > n + 2 =>
         /\ look.tools = "no tools" /\ before.tools => "hajime_ai" \in changed
         /\ Noted(look.tools, "hajime_ai")

PanelsInv == MachineInv /\ LookInv /\ HistoryInv /\ BeforeTypes /\ PanelInv

\* What was fetched, as it was fetched.
LEMMA FetchedNoted ==
  ASSUME MachineInv, LookInv, look.who = "console", NEW s \in Asked, NEW data,
         data \notin {"unreachable", "error"}
  PROVE  /\ Noted(Fetched(s, data), s)
         /\ Fetched(s, data) \in {"unreachable", "error", data}
<1>1. CASE ~Answers(s)
  BY <1>1 DEF Fetched, Noted
<1>2. CASE Answers(s) /\ Admits(s, Presented(copies[s]))
  BY <1>2 DEF Fetched, Noted
<1>3. CASE Answers(s) /\ ~Admits(s, Presented(copies[s]))
  <2>1. Fetched(s, data) = "error"
    BY <1>3 DEF Fetched
  <2>2. Alive(s) /\ Alive("hajime_console")
    BY <1>3 DEF Answers, Alive, LookInv, SeenInv
  <2>3. TokensHold
    BY TokensFollow
  <2>4. TokenFile(s) \in edited[s] \cup edited["hajime_console"]
    BY <1>3, <2>2, <2>3 DEF TokensHold
  <2> QED BY <2>1, <2>4 DEF Noted
<1> QED BY <1>1, <1>2, <1>3

\* What a panel noted of a service stays true while it goes on.
LEMMA NotedStays ==
  ASSUME NEW s \in Asked, NEW panel, Noted(panel, s),
         changed \subseteq changed',
         s \notin changed' => phase'[s] = phase[s] /\ edited[s] \subseteq edited'[s],
         edited["hajime_console"] \subseteq edited'["hajime_console"]
  PROVE  Noted(panel, s)'
<1>1. s \notin changed' => s \notin changed /\ (Answers(s)' <=> Answers(s))
  BY DEF Answers
<1> QED BY <1>1 DEF Noted

\* A page under way, when the look itself has not moved.
LEMMA PageGoesOn ==
  ASSUME PanelsInv, [Next]_vars, look.who = "console",
         look'.who = look.who, before' = before, changed \subseteq changed',
         \A s \in Asked \ changed' : phase'[s] = phase[s] /\ edited[s] \subseteq edited'[s],
         edited["hajime_console"] \subseteq edited'["hajime_console"],
         "hajime_ai" \notin changed' => used' = used \/ used' = TRUE,
         look'.at = look.at \/ (look'.at = look.at + 1 /\ look'.at <= n + 1),
         look'.runs = look.runs, look'.tools = look.tools
  PROVE  PanelInv'
<1>1. /\ look.at \in Nat /\ look'.at \in Nat /\ n \in Nat
      /\ look'.at > n + 1 => look.at > n + 1
      /\ look'.at > n + 2 => look.at > n + 2
      /\ look'.at <= n + 1 => look.at <= n + 1
  BY Table DEF PanelsInv, LookInv, LookTypes
<1>0. /\ before.faults <= AllFaults
      /\ look.at <= n + 1 /\ before.runs /\ AllFaults = before.faults => Finished # {}
      /\ before.tools /\ "hajime_ai" \notin changed => used
      /\ look.at > n + 1 =>
           /\ look.runs = "no runs" /\ before.runs => before.faults < AllFaults
           /\ Noted(look.runs, "hajime_workflow")
      /\ look.at > n + 2 =>
           /\ look.tools = "no tools" /\ before.tools => "hajime_ai" \in changed
           /\ Noted(look.tools, "hajime_ai")
  BY Zenon DEF PanelsInv, PanelInv
<1>2. before.faults \in Nat
  BY DEF PanelsInv, BeforeTypes
<1>3. /\ AllFaults \in Nat /\ AllFaults' \in Nat /\ AllFaults <= AllFaults'
      /\ AllFaults' = AllFaults => faults'["power"] = faults["power"]
  BY FaultsCount DEF PanelsInv, HistoryInv
<1>4. before.faults <= AllFaults
  BY <1>0
<1>5. look'.at <= n + 1 /\ before.runs /\ AllFaults' = before.faults => Finished' # {}
  <2> SUFFICES ASSUME look'.at <= n + 1, before.runs, AllFaults' = before.faults
               PROVE  Finished' # {}
    OBVIOUS
  <2>1. AllFaults = before.faults /\ faults'["power"] = faults["power"]
    BY <1>2, <1>3, <1>4
  <2>2. PICK r : r \in Finished
    BY <1>0, <1>1, <2>1
  <2>3. HistoryInv
    BY DEF PanelsInv
  <2> QED BY <2>1, <2>2, <2>3, FinishedStays
<1>6. before.tools /\ "hajime_ai" \notin changed' => used'
  <2>1. "hajime_ai" \notin changed' => "hajime_ai" \notin changed
    OBVIOUS
  <2> QED BY <1>0, <2>1, Zenon
<1>7. "hajime_workflow" \in Asked /\ "hajime_ai" \in Asked
  BY DEF Asked
<1>8. look'.at > n + 1 =>
        /\ look.runs = "no runs" /\ before.runs => before.faults < AllFaults'
        /\ Noted(look.runs, "hajime_workflow")
  <2>1. before.faults < AllFaults => before.faults < AllFaults'
    BY <1>2, <1>3
  <2> QED BY <1>0, <1>1, <2>1, Zenon
<1>9. look'.at > n + 2 =>
        /\ look.tools = "no tools" /\ before.tools => "hajime_ai" \in changed'
        /\ Noted(look.tools, "hajime_ai")
  BY <1>0, <1>1, Zenon
<1>10. look'.at > n + 1 => Noted(look.runs, "hajime_workflow")'
  <2>1. PICK panel : panel = look.runs
    OBVIOUS
  <2>2. look'.at > n + 1 => Noted(panel, "hajime_workflow")
    BY <1>8, <2>1 DEF Noted
  <2>3. look'.at > n + 1 => Noted(panel, "hajime_workflow")'
    BY <1>7, <2>2, NotedStays
  <2> QED BY <2>1, <2>3 DEF Noted
<1>11. look'.at > n + 2 => Noted(look.tools, "hajime_ai")'
  <2>1. PICK panel : panel = look.tools
    OBVIOUS
  <2>2. look'.at > n + 2 => Noted(panel, "hajime_ai")
    BY <1>9, <2>1 DEF Noted
  <2>3. look'.at > n + 2 => Noted(panel, "hajime_ai")'
    BY <1>7, <2>2, NotedStays
  <2> QED BY <2>1, <2>3 DEF Noted
<1>12. before.faults <= AllFaults'
  BY <1>2, <1>3, <1>4
<1> QED BY <1>5, <1>6, <1>8, <1>9, <1>10, <1>11, <1>12 DEF PanelInv

\* Nobody makes a page.
LEMMA NoPage ==
  ASSUME look'.who # "console"
  PROVE  PanelInv'
BY DEF PanelInv

LEMMA PanelStep ==
  ASSUME PanelsInv, [ConsoleNext]_allVars
  PROVE  BeforeTypes' /\ PanelInv'
<1>0. /\ MachineInv /\ LookInv /\ HistoryInv /\ BeforeTypes /\ PanelInv
      /\ LookTypes /\ [Next]_vars /\ n \in Nat /\ look.at \in Nat
  BY HistoryUnder, Table DEF PanelsInv, LookInv, LookTypes
<1>1. CASE Meanwhile
  <2>1. CASE look' = NoLook /\ before' = NothingYet
    <3>1. BeforeTypes'
      BY <2>1 DEF BeforeTypes, NothingYet
    <3>2. look'.who # "console"
      BY <2>1 DEF NoLook
    <3> QED BY <3>1, <3>2, NoPage
  <2>2. CASE /\ look' = look /\ before' = before /\ changed \subseteq changed'
             /\ \A s \in Services \ changed' : phase'[s] = phase[s]
             /\ \A s \in Own \ changed' : edited[s] \subseteq edited'[s]
             /\ look.who = "console" =>
                  ("hajime_console" \in changed' => "hajime_console" \in changed)
             /\ "hajime_ai" \notin changed' => used' = used \/ used' = TRUE
    <3>1. BeforeTypes'
      BY <1>0, <2>2 DEF BeforeTypes
    <3>2. CASE look.who = "console"
      <4>1. "hajime_console" \notin changed'
        BY <1>0, <2>2, <3>2 DEF LookInv, SeenInv
      <4>2. \A s \in Asked \ changed' : phase'[s] = phase[s] /\ edited[s] \subseteq edited'[s]
        BY <2>2, AskedOwn
      <4>3. edited["hajime_console"] \subseteq edited'["hajime_console"]
        BY <2>2, <4>1, AskedOwn
      <4>4. look'.who = look.who /\ look'.at = look.at /\ look'.runs = look.runs
            /\ look'.tools = look.tools
        BY <2>2
      <4> QED BY <1>0, <2>2, <3>1, <3>2, <4>2, <4>3, <4>4, PageGoesOn
    <3>3. CASE look.who # "console"
      BY <2>2, <3>1, <3>3, NoPage
    <3> QED BY <3>2, <3>3
  <2> QED BY <1>0, <1>1, <2>1, <2>2, MeanwhileStep
<1>2. CASE \E who \in {"console", "status", "check", "chat"} : Begin(who)
  <2>1. PICK who \in {"console", "status", "check", "chat"} : Begin(who)
    BY <1>2
  <2>2. /\ look' = [NoLook EXCEPT !.who = who] /\ changed' = {}
        /\ before' = [runs |-> Finished # {}, tools |-> used, faults |-> AllFaults]
        /\ UNCHANGED <<vars, machineVars>>
    BY <2>1 DEF Begin
  <2>3. look'.who = who /\ look'.at = 1
    BY <2>2 DEF NoLook
  <2>4. AllFaults \in Nat /\ AllFaults' = AllFaults /\ used' = used /\ used \in BOOLEAN
    <3>1. AllFaults \in Nat
      BY <1>0, FaultsCount DEF HistoryInv
    <3> QED BY <1>0, <2>2, <3>1 DEF vars, machineVars, AllFaults, MachineInv, MachineTypes
  <2>5. Finished' = Finished
    BY <2>2 DEF vars, Finished, Visible, Alone, Readable
  <2>6. BeforeTypes'
    BY <2>2, <2>4 DEF BeforeTypes
  <2>7. ~(1 > n + 1) /\ ~(1 > n + 2)
    BY <1>0
  <2>8. /\ before'.faults <= AllFaults'
        /\ before'.runs => Finished' # {}
        /\ before'.tools => used'
    <3>1. /\ before'.runs = (Finished # {}) /\ before'.tools = used
          /\ before'.faults = AllFaults
      BY <2>2
    <3>2. AllFaults <= AllFaults'
      BY <2>4
    <3>3. before'.faults <= AllFaults'
      BY <3>1, <3>2
    <3> QED BY <2>4, <2>5, <3>1, <3>3, Zenon
  <2> QED BY <2>3, <2>6, <2>7, <2>8 DEF PanelInv
<1>3. CASE PutAway
  <2>1. BeforeTypes'
    BY <1>3 DEF PutAway, BeforeTypes, NothingYet
  <2>2. look'.who # "console"
    BY <1>3 DEF PutAway, NoLook
  <2> QED BY <2>1, <2>2, NoPage
<1>4. ASSUME Stays PROVE /\ BeforeTypes' /\ before' = before /\ changed' = changed
                         /\ UNCHANGED <<phase, edited, used, copies, asks>> /\ UNCHANGED vars
                         /\ AllFaults' = AllFaults
  BY <1>0, <1>4 DEF Stays, machineVars, vars, BeforeTypes, AllFaults
<1>5. ASSUME Stays, look'.who # "console" PROVE BeforeTypes' /\ PanelInv'
  BY <1>4, <1>5, NoPage
<1>6. CASE Poll
  <2>1. /\ look'.who = look.who /\ look'.at = look.at + 1 /\ look.at <= n /\ Stays
        /\ look'.runs = look.runs /\ look'.tools = look.tools
    BY <1>0, <1>6, PollStep DEF Poll, Notes
  <2>2. look'.at <= n + 1
    BY <1>0, <2>1
  <2>3. CASE look.who = "console"
    BY <1>4, <2>1, <2>2, <2>3, <1>0, PageGoesOn
  <2>4. CASE look.who # "console"
    BY <1>5, <2>1, <2>4
  <2> QED BY <2>3, <2>4
<1>7. CASE CheckBackup \/ ChatArrives \/ ChatConnects \/ ChatEnds
  <2>1. Stays /\ look.who # "console"
    BY <1>7 DEF CheckBackup, ChatArrives, ChatConnects, ChatEnds, Notes
  <2>2. look'.who = look.who
    BY <1>0, <1>7
    DEF CheckBackup, ChatArrives, ChatConnects, ChatEnds, ChatSays, Goes, LookTypes
  <2> QED BY <1>5, <2>1, <2>2
<1>8. CASE FetchHistory
  <2>1. look.who = "console" /\ look.at = n + 1 /\ Stays
    BY <1>8 DEF FetchHistory, Notes
  <2>2. look'.who = "console" /\ look'.at = n + 2 /\ look'.runs = HistoryPanel
    BY <1>0, <1>8, <2>1 DEF FetchHistory, LookTypes
  <2>3. /\ Noted(HistoryPanel, "hajime_workflow")
        /\ HistoryPanel = "no runs" => Visible = {}
    <3>1. "hajime_workflow" \in Asked
      BY DEF Asked
    <3>2. \A data \in {"no runs", "rows"} :
            /\ Noted(Fetched("hajime_workflow", data), "hajime_workflow")
            /\ Fetched("hajime_workflow", data) \in {"unreachable", "error", data}
      BY <1>0, <2>1, <3>1, FetchedNoted
    <3> QED BY <3>2 DEF HistoryPanel
  <2>4. /\ before.faults <= AllFaults /\ before.faults \in Nat /\ AllFaults \in Nat
        /\ before.runs /\ AllFaults = before.faults => Finished # {}
        /\ before.tools /\ "hajime_ai" \notin changed => used
    <3>1. AllFaults \in Nat
      BY <1>0, FaultsCount DEF HistoryInv
    <3>2. before.faults \in Nat
      BY <1>0 DEF BeforeTypes
    <3>3. look.at <= n + 1
      BY <1>0, <2>1
    <3> QED BY <1>0, <2>1, <3>1, <3>2, <3>3, Zenon DEF PanelInv
  <2>5. HistoryPanel = "no runs" /\ before.runs => before.faults < AllFaults
    <3>1. Visible = {} => Finished = {}
      BY DEF Finished
    <3>2. HistoryPanel = "no runs" /\ before.runs => AllFaults # before.faults
      BY <2>3, <2>4, <3>1, Zenon
    <3>3. AllFaults # before.faults => before.faults < AllFaults
      BY <2>4
    <3> QED BY <3>2, <3>3, Zenon
  <2>6. ~(n + 2 <= n + 1) /\ ~(n + 2 > n + 2)
    BY <1>0
  <2>7. Noted(look.runs, "hajime_workflow")'
    <3>1. PICK panel : panel = HistoryPanel
      OBVIOUS
    <3>2. Noted(panel, "hajime_workflow")'
      BY <1>4, <2>1, <2>3, <3>1 DEF Noted, Answers
    <3> QED BY <2>2, <3>1, <3>2 DEF Noted
  <2>8. before'.faults <= AllFaults' /\ (before'.tools /\ "hajime_ai" \notin changed' => used')
    BY <1>4, <2>1, <2>4
  <2>9. look'.runs = "no runs" /\ before'.runs => before'.faults < AllFaults'
    BY <1>4, <2>1, <2>2, <2>5
  <2>10. BeforeTypes'
    BY <1>4, <2>1
  <2> QED BY <2>2, <2>6, <2>7, <2>8, <2>9, <2>10 DEF PanelInv
<1>9. CASE FetchAudit
  <2>1. look.who = "console" /\ look.at = n + 2 /\ Stays
    BY <1>9 DEF FetchAudit, Notes
  <2>2. /\ look'.who = "console" /\ look'.at = n + 3 /\ look'.tools = AuditPanel
        /\ look'.runs = look.runs
    BY <1>0, <1>9, <2>1 DEF FetchAudit, LookTypes
  <2>3. /\ Noted(AuditPanel, "hajime_ai")
        /\ AuditPanel = "no tools" => ~used
    <3>1. "hajime_ai" \in Asked
      BY DEF Asked
    <3>2. \A data \in {"no tools", "rows"} :
            /\ Noted(Fetched("hajime_ai", data), "hajime_ai")
            /\ Fetched("hajime_ai", data) \in {"unreachable", "error", data}
      BY <1>0, <2>1, <3>1, FetchedNoted
    <3> QED BY <3>2 DEF AuditPanel
  <2>4. /\ before.faults <= AllFaults
        /\ before.tools /\ "hajime_ai" \notin changed => used
        /\ look.runs = "no runs" /\ before.runs => before.faults < AllFaults
        /\ Noted(look.runs, "hajime_workflow")
    <3>1. look.at > n + 1
      BY <1>0, <2>1
    <3> QED BY <1>0, <2>1, <3>1, Zenon DEF PanelInv
  <2>5. ~(n + 3 <= n + 1)
    BY <1>0
  <2>6. Noted(look.runs, "hajime_workflow")'
    <3>1. PICK panel : panel = look.runs
      OBVIOUS
    <3>2. Noted(panel, "hajime_workflow")'
      BY <1>4, <2>1, <2>4, <3>1 DEF Noted, Answers
    <3> QED BY <2>2, <3>1, <3>2 DEF Noted
  <2>7. Noted(look.tools, "hajime_ai")'
    <3>1. PICK panel : panel = AuditPanel
      OBVIOUS
    <3>2. Noted(panel, "hajime_ai")'
      BY <1>4, <2>1, <2>3, <3>1 DEF Noted, Answers
    <3> QED BY <2>2, <3>1, <3>2 DEF Noted
  <2>8. /\ before'.faults <= AllFaults'
        /\ before'.tools /\ "hajime_ai" \notin changed' => used'
        /\ look'.runs = "no runs" /\ before'.runs => before'.faults < AllFaults'
    BY <1>4, <2>1, <2>2, <2>4
  <2>9. look'.tools = "no tools" /\ before'.tools => "hajime_ai" \in changed'
    BY <1>4, <2>1, <2>2, <2>3, <2>4, Zenon
  <2>10. BeforeTypes'
    BY <1>4, <2>1
  <2> QED BY <2>2, <2>5, <2>6, <2>7, <2>8, <2>9, <2>10 DEF PanelInv
<1>10. CASE UNCHANGED allVars
  <2>1. Stays /\ look' = look
    BY <1>10 DEF allVars, consoleVars, Stays
  <2>2. CASE look.who = "console"
    BY <1>0, <1>4, <2>1, <2>2, PageGoesOn
  <2>3. CASE look.who # "console"
    BY <1>5, <2>1, <2>3
  <2> QED BY <2>2, <2>3
<1> QED BY <1>1, <1>2, <1>3, <1>6, <1>7, <1>8, <1>9, <1>10 DEF ConsoleNext, Meanwhile

LEMMA SpecPanelsInv == ConsoleSpec => []PanelsInv
<1>1. ConsoleInit => PanelInv /\ BeforeTypes
  BY DEF ConsoleInit, PanelInv, BeforeTypes, NoLook, NothingYet
<1>2. PanelsInv /\ [ConsoleNext]_allVars => (BeforeTypes /\ PanelInv)'
  BY PanelStep
<1>3. MachineInv /\ LookInv /\ HistoryInv /\ BeforeTypes /\ PanelInv <=> PanelsInv
  BY DEF PanelsInv
<1> QED BY <1>1, <1>2, <1>3, SpecLookInv, UnderInv, PTL DEF ConsoleSpec

LEMMA PanelsFollow == PanelsInv => PanelsAreHonest
<1> SUFFICES ASSUME PanelsInv, Done("console") PROVE PanelsAreHonest
  BY DEF PanelsAreHonest
<1>1. look.who = "console" /\ look.at > n + 2 /\ look.at > n + 1
  BY Table DEF Done, Last, PanelsInv, LookInv, LookTypes
<1>2. /\ look.runs = "no runs" /\ before.runs => before.faults < AllFaults
      /\ look.tools = "no tools" /\ before.tools => "hajime_ai" \in changed
      /\ Noted(look.runs, "hajime_workflow") /\ Noted(look.tools, "hajime_ai")
  BY <1>1, Zenon DEF PanelsInv, PanelInv
<1>3. before.faults \in Nat /\ AllFaults \in Nat
  BY DEF PanelsInv, HistoryInv, HistoryTypes, BeforeTypes, AllFaults
<1>4. before.faults < AllFaults => AllFaults # before.faults
  BY <1>3
<1>5. ASSUME NEW p \in {<<look.runs, "hajime_workflow">>, <<look.tools, "hajime_ai">>}
      PROVE  /\ p[1] = "unreachable" => p[2] \in changed \/ ~Answers(p[2])
             /\ p[1] = "error" => \/ p[2] \in changed
                                  \/ TokenFile(p[2]) \in edited[p[2]]
                                  \/ TokenFile(p[2]) \in edited["hajime_console"]
  <2>1. CASE p = <<look.runs, "hajime_workflow">>
    <3>1. p[1] = look.runs /\ p[2] = "hajime_workflow"
      BY <2>1
    <3> QED BY <1>2, <3>1 DEF Noted
  <2>2. CASE p = <<look.tools, "hajime_ai">>
    <3>1. p[1] = look.tools /\ p[2] = "hajime_ai"
      BY <2>2
    <3> QED BY <1>2, <3>1 DEF Noted
  <2> QED BY <2>1, <2>2
<1> QED BY <1>2, <1>4, <1>5, Zenon DEF PanelsAreHonest

\* A page says "no runs" or "no tools" of a service that has some only when
\* something came between, and blames a service only for what it did.
THEOREM PanelsAreAlwaysHonest == ConsoleSpec => []PanelsAreHonest
BY SpecPanelsInv, PanelsFollow, PTL
=============================================================================
