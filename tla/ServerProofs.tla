---------------------------- MODULE ServerProofs ----------------------------
(***************************************************************************)
(* Proofs about the service of hajime-workflow, for any exports, any number *)
(* of process starts, calls and failed appends: requests reach the workflow *)
(* their address names, and records and answers agree with what was done.  *)
(*                                                                         *)
(* What is known of a call is stated as an operator of the call and of the *)
(* variables it depends on, since a step changes one call or none.         *)
(***************************************************************************)
EXTENDS Server, FiniteSetTheorems, SequenceTheorems, WellFoundedInduction, TLAPS

----------------------------------------------------------------------------
(* The invariant *)

\* What Launch may load.
Processes ==
  UNION {{[export |-> e, store |-> FromExport(e), order |-> o] : o \in SetToSeqs(KeysOf(e))} :
           e \in Exports}

LoadsInv ==
  /\ loads \in Seq(Range(loads))
  /\ \A n \in DOMAIN loads : loads[n] \in Processes
  /\ phase # "down" => loads # <<>>

Fields == {"load", "via", "key", "trigger", "address", "outputs", "acts", "state", "heard"}

\* The nodes that a call's trigger leads to.
Nodes(ld, c) == ld[c.load].store[c.key].body

\* A call belongs to a process, runs only in the one that is up, and its caller
\* hears how it ended.
CallOK(ld, ph, c) ==
  /\ DOMAIN c = Fields
  /\ c.load \in DOMAIN ld
  /\ c.via \in {"webhook", "manual", "shadow", "schedule"}
  /\ c.state \in States
  /\ c.state = "running" => ph # "down" /\ c.load = Len(ld)
  /\ c.state \in {"running", "cut"} => c.heard = Unheard
  /\ c.heard.code \in {"ok", "failed"} => c.state = c.heard.code
  /\ c.via = "schedule" /\ c.state = "cut" => ph = "down" \/ c.load < Len(ld)
  /\ c.state # "none" =>
       /\ c.key \in DOMAIN ld[c.load].store
       /\ c.trigger.name # "shadow"
       /\ c.via = "webhook" => c.trigger.mode \in Modes

\* What node n of body left, o being what all of them left so far: a reply if it
\* responds, and any reply is of a node that does.
Speaks(body, n) == body[n] \in {"respond", "echo"}

OutputOK(body, o, n) ==
  /\ Speaks(body, n) => o[n] # NoReply
  /\ o[n] # NoReply =>
       /\ o[n].by \in 1..n /\ Speaks(body, o[n].by)
       /\ o[n].marked => /\ body[o[n].by] = "echo"
                         /\ \E m \in 1..(o[n].by - 1) : Speaks(body, m)

ActNodes(body) == {n \in DOMAIN body : body[n] = "act"}

\* How far a run is, and what it has done there.
RunOK(ld, c) ==
  /\ c.outputs \in Seq(Range(c.outputs))
  /\ c.state = "none" => c.acts = {}
  /\ c.state # "none" =>
       LET body == Nodes(ld, c)
       IN  /\ Len(c.outputs) <= Len(body)
           /\ \A n \in DOMAIN c.outputs : OutputOK(body, c.outputs, n)
           /\ c.acts \subseteq ActNodes(body)
           /\ c.via = "shadow" => c.acts = {}
           /\ c.via # "shadow" /\ c.state \in {"running", "ok"} =>
                c.acts = {n \in ActNodes(body) : n <= Len(c.outputs)}
           /\ c.state = "ok" => Len(c.outputs) = Len(body)

\* ReplyIsTheNodes, of a call of its own.
ReplyOK(ld, c) ==
  c.via = "webhook" /\ c.heard.code = "ok" =>
    LET body == Nodes(ld, c)
    IN  /\ c.trigger.mode = "immediately" => c.heard.reply = "started"
        /\ c.trigger.mode = "lastNode" => c.heard.reply = [by |-> Len(body), marked |-> FALSE]
        /\ c.trigger.mode = "responseNode" =>
             IF \E n \in DOMAIN body : Speaks(body, n)
             THEN /\ c.heard.reply.by \in DOMAIN body
                  /\ Speaks(body, c.heard.reply.by)
                  /\ c.heard.reply.marked =>
                       /\ body[c.heard.reply.by] = "echo"
                       /\ \E n \in 1..(c.heard.reply.by - 1) : Speaks(body, n)
             ELSE c.heard.reply = NoReply

\* A webhook took the first route of its process to its address, or there is none.
RouteOK(ld, c) ==
  c.via = "webhook" =>
    LET l == ld[c.load]
        routes == RoutesTo(l.store, l.order, c.address)
    IN  /\ c.address \in Addresses
        /\ IF routes = {}
           THEN c.state = "none" /\ c.key = NoId /\ c.trigger = NoId
           ELSE /\ c.state # "none" /\ c.key = l.order[First(routes)[1]]
                /\ c.trigger = TriggerOf(l.store, l.order, First(routes))

\* What h, the history, says of call i.
RecordOK(h, f, i, c) ==
  /\ \A n \in DOMAIN h : h[n].of = i =>
       /\ c.state = (IF h[n].ok THEN "ok" ELSE "failed")
       /\ c.via = "shadow" <=> h[n].trigger = "shadow"
  /\ c.state \in {"ok", "failed"} => (\E n \in DOMAIN h : h[n].of = i) \/ f > 0

Good(i, c) ==
  /\ CallOK(loads, phase, c) /\ RunOK(loads, c) /\ ReplyOK(loads, c)
  /\ RouteOK(loads, c) /\ RecordOK(history, faults, i, c)

HistoryInv ==
  /\ history \in Seq(Range(history))
  /\ \A n \in DOMAIN history : history[n].of \in DOMAIN calls
  /\ \A m, n \in DOMAIN history : history[m].of = history[n].of => m = n

ServerInv ==
  /\ phase \in {"down", "starting", "serving"}
  /\ faults \in 0..MaxFaults
  /\ LoadsInv /\ HistoryInv
  /\ calls \in Seq(Range(calls))
  /\ \A i \in DOMAIN calls : Good(i, calls[i])

----------------------------------------------------------------------------
(* Sequences and least places *)

LEMMA IsListed ==
  ASSUME NEW S, NEW q \in Seq(S)
  PROVE  q \in Seq(Range(q))
<1>0. PICK n \in Nat : q \in [1..n -> S]
  BY SeqDef
<1>1. q \in [1..n -> Range(q)]
  <2>1. q = [k \in 1..n |-> q[k]] /\ DOMAIN q = 1..n
    BY <1>0
  <2>2. \A k \in 1..n : q[k] \in Range(q)
    BY <2>1 DEF Range
  <2> QED BY <2>1, <2>2
<1> QED BY <1>1, SeqDef

LEMMA Appended ==
  ASSUME NEW q, q \in Seq(Range(q)), NEW x
  PROVE  /\ Append(q, x) \in Seq(Range(Append(q, x)))
         /\ Len(q) \in Nat /\ DOMAIN q = 1..Len(q)
         /\ Len(Append(q, x)) = Len(q) + 1 /\ DOMAIN Append(q, x) = 1..(Len(q) + 1)
         /\ \A n \in DOMAIN q : n \in DOMAIN Append(q, x) /\ Append(q, x)[n] = q[n]
         /\ Append(q, x)[Len(q) + 1] = x
         /\ \A n \in DOMAIN Append(q, x) : n \in DOMAIN q \/ n = Len(q) + 1
         /\ Append(q, x) # <<>> /\ Last(Append(q, x)) = x
<1> DEFINE S == Range(q) \cup {x}
           r == Append(q, x)
<1>1. q \in Seq(S) /\ x \in S
  BY DEF Range
<1>2. r \in Seq(S) /\ Len(r) = Len(q) + 1 /\ Len(q) \in Nat /\ DOMAIN q = 1..Len(q)
  BY <1>1
<1>3. DOMAIN r = 1..(Len(q) + 1) /\ r[Len(q) + 1] = x /\ \A n \in 1..Len(q) : r[n] = q[n]
  BY <1>1, <1>2
<1>5. r \in Seq(Range(r))
  <2> HIDE DEF r, S
  <2> QED BY <1>2, IsListed
<1>6. r # <<>> /\ Last(r) = x
  BY <1>2, <1>3 DEF Last
<1> QED BY <1>2, <1>3, <1>5, <1>6

LEMMA Touched ==
  ASSUME NEW q, q \in Seq(Range(q)), NEW i \in DOMAIN q, NEW d
  PROVE  /\ [q EXCEPT ![i] = d] \in Seq(Range([q EXCEPT ![i] = d]))
         /\ DOMAIN [q EXCEPT ![i] = d] = DOMAIN q
<1> DEFINE r == [q EXCEPT ![i] = d]
<1>1. Len(q) \in Nat /\ DOMAIN q = 1..Len(q)
  OBVIOUS
<1>2. DOMAIN r = 1..Len(q) /\ r \in [1..Len(q) -> Range(q) \cup {d}]
  BY <1>1 DEF Range
<1>3. r \in Seq(Range(r))
  <2> HIDE DEF r
  <2>1. r \in Seq(Range(q) \cup {d})
    BY <1>1, <1>2, SeqDef
  <2> QED BY <2>1, IsListed
<1> QED BY <1>1, <1>2, <1>3

\* Of several numbers one is least.
LEMMA Least ==
  ASSUME NEW Q \in SUBSET Nat, Q # {}
  PROVE  \E m \in Q : \A k \in Q : m <= k
<1>1. PICK m \in Q : \A k \in Q : ~(<<k, m>> \in OpToRel(<, Nat))
  BY NatLessThanWellFounded, WFMin
<1>2. ASSUME NEW k \in Q PROVE m <= k
  <2>1. <<k, m>> \in Nat \X Nat /\ <<k, m>>[1] = k /\ <<k, m>>[2] = m
    OBVIOUS
  <2>2. ~(k < m)
    BY <1>1, <2>1 DEF OpToRel
  <2> QED BY <2>2
<1> QED BY <1>2

LEMMA MinIsIn ==
  ASSUME NEW Q \in SUBSET Nat, Q # {}
  PROVE  Min(Q) \in Q
BY Least DEF Min

LEMMA MaxIsIn ==
  ASSUME NEW n \in Nat, NEW Q \in SUBSET (1..n), Q # {}
  PROVE  Max(Q) \in Q
<1> DEFINE R == {n - k : k \in Q}
<1>1. R \in SUBSET Nat /\ R # {}
  <2>1. \A k \in Q : k \in 1..n /\ n - k \in Nat
    OBVIOUS
  <2> QED BY <2>1
<1>2. PICK m \in R : \A k \in R : m <= k
  BY <1>1, Least
<1>3. PICK x \in Q : m = n - x
  OBVIOUS
<1>4. ASSUME NEW y \in Q PROVE x >= y
  <2>1. n - y \in R
    OBVIOUS
  <2> QED BY <1>2, <1>3, <2>1
<1> QED BY <1>4 DEF Max

LEMMA FirstIsIn ==
  ASSUME NEW R \in SUBSET (Nat \X Nat), R # {}
  PROVE  First(R) \in R
<1> DEFINE A == {r[1] : r \in R}
<1>1. A \in SUBSET Nat /\ A # {}
  OBVIOUS
<1>2. PICK a \in A : \A k \in A : a <= k
  BY <1>1, Least
<1> DEFINE B == {r[2] : r \in {r \in R : r[1] = a}}
<1>3. B \in SUBSET Nat /\ B # {}
  OBVIOUS
<1>4. PICK b \in B : \A k \in B : b <= k
  BY <1>3, Least
<1>5. PICK f \in R : f[1] = a /\ f[2] = b
  OBVIOUS
<1>6. ASSUME NEW s \in R
      PROVE  f[1] < s[1] \/ (f[1] = s[1] /\ f[2] <= s[2])
  <2>1. s[1] \in A /\ s[1] \in Nat /\ f[1] \in Nat
    OBVIOUS
  <2>2. f[1] <= s[1]
    BY <1>2, <1>5, <2>1
  <2>3. s[1] = a => s[2] \in B
    OBVIOUS
  <2> QED BY <1>4, <1>5, <2>1, <2>2, <2>3
<1> QED BY <1>6 DEF First

----------------------------------------------------------------------------
(* What a process loads *)

\* The store holds under a key the last workflow of the export that has it.
LEMMA StoreHolds ==
  ASSUME NEW e \in Exports, NEW k \in KeysOf(e)
  PROVE  /\ DOMAIN FromExport(e) = KeysOf(e)
         /\ \E i \in DOMAIN e : Kept(e, i) /\ Key(e, i) = k /\ FromExport(e)[k] = e[i]
<1>1. e \in Seq(Range(e)) /\ Len(e) \in Nat /\ DOMAIN e = 1..Len(e)
  BY ServerAssumption
<1>2. At(e, k) \in SUBSET (1..Len(e)) /\ At(e, k) # {}
  BY <1>1 DEF At, KeysOf
<1>3. Max(At(e, k)) \in At(e, k)
  BY <1>1, <1>2, MaxIsIn
<1> DEFINE i == Max(At(e, k))
<1>4. i \in DOMAIN e /\ Key(e, i) = k
  BY <1>3 DEF At
<1>5. Kept(e, i) /\ FromExport(e)[k] = e[i]
  BY <1>4 DEF Kept, FromExport
<1> QED BY <1>4, <1>5 DEF FromExport

LEMMA KeptIsHeld ==
  ASSUME NEW e \in Exports, NEW i \in DOMAIN e, Kept(e, i)
  PROVE  /\ Key(e, i) \in DOMAIN FromExport(e)
         /\ FromExport(e)[Key(e, i)] = e[i]
BY DEF Kept, FromExport, KeysOf

\* The order of the hash map has every key.
LEMMA OrderHasAll ==
  ASSUME NEW e \in Exports, NEW o \in SetToSeqs(KeysOf(e))
  PROVE  /\ DOMAIN o \in SUBSET Nat
         /\ \A n \in DOMAIN o : o[n] \in KeysOf(e)
         /\ \A k \in KeysOf(e) : \E n \in DOMAIN o : o[n] = k
<1> DEFINE K == KeysOf(e)
           N == Cardinality(K)
<1>1. e \in Seq(Range(e)) /\ Len(e) \in Nat /\ DOMAIN e = 1..Len(e)
  BY ServerAssumption
<1>2. IsFiniteSet(DOMAIN e)
  BY <1>1, FS_Interval
<1>3. K = {Key(e, i) : i \in DOMAIN e}
  BY DEF KeysOf
<1> HIDE DEF K
<1>4. IsFiniteSet(K)
  <2> DEFINE f == [i \in DOMAIN e |-> Key(e, i)]
  <2>1. f \in Surjection(DOMAIN e, K)
    BY <1>3 DEF Surjection
  <2> QED BY <1>2, <2>1, FS_Surjection
<1>5. N \in Nat
  BY <1>4, FS_CardinalityType
<1>6. o \in [1..N -> K] /\ \A i, j \in 1..N : i # j => o[i] # o[j]
  BY DEF SetToSeqs, K
<1>7. o \in Injection(1..N, K)
  BY <1>6 DEF Injection, IsInjective
<1>8. IsFiniteSet(1..N) /\ Cardinality(1..N) = N
  BY <1>5, FS_Interval
<1>9. o \in Surjection(1..N, K)
  BY <1>4, <1>7, <1>8, FS_Injection
<1>10. \A k \in K : \E n \in 1..N : o[n] = k
  BY <1>9 DEF Surjection
<1>11. DOMAIN o = 1..N /\ \A n \in 1..N : o[n] \in K
  BY <1>6
<1> QED BY <1>5, <1>10, <1>11 DEF K

LEMMA IsProcess ==
  ASSUME NEW l \in Processes
  PROVE  /\ l.export \in Exports /\ l.store = FromExport(l.export)
         /\ l.order \in SetToSeqs(KeysOf(l.export))
         /\ DOMAIN l.store = KeysOf(l.export)
<1>1. PICK e \in Exports : l \in {[export |-> e, store |-> FromExport(e), order |-> o] :
                                   o \in SetToSeqs(KeysOf(e))}
  BY DEF Processes
<1>2. PICK o \in SetToSeqs(KeysOf(e)) : l = [export |-> e, store |-> FromExport(e), order |-> o]
  BY <1>1
<1> QED BY <1>2 DEF FromExport

\* Every workflow of a process is one of its export.
LEMMA IsStored ==
  ASSUME NEW l \in Processes, NEW k \in DOMAIN l.store
  PROVE  /\ IsWorkflow(l.store[k])
         /\ \A j \in DOMAIN l.store[k].triggers :
              l.store[k].triggers[j].name # "shadow"
         /\ \E i \in DOMAIN l.export :
              /\ Kept(l.export, i) /\ Key(l.export, i) = k /\ l.store[k] = l.export[i]
<1>1. l.export \in Exports /\ k \in KeysOf(l.export) /\ l.store = FromExport(l.export)
  BY IsProcess
<1>2. PICK i \in DOMAIN l.export :
        Kept(l.export, i) /\ Key(l.export, i) = k /\ l.store[k] = l.export[i]
  BY <1>1, StoreHolds
<1> QED BY <1>1, <1>2, ServerAssumption

\* The workflows of an export that a request to an address may reach.
Able(e, address) ==
  {i \in DOMAIN e : e[i].active /\ Kept(e, i) /\ Answering(e[i], address) # {}}

\* A place in the routing table: what Routes and RoutesTo say of it.
LEMMA IsRoute ==
  ASSUME NEW store, NEW order, NEW address, NEW r
  PROVE  r \in RoutesTo(store, order, address) <=>
           \E n \in DOMAIN order : \E j \in DOMAIN store[order[n]].triggers :
             /\ r = <<n, j>> /\ order[n] \in DOMAIN store /\ store[order[n]].active
             /\ ~store[order[n]].triggers[j].disabled
             /\ store[order[n]].triggers[j].kind = "webhook"
             /\ store[order[n]].triggers[j].address # NoAddress
             /\ store[order[n]].triggers[j].address = address
<1>1. r \in Routes(store, order) <=>
        \E n \in DOMAIN order : \E j \in DOMAIN store[order[n]].triggers :
          /\ r = <<n, j>> /\ order[n] \in DOMAIN store /\ store[order[n]].active
          /\ ~store[order[n]].triggers[j].disabled
          /\ store[order[n]].triggers[j].kind = "webhook"
          /\ store[order[n]].triggers[j].address # NoAddress
  BY DEF Routes, ActiveKeys, TriggersIn, Enabled
<1>2. r \in RoutesTo(store, order, address) <=>
        r \in Routes(store, order) /\ TriggerOf(store, order, r).address = address
  BY DEF RoutesTo
<1>3. \A n, j : r = <<n, j>> => TriggerOf(store, order, r) = store[order[n]].triggers[j]
  BY DEF TriggerOf
<1> QED BY <1>1, <1>2, <1>3

\* The first route leads to a workflow that may be reached, and there is one if
\* any may.
LEMMA RoutesReach ==
  ASSUME NEW l \in Processes, NEW a \in Addresses
  PROVE  LET routes == RoutesTo(l.store, l.order, a)
             r == First(routes)
         IN  /\ routes = {} => Able(l.export, a) = {}
             /\ routes # {} =>
                  LET k == l.order[r[1]]
                      t == TriggerOf(l.store, l.order, r)
                  IN  /\ k \in DOMAIN l.store
                      /\ t.mode \in Modes /\ t.name # "shadow"
                      /\ \E i \in Able(l.export, a) :
                           Key(l.export, i) = k /\ t \in Answering(l.export[i], a)
<1> DEFINE e == l.export
           o == l.order
           routes == RoutesTo(l.store, o, a)
           r == First(routes)
           k == o[r[1]]
           t == TriggerOf(l.store, o, r)
<1>1. /\ e \in Exports /\ l.store = FromExport(e) /\ o \in SetToSeqs(KeysOf(e))
      /\ DOMAIN l.store = KeysOf(e)
  BY IsProcess
<1>2. /\ DOMAIN o \in SUBSET Nat /\ \A n \in DOMAIN o : o[n] \in KeysOf(e)
      /\ \A x \in KeysOf(e) : \E n \in DOMAIN o : o[n] = x
  BY <1>1, OrderHasAll
<1>3. ASSUME NEW i \in Able(e, a)
      PROVE  routes # {}
  <2>1. i \in DOMAIN e /\ e[i].active /\ Kept(e, i)
    BY DEF Able
  <2>2. PICK w \in Answering(e[i], a) : TRUE
    BY DEF Able
  <2>3. PICK j \in DOMAIN e[i].triggers : w = e[i].triggers[j]
    BY <2>2 DEF Answering, Range
  <2>4. w.kind = "webhook" /\ ~w.disabled /\ w.address = a /\ a # NoAddress
    BY <2>2, ServerAssumption DEF Answering
  <2>5. Key(e, i) \in DOMAIN l.store /\ l.store[Key(e, i)] = e[i]
    BY <1>1, <2>1, KeptIsHeld
  <2>6. PICK n \in DOMAIN o : o[n] = Key(e, i)
    BY <1>1, <1>2, <2>5
  <2>7. <<n, j>> \in routes
    BY <2>1, <2>3, <2>4, <2>5, <2>6, IsRoute
  <2> QED BY <2>7
<1>4. ASSUME routes # {}
      PROVE  /\ k \in DOMAIN l.store
             /\ t.mode \in Modes /\ t.name # "shadow"
             /\ \E i \in Able(e, a) : Key(e, i) = k /\ t \in Answering(e[i], a)
  <2>1. \A s \in routes : s \in Nat \X Nat
    <3> SUFFICES ASSUME NEW s \in routes PROVE s \in Nat \X Nat
      OBVIOUS
    <3>1. PICK n \in DOMAIN o : \E j \in DOMAIN l.store[o[n]].triggers : s = <<n, j>>
      BY IsRoute
    <3>2. PICK j \in DOMAIN l.store[o[n]].triggers : s = <<n, j>>
      BY <3>1
    <3>3. IsWorkflow(l.store[o[n]])
      BY <1>1, <1>2, IsStored
    <3>4. j \in Nat
      BY <3>3 DEF IsWorkflow
    <3> QED BY <1>2, <3>2, <3>4
  <2>2. r \in routes
    BY <1>4, <2>1, FirstIsIn
  <2>3. PICK n \in DOMAIN o : \E j \in DOMAIN l.store[o[n]].triggers :
             /\ r = <<n, j>> /\ o[n] \in DOMAIN l.store /\ l.store[o[n]].active
             /\ ~l.store[o[n]].triggers[j].disabled
             /\ l.store[o[n]].triggers[j].kind = "webhook"
             /\ l.store[o[n]].triggers[j].address = a
    BY <2>2, IsRoute
  <2>4. PICK j \in DOMAIN l.store[o[n]].triggers :
             /\ r = <<n, j>> /\ o[n] \in DOMAIN l.store /\ l.store[o[n]].active
             /\ ~l.store[o[n]].triggers[j].disabled
             /\ l.store[o[n]].triggers[j].kind = "webhook"
             /\ l.store[o[n]].triggers[j].address = a
    BY <2>3
  <2>5. k = o[n] /\ t = l.store[o[n]].triggers[j]
    BY <2>4 DEF TriggerOf
  <2>6. /\ IsWorkflow(l.store[k]) /\ t.name # "shadow"
        /\ \E i \in DOMAIN e : Kept(e, i) /\ Key(e, i) = k /\ l.store[k] = e[i]
    BY <2>4, <2>5, IsStored
  <2>7. PICK i \in DOMAIN e : Kept(e, i) /\ Key(e, i) = k /\ l.store[k] = e[i]
    BY <2>6
  <2>8. t \in Answering(e[i], a)
    BY <2>4, <2>5, <2>7 DEF Answering, Range
  <2>9. i \in Able(e, a)
    BY <2>4, <2>5, <2>7, <2>8 DEF Able
  <2>10. t.mode \in Modes
    BY <2>4, <2>5, <2>6 DEF IsWorkflow, IsTrigger
  <2> QED BY <2>4, <2>5, <2>6, <2>7, <2>8, <2>9, <2>10
<1> QED BY <1>3, <1>4

\* Any enabled trigger of a workflow names its runs.
LEMMA Triggered ==
  ASSUME NEW l \in Processes, NEW k \in DOMAIN l.store, Enabled(l.store[k]) # {}
  PROVE  l.store[k].triggers[Min(Enabled(l.store[k]))].name # "shadow"
<1>1. IsWorkflow(l.store[k])
  BY IsStored
<1>2. Enabled(l.store[k]) \in SUBSET Nat
  BY <1>1 DEF Enabled, IsWorkflow
<1>3. Min(Enabled(l.store[k])) \in DOMAIN l.store[k].triggers
  BY <1>2, MinIsIn DEF Enabled
<1> QED BY <1>3, IsStored

LEMMA ScheduledHere ==
  ASSUME NEW l \in Processes, NEW s \in Scheduled(l.store)
  PROVE  s.key \in DOMAIN l.store /\ s.trigger.name # "shadow"
<1>1. PICK k \in ActiveKeys(l.store) : \E j \in TriggersIn(l.store[k], "schedule") :
        s = [key |-> k, trigger |-> l.store[k].triggers[j]]
  BY DEF Scheduled, ScheduleTriggers
<1>2. PICK j \in TriggersIn(l.store[k], "schedule") :
        s = [key |-> k, trigger |-> l.store[k].triggers[j]]
  BY <1>1
<1>3. k \in DOMAIN l.store /\ j \in DOMAIN l.store[k].triggers
  BY <1>1, <1>2 DEF ActiveKeys, TriggersIn, Enabled
<1> QED BY <1>2, <1>3, IsStored

----------------------------------------------------------------------------
(* Calls that a step leaves alone *)

\* The nodes of a call are those of a workflow of the repository's kinds.
LEMMA NodesTyped ==
  ASSUME NEW ld, \A n \in DOMAIN ld : ld[n] \in Processes,
         NEW c, c.load \in DOMAIN ld, c.key \in DOMAIN ld[c.load].store
  PROVE  Nodes(ld, c) \in Seq(Kinds)
<1>1. ld[c.load] \in Processes
  OBVIOUS
<1>2. IsWorkflow(ld[c.load].store[c.key])
  BY <1>1, IsStored
<1> QED BY <1>2 DEF IsWorkflow, Nodes

\* What another process loads is nothing to a call.
LEMMA LoadsGrow ==
  ASSUME NEW ld, ld \in Seq(Range(ld)), NEW l, NEW c, NEW i, NEW h, NEW f,
         CallOK(ld, "down", c), RunOK(ld, c), ReplyOK(ld, c), RouteOK(ld, c)
  PROVE  /\ CallOK(Append(ld, l), "starting", c) /\ RunOK(Append(ld, l), c)
         /\ ReplyOK(Append(ld, l), c) /\ RouteOK(Append(ld, l), c)
<1> DEFINE m == Append(ld, l)
<1>1. /\ c.load \in DOMAIN ld /\ Len(ld) \in Nat /\ DOMAIN ld = 1..Len(ld)
      /\ c.load \in DOMAIN m /\ m[c.load] = ld[c.load] /\ Len(m) = Len(ld) + 1
  BY Appended DEF CallOK
<1>2. c.load < Len(m) /\ c.state # "running"
  BY <1>1 DEF CallOK
<1> HIDE DEF m
<1>3. CallOK(m, "starting", c)
  BY <1>1, <1>2 DEF CallOK
<1>4. Nodes(m, c) = Nodes(ld, c)
  BY <1>1 DEF Nodes
<1>5. RunOK(m, c)
  BY <1>4 DEF RunOK
<1>6. ReplyOK(m, c)
  BY <1>4 DEF ReplyOK
<1>7. RouteOK(m, c)
  BY <1>1 DEF RouteOK
<1> QED BY <1>3, <1>5, <1>6, <1>7 DEF m

LEMMA BindKeeps ==
  ASSUME NEW ld, NEW c, CallOK(ld, "starting", c)
  PROVE  CallOK(ld, "serving", c)
BY DEF CallOK

\* A record of another call, or one that failed to be written.
LEMMA RecordElsewhere ==
  ASSUME NEW h, h \in Seq(Range(h)), NEW f \in Nat, NEW i, NEW c, RecordOK(h, f, i, c),
         NEW r, r.of # i
  PROVE  RecordOK(Append(h, r), f, i, c) /\ RecordOK(h, f + 1, i, c)
<1> DEFINE g == Append(h, r)
<1>1. /\ \A n \in DOMAIN h : n \in DOMAIN g /\ g[n] = h[n]
      /\ \A n \in DOMAIN g : n \in DOMAIN h \/ n = Len(h) + 1
      /\ g[Len(h) + 1] = r
  BY Appended
<1> HIDE DEF g
<1>2. RecordOK(g, f, i, c)
  BY <1>1 DEF RecordOK
<1>3. RecordOK(h, f + 1, i, c)
  BY DEF RecordOK
<1> QED BY <1>2, <1>3 DEF g

----------------------------------------------------------------------------
(* The steps of one call *)

\* The end of its process.
LEMMA CutKeeps ==
  ASSUME NEW ld, NEW ph, NEW h, NEW f, NEW i, NEW c,
         CallOK(ld, ph, c), RunOK(ld, c), ReplyOK(ld, c), RouteOK(ld, c), RecordOK(h, f, i, c)
  PROVE  /\ CallOK(ld, "down", Cut(c)) /\ RunOK(ld, Cut(c)) /\ ReplyOK(ld, Cut(c))
         /\ RouteOK(ld, Cut(c)) /\ RecordOK(h, f, i, Cut(c))
<1>1. CASE c.state # "running"
  <2>1. Cut(c) = c
    BY <1>1 DEF Cut, Running
  <2>2. CallOK(ld, "down", c)
    BY <1>1 DEF CallOK
  <2> QED BY <2>1, <2>2
<1>2. CASE c.state = "running"
  <2> DEFINE d == Cut(c)
  <2>1. /\ DOMAIN d = Fields /\ d.state = "cut"
        /\ d.load = c.load /\ d.via = c.via /\ d.key = c.key /\ d.trigger = c.trigger
        /\ d.address = c.address /\ d.outputs = c.outputs /\ d.acts = c.acts
        /\ d.heard = c.heard
    BY <1>2 DEF Cut, Running, CallOK, Fields
  <2> HIDE DEF d
  <2>2. c.heard = Unheard /\ c.heard.code = "nothing"
    BY <1>2 DEF CallOK, Unheard
  <2>3. CallOK(ld, "down", d)
    BY <1>2, <2>1, <2>2 DEF CallOK, States
  <2>4. Nodes(ld, d) = Nodes(ld, c)
    BY <2>1 DEF Nodes
  <2>5. RunOK(ld, d)
    BY <1>2, <2>1, <2>4 DEF RunOK
  <2>6. ReplyOK(ld, d)
    BY <2>1, <2>2 DEF ReplyOK
  <2>7. RouteOK(ld, d)
    BY <1>2, <2>1 DEF RouteOK
  <2>8. RecordOK(h, f, i, d)
    BY <1>2, <2>1 DEF RecordOK
  <2> QED BY <2>3, <2>5, <2>6, <2>7, <2>8 DEF d
<1> QED BY <1>1, <1>2

\* The next node's output, and what it does outside.
LEMMA NextOutput ==
  ASSUME LoadsInv, NEW c, CallOK(loads, phase, c), RunOK(loads, c), Unfinished(c)
  PROVE  LET body == Nodes(loads, c)
             n == Len(c.outputs) + 1
         IN  /\ body \in Seq(Kinds) /\ n \in DOMAIN body /\ Body(c) = body
             /\ c.state = "running" /\ Len(c.outputs) \in Nat
             /\ OutputOK(body, Append(c.outputs, Output(c)), n)
             /\ Acted(c) \subseteq ActNodes(body)
             /\ c.via = "shadow" => Acted(c) = {}
             /\ c.via # "shadow" => Acted(c) = {k \in ActNodes(body) : k <= n}
<1> DEFINE body == Nodes(loads, c)
           n == Len(c.outputs) + 1
           o == c.outputs
           p == Append(o, Output(c))
<1>1. c.state = "running" /\ Body(c) = body /\ n <= Len(body) /\ o \in Seq(Range(o))
  BY DEF Unfinished, Running, Node, Body, Store, Nodes, RunOK
<1>2. body \in Seq(Kinds)
  BY <1>1, NodesTyped DEF LoadsInv, CallOK
<1>3. /\ Len(o) \in Nat /\ DOMAIN o = 1..Len(o) /\ n \in DOMAIN body
      /\ \A k \in 1..Len(o) : p[k] = o[k]
      /\ p[n] = Output(c) /\ n = Len(o) + 1
  BY <1>1, <1>2, Appended
<1>4. body[n] \in Kinds /\ \A k \in {"act", "read", "pass", "respond", "echo"} :
                             NodeIs(c, k) <=> body[n] = k
  BY <1>1, <1>2, <1>3 DEF NodeIs, Node
<1>5. /\ \A k \in DOMAIN o : OutputOK(body, o, k)
      /\ c.acts \subseteq ActNodes(body)
      /\ c.via = "shadow" => c.acts = {}
      /\ c.via # "shadow" => c.acts = {k \in ActNodes(body) : k <= Len(o)}
  BY <1>1 DEF RunOK
<1>6. Input(c) = (IF o = <<>> THEN NoReply ELSE o[Len(o)])
  BY DEF Input, Last
<1>7. Input(c) # NoReply => /\ Len(o) \in DOMAIN o /\ Input(c) = o[Len(o)]
  BY <1>1, <1>3, <1>6
<1> HIDE DEF body, p, o, n
<1>8. Input(c) # NoReply =>
        /\ Input(c).by \in 1..Len(o) /\ Speaks(body, Input(c).by)
        /\ Input(c).marked => /\ body[Input(c).by] = "echo"
                              /\ \E m \in 1..(Input(c).by - 1) : Speaks(body, m)
  BY <1>5, <1>7 DEF OutputOK
<1>9. OutputOK(body, p, n)
  <2>1. CASE body[n] \in {"act", "read"}
    <3>1. Output(c) = NoReply
      BY <1>4, <2>1 DEF Output
    <3> QED BY <1>3, <2>1, <3>1 DEF OutputOK, Speaks
  <2>2. CASE body[n] = "pass"
    <3>1. Output(c) = Input(c)
      BY <1>4, <2>2 DEF Output
    <3> QED BY <1>3, <1>8, <2>2, <3>1 DEF OutputOK, Speaks
  <2>3. CASE body[n] = "respond"
    <3>1. Output(c) = [by |-> n, marked |-> FALSE]
      BY <1>4, <2>3 DEF Output, Node, o, n
    <3>2. Output(c).by = n /\ Output(c).marked = FALSE /\ Output(c) # NoReply
      <4>1. NoReply.by = 0
        BY DEF NoReply
      <4> QED BY <1>3, <3>1, <4>1
    <3> QED BY <1>3, <2>3, <3>2 DEF OutputOK, Speaks
  <2>4. CASE body[n] = "echo"
    <3>1. Output(c) = [by |-> n, marked |-> Input(c) # NoReply]
      BY <1>4, <2>4 DEF Output, Node, o, n
    <3>2. Output(c).by = n /\ (Output(c).marked => Input(c) # NoReply) /\ Output(c) # NoReply
      <4>1. NoReply.by = 0
        BY DEF NoReply
      <4>2. Output(c).by = n
        BY <3>1
      <4>3. ASSUME Input(c) = NoReply PROVE ~Output(c).marked
        <5>1. (Input(c) # NoReply) = FALSE
          BY <4>3
        <5>2. Output(c) = [by |-> n, marked |-> FALSE]
          BY <3>1, <5>1, Zenon
        <5> QED BY <5>2
      <4>4. Output(c).marked => Input(c) # NoReply
        BY <4>3
      <4> QED BY <1>3, <4>1, <4>2, <4>4
    <3>3. Output(c).marked => \E m \in 1..(n - 1) : Speaks(body, m)
      BY <1>3, <1>8, <3>2
    <3> QED BY <1>3, <2>4, <3>2, <3>3 DEF OutputOK, Speaks
  <2> QED BY <1>4, <2>1, <2>2, <2>3, <2>4 DEF Kinds
<1>10. Acted(c) = (IF body[n] = "act" /\ c.via # "shadow" THEN c.acts \cup {n} ELSE c.acts)
  BY <1>4 DEF Acted, HeldBack, Rehearsal, Node, o, n
<1>11. /\ Acted(c) \subseteq ActNodes(body)
       /\ c.via = "shadow" => Acted(c) = {}
       /\ c.via # "shadow" => Acted(c) = {k \in ActNodes(body) : k <= n}
  <2>1. n \in DOMAIN body /\ (n \in ActNodes(body) <=> body[n] = "act")
    BY <1>3 DEF ActNodes
  <2>2. \A k \in ActNodes(body) : k \in Nat /\ (k <= n <=> k <= Len(o) \/ k = n)
    BY <1>2, <1>3 DEF ActNodes, o
  <2> QED BY <1>5, <1>10, <2>1, <2>2
<1> QED BY <1>1, <1>2, <1>3, <1>9, <1>11 DEF body, p, o, n

LEMMA StepKeeps ==
  ASSUME LoadsInv, NEW i, NEW c, Good(i, c), Unfinished(c)
  PROVE  Good(i, [c EXCEPT !.outputs = Append(@, Output(c)), !.acts = Acted(c)])
<1> DEFINE d == [c EXCEPT !.outputs = Append(@, Output(c)), !.acts = Acted(c)]
           body == Nodes(loads, c)
           o == c.outputs
           p == Append(o, Output(c))
<1>0. CallOK(loads, phase, c) /\ RunOK(loads, c) /\ ReplyOK(loads, c)
      /\ RouteOK(loads, c) /\ RecordOK(history, faults, i, c)
  BY DEF Good
<1>1. /\ DOMAIN d = Fields /\ d.outputs = p /\ d.acts = Acted(c)
      /\ d.load = c.load /\ d.via = c.via /\ d.key = c.key /\ d.trigger = c.trigger
      /\ d.address = c.address /\ d.state = c.state /\ d.heard = c.heard
  BY <1>0 DEF CallOK, Fields
<1>2. /\ body \in Seq(Kinds) /\ Len(o) + 1 \in DOMAIN body
      /\ c.state = "running" /\ Len(o) \in Nat
      /\ OutputOK(body, p, Len(o) + 1)
      /\ Acted(c) \subseteq ActNodes(body)
      /\ c.via = "shadow" => Acted(c) = {}
      /\ c.via # "shadow" => Acted(c) = {k \in ActNodes(body) : k <= Len(o) + 1}
  BY <1>0, NextOutput
<1>3. o \in Seq(Range(o)) /\ \A n \in DOMAIN o : OutputOK(body, o, n)
  BY <1>0, <1>2 DEF RunOK
<1>4. /\ p \in Seq(Range(p)) /\ Len(p) = Len(o) + 1
      /\ \A n \in DOMAIN o : p[n] = o[n]
      /\ \A n \in DOMAIN p : n \in DOMAIN o \/ n = Len(o) + 1
  BY <1>3, Appended
<1>5. Nodes(loads, d) = body
  BY <1>1 DEF Nodes
<1> HIDE DEF d, body, o, p
<1>6. Len(p) <= Len(body)
  BY <1>2, <1>4
<1>7. \A n \in DOMAIN p : OutputOK(body, p, n)
  BY <1>2, <1>3, <1>4 DEF OutputOK
<1>8. RunOK(loads, d)
  BY <1>1, <1>2, <1>4, <1>5, <1>6, <1>7 DEF RunOK
<1>9. CallOK(loads, phase, d)
  BY <1>0, <1>1 DEF CallOK
<1>10. ReplyOK(loads, d)
  BY <1>0, <1>1, <1>5 DEF ReplyOK, body
<1>11. RouteOK(loads, d) /\ RecordOK(history, faults, i, d)
  BY <1>0, <1>1 DEF RouteOK, RecordOK
<1> QED BY <1>8, <1>9, <1>10, <1>11 DEF Good, d

\* c runs, and d is what becomes of it when it is over, in whatever way: what it
\* did, and what its caller heard.
Over(c, d) ==
  /\ c.state = "running" /\ DOMAIN d = Fields
  /\ d.load = c.load /\ d.via = c.via /\ d.key = c.key /\ d.trigger = c.trigger
  /\ d.address = c.address /\ d.outputs = c.outputs
  /\ d.acts \subseteq ActNodes(Nodes(loads, c))
  /\ c.via = "shadow" => d.acts = {}
  /\ d.state \in {"ok", "failed", "cut"}
  /\ d.state = "ok" => d.acts = c.acts /\ Len(c.outputs) = Len(Nodes(loads, c))
  /\ d.state = "cut" => d.heard = Unheard /\ c.via # "schedule"
  /\ d.heard.code \in {"ok", "failed"} => d.state = d.heard.code
  /\ c.via = "webhook" /\ d.heard.code = "ok" => d.heard.reply \in Replies(c)

LEMMA OverKeeps ==
  ASSUME LoadsInv, NEW c, CallOK(loads, phase, c), RunOK(loads, c), ReplyOK(loads, c),
         RouteOK(loads, c), NEW d, Over(c, d)
  PROVE  CallOK(loads, phase, d) /\ RunOK(loads, d) /\ ReplyOK(loads, d) /\ RouteOK(loads, d)
<1> DEFINE body == Nodes(loads, c)
           o == c.outputs
<1>1. CallOK(loads, phase, d)
  BY DEF CallOK, States, Over
<1>2. Nodes(loads, d) = body
  BY DEF Nodes, Over
<1>3. RunOK(loads, d)
  BY <1>2 DEF RunOK, Over
<1>4. RouteOK(loads, d)
  BY DEF RouteOK, Over
<1>5. ReplyOK(loads, d)
  <2> SUFFICES ASSUME c.via = "webhook", d.heard.code = "ok"
               PROVE  /\ c.trigger.mode = "immediately" => d.heard.reply = "started"
                      /\ c.trigger.mode = "lastNode" =>
                           d.heard.reply = [by |-> Len(body), marked |-> FALSE]
                      /\ c.trigger.mode = "responseNode" =>
                           IF \E n \in DOMAIN body : Speaks(body, n)
                           THEN /\ d.heard.reply.by \in DOMAIN body
                                /\ Speaks(body, d.heard.reply.by)
                                /\ d.heard.reply.marked =>
                                     /\ body[d.heard.reply.by] = "echo"
                                     /\ \E n \in 1..(d.heard.reply.by - 1) : Speaks(body, n)
                           ELSE d.heard.reply = NoReply
    BY <1>2 DEF ReplyOK, Over
  <2>1. d.heard.reply \in Replies(c) /\ d.state = "ok" /\ Len(o) = Len(body)
    BY DEF Over
  <2>2. body \in Seq(Kinds)
    BY NodesTyped DEF LoadsInv, CallOK, Over
  <2>3. o \in Seq(Range(o)) /\ \A n \in DOMAIN o : OutputOK(body, o, n)
    BY DEF RunOK, Over
  <2>4. DOMAIN o = DOMAIN body /\ DOMAIN o = 1..Len(o) /\ Len(o) \in Nat
    BY <2>1, <2>2, <2>3
  <2>5. CASE c.trigger.mode = "immediately"
    BY <2>1, <2>5 DEF Replies
  <2>6. CASE c.trigger.mode = "lastNode"
    BY <2>1, <2>6 DEF Replies, LastNodeReply
  <2>7. CASE c.trigger.mode = "responseNode"
    <3> DEFINE found == Range(o) \ {NoReply}
    <3>1. d.heard.reply \in (IF found = {} THEN {NoReply} ELSE found)
      BY <2>1, <2>7 DEF Replies
    <3>2. CASE found = {}
      <4>1. d.heard.reply = NoReply
        BY <3>1, <3>2
      <4>2. \A n \in DOMAIN o : o[n] = NoReply
        BY <3>2 DEF Range
      <4>3. \A n \in DOMAIN body : ~Speaks(body, n)
        BY <2>3, <2>4, <4>2 DEF OutputOK
      <4> QED BY <2>7, <4>1, <4>3
    <3>3. CASE found # {}
      <4>1. PICK n \in DOMAIN o : o[n] = d.heard.reply /\ o[n] # NoReply
        BY <3>1, <3>3 DEF Range
      <4>2. /\ d.heard.reply.by \in 1..n /\ Speaks(body, d.heard.reply.by)
            /\ d.heard.reply.marked =>
                 /\ body[d.heard.reply.by] = "echo"
                 /\ \E m \in 1..(d.heard.reply.by - 1) : Speaks(body, m)
        BY <2>3, <4>1 DEF OutputOK
      <4>3. d.heard.reply.by \in DOMAIN body
        BY <2>4, <4>1, <4>2
      <4> QED BY <2>7, <4>2, <4>3
    <3> QED BY <3>2, <3>3
  <2> QED BY <2>5, <2>6, <2>7
<1> QED BY <1>1, <1>3, <1>4, <1>5

\* The end of run i, with its record or without.
LEMMA EndKeeps ==
  ASSUME LoadsInv, HistoryInv, faults \in Nat, NEW i, NEW c, Good(i, c), c.state = "running",
         NEW acts, acts \subseteq ActNodes(Nodes(loads, c)), c.via = "shadow" => acts = {},
         NEW ok \in BOOLEAN, ok => acts = c.acts /\ Len(c.outputs) = Len(Nodes(loads, c)),
         NEW heard \in Answers(c, ok),
         NEW d, d = [c EXCEPT !.state = IF ok THEN "ok" ELSE "failed", !.acts = acts,
                              !.heard = heard],
         NEW r, r = [key |-> c.key, trigger |-> Label(c), ok |-> ok, of |-> i]
  PROVE  /\ CallOK(loads, phase, d) /\ RunOK(loads, d) /\ ReplyOK(loads, d) /\ RouteOK(loads, d)
         /\ RecordOK(Append(history, r), faults, i, d) /\ RecordOK(history, faults + 1, i, d)
         /\ \A n \in DOMAIN history : history[n].of # i
<1>0. CallOK(loads, phase, c) /\ RunOK(loads, c) /\ ReplyOK(loads, c)
      /\ RouteOK(loads, c) /\ RecordOK(history, faults, i, c)
  BY DEF Good
<1> DEFINE state == IF ok THEN "ok" ELSE "failed"
<1>1. /\ DOMAIN d = Fields /\ d.state = state /\ d.acts = acts /\ d.heard = heard
      /\ d.load = c.load /\ d.via = c.via /\ d.key = c.key /\ d.trigger = c.trigger
      /\ d.address = c.address /\ d.outputs = c.outputs
  BY <1>0 DEF CallOK, Fields
<1>2. /\ c.via \in {"webhook", "manual", "shadow", "schedule"}
      /\ c.trigger.name # "shadow"
  BY <1>0 DEF CallOK
<1>3. /\ heard.code \in {"ok", "failed"} => state = heard.code
      /\ c.via = "webhook" /\ heard.code = "ok" => heard.reply \in Replies(c)
  <2>0. Hears("ok").code = "ok" /\ Hears("failed").code = "failed" /\ Unheard.code = "nothing"
    BY DEF Hears, Unheard
  <2>1. CASE c.via = "schedule"
    <3>1. heard = Unheard
      BY <2>1 DEF Answers
    <3> QED BY <2>0, <2>1, <3>1
  <2>2. CASE c.via # "schedule" /\ ~ok
    <3>1. heard = Hears("failed")
      BY <2>2 DEF Answers
    <3> QED BY <2>0, <2>2, <3>1
  <2>3. CASE c.via \in {"manual", "shadow"} /\ ok
    <3>1. heard = Hears("ok")
      BY <2>3 DEF Answers
    <3> QED BY <2>0, <2>3, <3>1
  <2>4. CASE c.via = "webhook" /\ ok
    <3>1. heard \in {[code |-> "ok", reply |-> x] : x \in Replies(c)}
      BY <2>4 DEF Answers
    <3> QED BY <2>4, <3>1
  <2> QED BY <1>2, <2>1, <2>2, <2>3, <2>4
<1>4. CallOK(loads, phase, d) /\ RunOK(loads, d) /\ ReplyOK(loads, d) /\ RouteOK(loads, d)
  <2>1. /\ state \in {"ok", "failed", "cut"} /\ state # "cut"
        /\ state = "ok" => acts = c.acts /\ Len(c.outputs) = Len(Nodes(loads, c))
    OBVIOUS
  <2> HIDE DEF state
  <2>2. Over(c, d)
    BY <1>1, <1>3, <2>1 DEF Over
  <2> QED BY <1>0, <2>2, OverKeeps
<1>5. \A n \in DOMAIN history : history[n].of # i
  BY <1>0 DEF RecordOK
<1> DEFINE g == Append(history, r)
<1>6. /\ \A n \in DOMAIN history : n \in DOMAIN g /\ g[n] = history[n]
      /\ \A n \in DOMAIN g : n \in DOMAIN history \/ n = Len(history) + 1
      /\ Len(history) + 1 \in DOMAIN g /\ g[Len(history) + 1] = r
  BY Appended DEF HistoryInv
<1>7. r.of = i /\ r.ok = ok /\ r.trigger = Label(c)
  OBVIOUS
<1>8. c.via = "shadow" <=> Label(c) = "shadow"
  BY <1>2 DEF Label
<1> HIDE DEF g
<1>9. RecordOK(g, faults, i, d)
  <2>1. ASSUME NEW n \in DOMAIN g, g[n].of = i
        PROVE  /\ d.state = (IF g[n].ok THEN "ok" ELSE "failed")
               /\ d.via = "shadow" <=> g[n].trigger = "shadow"
    <3>1. g[n] = r
      BY <1>5, <1>6, <2>1
    <3> QED BY <1>1, <1>7, <1>8, <3>1
  <2> QED BY <1>6, <1>7, <2>1 DEF RecordOK
<1>10. RecordOK(history, faults + 1, i, d)
  BY <1>5 DEF RecordOK
<1> QED BY <1>4, <1>5, <1>9, <1>10 DEF g

----------------------------------------------------------------------------
(* The steps *)

\* What a call that begins has to be.
Sane(via, key, trigger, address, state, heard) ==
  LET l == loads[Len(loads)]
      routes == RoutesTo(l.store, l.order, address)
  IN  /\ via \in {"webhook", "manual", "shadow", "schedule"}
      /\ state \in {"none", "running"}
      /\ state = "none" => heard.code \notin {"ok", "failed"}
      /\ state = "running" =>
           /\ heard = Unheard /\ key \in DOMAIN l.store
           /\ trigger.name # "shadow"
           /\ via = "webhook" => trigger.mode \in Modes
      /\ via = "webhook" =>
           /\ address \in Addresses
           /\ IF routes = {}
              THEN state = "none" /\ key = NoId /\ trigger = NoId
              ELSE /\ state = "running" /\ key = l.order[First(routes)[1]]
                   /\ trigger = TriggerOf(l.store, l.order, First(routes))

LEMMA CallIsGood ==
  ASSUME LoadsInv, phase # "down", NEW i, \A n \in DOMAIN history : history[n].of # i,
         NEW via, NEW key, NEW trigger, NEW address, NEW state, NEW heard,
         Sane(via, key, trigger, address, state, heard),
         NEW c, c = [load |-> Len(loads), via |-> via, key |-> key, trigger |-> trigger,
                     address |-> address, outputs |-> <<>>, acts |-> {}, state |-> state,
                     heard |-> heard]
  PROVE  Good(i, c)
<1>1. /\ DOMAIN c = Fields /\ c.load = Len(loads) /\ c.via = via /\ c.key = key
      /\ c.trigger = trigger /\ c.address = address /\ c.outputs = <<>> /\ c.acts = {}
      /\ c.state = state /\ c.heard = heard
  BY DEF Fields
<1>2. Len(loads) \in DOMAIN loads /\ \A n \in DOMAIN loads : loads[n] \in Processes
  BY DEF LoadsInv
<1>3. CallOK(loads, phase, c)
  BY <1>1, <1>2 DEF CallOK, Sane, States, Unheard
<1>4. RunOK(loads, c)
  <2>1. <<>> \in Seq(Range(<<>>)) /\ DOMAIN <<>> = {} /\ Len(<<>>) = 0
    OBVIOUS
  <2>2. ASSUME state # "none"
        PROVE  /\ 0 <= Len(Nodes(loads, c))
               /\ {} = {n \in ActNodes(Nodes(loads, c)) : n <= 0}
    <3> DEFINE body == Nodes(loads, c)
    <3>1. body \in Seq(Kinds)
      BY <1>1, <1>2, <2>2, NodesTyped DEF Sane
    <3> HIDE DEF body
    <3>2. Len(body) \in Nat /\ \A n \in DOMAIN body : n \in Nat /\ ~(n <= 0)
      <4>1. Len(body) \in Nat /\ DOMAIN body = 1..Len(body)
        BY <3>1
      <4> QED BY <4>1
    <3>3. 0 <= Len(body) /\ {n \in ActNodes(body) : n <= 0} = {}
      BY <3>2 DEF ActNodes
    <3> QED BY <3>3 DEF body
  <2>3. state \in {"none", "running"}
    BY DEF Sane
  <2> QED BY <1>1, <2>1, <2>2, <2>3 DEF RunOK
<1>5. ReplyOK(loads, c)
  <2>1. heard.code # "ok"
    BY DEF Sane, Unheard
  <2> QED BY <1>1, <2>1 DEF ReplyOK
<1>6. RouteOK(loads, c)
  BY <1>1 DEF RouteOK, Sane
<1>7. RecordOK(history, faults, i, c)
  BY <1>1 DEF RecordOK, Sane
<1> QED BY <1>3, <1>4, <1>5, <1>6, <1>7 DEF Good

LEMMA CallKeeps ==
  ASSUME ServerInv, phase # "down",
         NEW via, NEW key, NEW trigger, NEW address, NEW state, NEW heard,
         Sane(via, key, trigger, address, state, heard),
         Call(via, key, trigger, address, state, heard)
  PROVE  ServerInv'
<1> DEFINE c == [load |-> Len(loads), via |-> via, key |-> key, trigger |-> trigger,
                 address |-> address, outputs |-> <<>>, acts |-> {}, state |-> state,
                 heard |-> heard]
           i == Len(calls) + 1
<1>1. /\ calls' = Append(calls, c)
      /\ phase' = phase /\ loads' = loads /\ history' = history /\ faults' = faults
  BY DEF Call
<1>2. LoadsInv /\ HistoryInv /\ calls \in Seq(Range(calls))
      /\ \A j \in DOMAIN calls : Good(j, calls[j])
  BY DEF ServerInv
<1>3. /\ calls' \in Seq(Range(calls')) /\ Len(calls) \in Nat /\ DOMAIN calls = 1..Len(calls)
      /\ \A j \in DOMAIN calls : j \in DOMAIN calls' /\ calls'[j] = calls[j]
      /\ \A j \in DOMAIN calls' : j \in DOMAIN calls \/ j = i
      /\ calls'[i] = c
  <2> HIDE DEF c
  <2> QED BY <1>1, <1>2, Appended
<1>4. \A n \in DOMAIN history : history[n].of # i
  BY <1>2, <1>3 DEF HistoryInv
<1>5. Good(i, c)
  BY <1>2, <1>4, CallIsGood
<1> HIDE DEF c, i
<1>6. ASSUME NEW j \in DOMAIN calls' PROVE Good(j, calls'[j])
  BY <1>2, <1>3, <1>5, <1>6
<1>7. \A j \in DOMAIN calls' : Good(j, calls[j])'
  BY <1>1, <1>6 DEF Good
<1>8. LoadsInv' /\ HistoryInv'
  BY <1>1, <1>2, <1>3 DEF LoadsInv, HistoryInv
<1> QED BY <1>1, <1>3, <1>7, <1>8 DEF ServerInv

\* Every request, and every firing of a schedule, is sane.
LEMMA AskedIsSane ==
  ASSUME ServerInv,
         \/ \E a \in Addresses : Webhook(a)
         \/ \E k \in Keys : Manual(k, "manual") \/ Manual(k, "shadow")
         \/ phase # "down" /\ \E s \in Scheduled(Loaded.store) : Fire(s)
  PROVE  ServerInv'
<1> DEFINE l == loads[Len(loads)]
<1>1. /\ phase # "down"
      /\ Hears("not found").code = "not found" /\ Hears("bad request").code = "bad request"
  BY DEF Webhook, Manual, Hears, Unheard
<1>2. Loaded = l /\ l \in Processes
  <2>1. /\ loads \in Seq(Range(loads)) /\ loads # <<>>
        /\ \A n \in DOMAIN loads : loads[n] \in Processes
    BY <1>1 DEF ServerInv, LoadsInv
  <2>2. Len(loads) \in DOMAIN loads
    BY <2>1
  <2> QED BY <2>1, <2>2 DEF Loaded, Last
<1> HIDE DEF l
<1>3. ASSUME NEW a \in Addresses, Webhook(a)
      PROVE  ServerInv'
  <2> DEFINE routes == RoutesTo(l.store, l.order, a)
  <2>1. CASE routes = {}
    <3>1. Call("webhook", NoId, NoId, a, "none", Hears("not found"))
      BY <1>2, <1>3, <2>1 DEF Webhook
    <3>2. Sane("webhook", NoId, NoId, a, "none", Hears("not found"))
      BY <1>1, <2>1 DEF Sane, l
    <3> QED BY <1>1, <3>1, <3>2, CallKeeps
  <2>2. CASE routes # {}
    <3> DEFINE k == l.order[First(routes)[1]]
               t == TriggerOf(l.store, l.order, First(routes))
    <3>1. Call("webhook", k, t, a, "running", Unheard)
      BY <1>2, <1>3, <2>2 DEF Webhook, Routed
    <3>2. k \in DOMAIN l.store /\ t.mode \in Modes /\ t.name # "shadow"
      BY <1>2, <2>2, RoutesReach
    <3>3. Sane("webhook", k, t, a, "running", Unheard)
      BY <2>2, <3>2 DEF Sane, l
    <3> QED BY <1>1, <3>1, <3>3, CallKeeps
  <2> QED BY <2>1, <2>2
<1>4. ASSUME NEW k \in Keys, NEW via \in {"manual", "shadow"}, Manual(k, via)
      PROVE  ServerInv'
  <2>1. CASE k \notin DOMAIN l.store
    <3>1. Call(via, k, NoId, NoAddress, "none", Hears("not found"))
      BY <1>2, <1>4, <2>1 DEF Manual
    <3>2. Sane(via, k, NoId, NoAddress, "none", Hears("not found"))
      BY <1>1 DEF Sane
    <3> QED BY <1>1, <3>1, <3>2, CallKeeps
  <2>2. CASE k \in DOMAIN l.store /\ Enabled(l.store[k]) = {}
    <3>1. Call(via, k, NoId, NoAddress, "none", Hears("bad request"))
      BY <1>2, <1>4, <2>2 DEF Manual
    <3>2. Sane(via, k, NoId, NoAddress, "none", Hears("bad request"))
      BY <1>1 DEF Sane
    <3> QED BY <1>1, <3>1, <3>2, CallKeeps
  <2>3. CASE k \in DOMAIN l.store /\ Enabled(l.store[k]) # {}
    <3> DEFINE t == l.store[k].triggers[Min(Enabled(l.store[k]))]
    <3>1. Call(via, k, t, NoAddress, "running", Unheard)
      BY <1>2, <1>4, <2>3 DEF Manual
    <3>2. t.name # "shadow"
      BY <1>2, <2>3, Triggered
    <3>3. Sane(via, k, t, NoAddress, "running", Unheard)
      BY <2>3, <3>2 DEF Sane, l
    <3> QED BY <1>1, <3>1, <3>3, CallKeeps
  <2> QED BY <2>1, <2>2, <2>3
<1>5. ASSUME NEW s \in Scheduled(Loaded.store), Fire(s)
      PROVE  ServerInv'
  <2>1. s.key \in DOMAIN l.store /\ s.trigger.name # "shadow"
    BY <1>2, <1>5, ScheduledHere
  <2>2. Call("schedule", s.key, s.trigger, NoAddress, "running", Unheard)
    BY <1>5 DEF Fire
  <2>3. Sane("schedule", s.key, s.trigger, NoAddress, "running", Unheard)
    BY <2>1 DEF Sane, l
  <2> QED BY <1>1, <2>2, <2>3, CallKeeps
<1> QED BY <1>3, <1>4, <1>5

LEMMA ServerStarts == Init => ServerInv
<1> SUFFICES ASSUME Init PROVE ServerInv
  OBVIOUS
<1>1. <<>> \in Seq(Range(<<>>)) /\ DOMAIN <<>> = {}
  OBVIOUS
<1>2. LoadsInv /\ HistoryInv
  BY <1>1 DEF Init, LoadsInv, HistoryInv
<1> QED BY <1>1, <1>2, ServerAssumption DEF Init, ServerInv

LEMMA LaunchKeeps == ServerInv /\ Launch => ServerInv'
<1> SUFFICES ASSUME ServerInv, Launch PROVE ServerInv'
  OBVIOUS
<1>1. PICK e \in Exports : \E order \in SetToSeqs(KeysOf(e)) :
        loads' = Append(loads, [export |-> e, store |-> FromExport(e), order |-> order])
  BY DEF Launch
<1>2. PICK order \in SetToSeqs(KeysOf(e)) :
        loads' = Append(loads, [export |-> e, store |-> FromExport(e), order |-> order])
  BY <1>1
<1> DEFINE l == [export |-> e, store |-> FromExport(e), order |-> order]
<1>3. l \in Processes
  BY DEF Processes
<1>4. /\ phase = "down" /\ phase' = "starting"
      /\ calls' = calls /\ history' = history /\ faults' = faults
  BY DEF Launch
<1>5. LoadsInv /\ HistoryInv /\ \A i \in DOMAIN calls : Good(i, calls[i])
  BY DEF ServerInv
<1> HIDE DEF l
<1>6. loads' = Append(loads, l) /\ loads \in Seq(Range(loads))
  BY <1>2, <1>5 DEF l, LoadsInv
<1>7. /\ loads' \in Seq(Range(loads')) /\ loads' # <<>>
      /\ \A n \in DOMAIN loads' : loads'[n] \in Processes
  <2>1. /\ \A n \in DOMAIN loads : Append(loads, l)[n] = loads[n]
        /\ \A n \in DOMAIN Append(loads, l) : n \in DOMAIN loads \/ n = Len(loads) + 1
        /\ Append(loads, l)[Len(loads) + 1] = l
        /\ Append(loads, l) \in Seq(Range(Append(loads, l))) /\ Append(loads, l) # <<>>
    BY <1>6, Appended
  <2> QED BY <1>3, <1>5, <1>6, <2>1 DEF LoadsInv
<1>8. Processes' = Processes
  OBVIOUS
<1>9. LoadsInv' /\ HistoryInv'
  BY <1>4, <1>5, <1>7, <1>8 DEF LoadsInv, HistoryInv
<1>10. ASSUME NEW i \in DOMAIN calls PROVE Good(i, calls[i])'
  <2> DEFINE c == calls[i]
  <2>1. /\ CallOK(loads, "down", c) /\ RunOK(loads, c) /\ ReplyOK(loads, c)
        /\ RouteOK(loads, c) /\ RecordOK(history, faults, i, c)
    BY <1>4, <1>5 DEF Good
  <2> HIDE DEF c
  <2>2. /\ CallOK(Append(loads, l), "starting", c) /\ RunOK(Append(loads, l), c)
        /\ ReplyOK(Append(loads, l), c) /\ RouteOK(Append(loads, l), c)
    BY <1>6, <2>1, LoadsGrow
  <2>3. calls'[i] = c
    BY <1>4 DEF c
  <2> QED BY <1>4, <1>6, <2>1, <2>2, <2>3 DEF Good
<1> QED BY <1>4, <1>9, <1>10 DEF ServerInv

LEMMA BindStays == ServerInv /\ Bind => ServerInv'
<1> SUFFICES ASSUME ServerInv, Bind PROVE ServerInv'
  OBVIOUS
<1>1. /\ phase = "starting" /\ phase' = "serving" /\ loads' = loads
      /\ calls' = calls /\ history' = history /\ faults' = faults
  BY DEF Bind
<1>2. LoadsInv' /\ HistoryInv'
  BY <1>1 DEF ServerInv, LoadsInv, HistoryInv
<1>3. ASSUME NEW i \in DOMAIN calls PROVE Good(i, calls[i])'
  <2>1. Good(i, calls[i])
    BY DEF ServerInv
  <2>2. CallOK(loads, "serving", calls[i])
    BY <1>1, <2>1, BindKeeps DEF Good
  <2> QED BY <1>1, <2>1, <2>2 DEF Good
<1> QED BY <1>1, <1>2, <1>3 DEF ServerInv

LEMMA StopKeeps == ServerInv /\ Stop => ServerInv'
<1> SUFFICES ASSUME ServerInv, Stop PROVE ServerInv'
  OBVIOUS
<1>1. /\ phase' = "down" /\ loads' = loads /\ history' = history /\ faults' = faults
      /\ calls' = [i \in DOMAIN calls |-> Cut(calls[i])]
  BY DEF Stop
<1>2. DOMAIN calls' = DOMAIN calls /\ \A i \in DOMAIN calls : calls'[i] = Cut(calls[i])
  BY <1>1
<1>3. calls' \in Seq(Range(calls'))
  <2> DEFINE S == {Cut(calls[i]) : i \in DOMAIN calls}
  <2>1. Len(calls) \in Nat /\ DOMAIN calls = 1..Len(calls)
    BY DEF ServerInv
  <2>2. calls' \in [1..Len(calls) -> S]
    BY <1>1, <2>1
  <2> HIDE DEF S
  <2>3. calls' \in Seq(S)
    BY <2>1, <2>2, SeqDef
  <2> QED BY <2>3, IsListed
<1>4. LoadsInv' /\ HistoryInv'
  BY <1>1, <1>2 DEF ServerInv, LoadsInv, HistoryInv
<1>5. ASSUME NEW i \in DOMAIN calls PROVE Good(i, calls[i])'
  <2>1. Good(i, calls[i])
    BY DEF ServerInv
  <2> DEFINE d == Cut(calls[i])
  <2>2. /\ CallOK(loads, "down", d) /\ RunOK(loads, d) /\ ReplyOK(loads, d)
        /\ RouteOK(loads, d) /\ RecordOK(history, faults, i, d)
    BY <2>1, CutKeeps DEF Good
  <2>3. calls'[i] = d
    BY <1>2
  <2> HIDE DEF d
  <2> QED BY <1>1, <2>2, <2>3 DEF Good
<1> QED BY <1>1, <1>2, <1>3, <1>4, <1>5 DEF ServerInv

\* One call changes and nothing else does.
LEMMA ChangeKeeps ==
  ASSUME ServerInv, NEW i \in DOMAIN calls, NEW d, Good(i, d),
         calls' = [calls EXCEPT ![i] = d], UNCHANGED <<phase, loads, history, faults>>
  PROVE  ServerInv'
<1>1. /\ phase' = phase /\ loads' = loads /\ history' = history /\ faults' = faults
      /\ calls \in Seq(Range(calls)) /\ \A j \in DOMAIN calls : Good(j, calls[j])
  BY DEF ServerInv
<1>2. calls' \in Seq(Range(calls')) /\ DOMAIN calls' = DOMAIN calls
  BY <1>1, Touched
<1>3. \A j \in DOMAIN calls : calls'[j] = (IF j = i THEN d ELSE calls[j])
  OBVIOUS
<1>4. \A j \in DOMAIN calls' : Good(j, calls'[j])
  BY <1>1, <1>2, <1>3
<1>5. \A j \in DOMAIN calls' : Good(j, calls[j])'
  BY <1>1, <1>4 DEF Good
<1>6. LoadsInv' /\ HistoryInv'
  BY <1>1, <1>2 DEF ServerInv, LoadsInv, HistoryInv
<1> QED BY <1>1, <1>2, <1>5, <1>6 DEF ServerInv

LEMMA StepStays ==
  ASSUME ServerInv, NEW i \in DOMAIN calls, Step(i)
  PROVE  ServerInv'
<1> DEFINE c == calls[i]
           d == [c EXCEPT !.outputs = Append(@, Output(c)), !.acts = Acted(c)]
<1>1. Good(i, c) /\ LoadsInv /\ Unfinished(c)
  BY DEF ServerInv, Step
<1>2. Good(i, d)
  <2> HIDE DEF c
  <2> QED BY <1>1, StepKeeps
<1>3. calls' = [calls EXCEPT ![i] = d] /\ UNCHANGED <<phase, loads, history, faults>>
  BY DEF Step
<1> HIDE DEF d
<1> QED BY <1>2, <1>3, ChangeKeeps

\* What a node that awaits something may have done when it fails or is dropped.
LEMMA MayHaveActed ==
  ASSUME LoadsInv, NEW i, NEW c, Good(i, c), Unfinished(c), NEW acts \in {c.acts, Acted(c)}
  PROVE  /\ c.state = "running" /\ acts \subseteq ActNodes(Nodes(loads, c))
         /\ c.via = "shadow" => acts = {}
<1>1. CallOK(loads, phase, c) /\ RunOK(loads, c)
  BY DEF Good
<1>2. /\ c.state = "running" /\ Acted(c) \subseteq ActNodes(Nodes(loads, c))
      /\ c.via = "shadow" => Acted(c) = {}
  BY <1>1, NextOutput
<1>3. c.acts \subseteq ActNodes(Nodes(loads, c)) /\ (c.via = "shadow" => c.acts = {})
  BY <1>1, <1>2 DEF RunOK
<1> QED BY <1>2, <1>3

LEMMA HangUpKeeps ==
  ASSUME ServerInv, NEW i \in DOMAIN calls, HangUp(i)
  PROVE  ServerInv'
<1> DEFINE c == calls[i]
<1>1. PICK acts \in {c.acts, Acted(c)} :
        calls' = [calls EXCEPT ![i].state = "cut", ![i].acts = acts]
  BY DEF HangUp
<1>2. /\ Good(i, c) /\ LoadsInv /\ Unfinished(c) /\ c.via # "schedule"
      /\ UNCHANGED <<phase, loads, history, faults>>
  BY DEF ServerInv, HangUp, Awaits, NodeIs
<1> DEFINE d == [c EXCEPT !.state = "cut", !.acts = acts]
<1>3. calls' = [calls EXCEPT ![i] = d]
  BY <1>1
<1> HIDE DEF c
<1>4. /\ CallOK(loads, phase, c) /\ RunOK(loads, c) /\ ReplyOK(loads, c)
      /\ RouteOK(loads, c) /\ RecordOK(history, faults, i, c)
  BY <1>2 DEF Good
<1>5. /\ DOMAIN d = Fields /\ d.state = "cut" /\ d.acts = acts /\ d.heard = c.heard
      /\ d.load = c.load /\ d.via = c.via /\ d.key = c.key /\ d.trigger = c.trigger
      /\ d.address = c.address /\ d.outputs = c.outputs
  BY <1>4 DEF CallOK, Fields
<1> HIDE DEF d
<1>6. /\ c.state = "running" /\ acts \subseteq ActNodes(Nodes(loads, c))
      /\ c.via = "shadow" => acts = {}
  BY <1>1, <1>2, MayHaveActed
<1>7. c.heard = Unheard /\ Unheard.code = "nothing"
  BY <1>4, <1>6 DEF CallOK, Unheard
<1>8. Over(c, d)
  BY <1>2, <1>5, <1>6, <1>7 DEF Over
<1>9. CallOK(loads, phase, d) /\ RunOK(loads, d) /\ ReplyOK(loads, d) /\ RouteOK(loads, d)
  BY <1>2, <1>4, <1>8, OverKeeps
<1>10. RecordOK(history, faults, i, d)
  BY <1>4, <1>5, <1>6 DEF RecordOK
<1>11. Good(i, d)
  BY <1>9, <1>10 DEF Good
<1> QED BY <1>2, <1>3, <1>11, ChangeKeeps

LEMMA EndStays ==
  ASSUME ServerInv, NEW i \in DOMAIN calls, calls[i].state = "running",
         NEW acts, acts \subseteq ActNodes(Nodes(loads, calls[i])),
         calls[i].via = "shadow" => acts = {},
         NEW ok \in BOOLEAN,
         ok => acts = calls[i].acts /\ Len(calls[i].outputs) = Len(Nodes(loads, calls[i])),
         End(i, acts, ok)
  PROVE  ServerInv'
<1> DEFINE c == calls[i]
           r == [key |-> c.key, trigger |-> Label(c), ok |-> ok, of |-> i]
<1>1. PICK heard \in Answers(c, ok) :
        calls' = [calls EXCEPT ![i].state = IF ok THEN "ok" ELSE "failed",
                               ![i].acts = acts, ![i].heard = heard]
  BY DEF End
<1> DEFINE d == [c EXCEPT !.state = IF ok THEN "ok" ELSE "failed", !.acts = acts,
                          !.heard = heard]
<1>2. calls' = [calls EXCEPT ![i] = d]
  BY <1>1
<1>3. /\ phase' = phase /\ loads' = loads
      /\ \/ history' = Append(history, r) /\ faults' = faults
         \/ faults < MaxFaults /\ faults' = faults + 1 /\ history' = history
  BY DEF End
<1>4. /\ LoadsInv /\ HistoryInv /\ calls \in Seq(Range(calls)) /\ Good(i, c)
      /\ faults \in 0..MaxFaults /\ MaxFaults \in Nat /\ faults \in Nat
      /\ \A j \in DOMAIN calls : Good(j, calls[j])
  BY ServerAssumption DEF ServerInv
<1>5. /\ CallOK(loads, phase, d) /\ RunOK(loads, d) /\ ReplyOK(loads, d) /\ RouteOK(loads, d)
      /\ RecordOK(Append(history, r), faults, i, d) /\ RecordOK(history, faults + 1, i, d)
      /\ \A n \in DOMAIN history : history[n].of # i
  <2>1. /\ c.state = "running" /\ acts \subseteq ActNodes(Nodes(loads, c))
        /\ c.via = "shadow" => acts = {}
        /\ ok => acts = c.acts /\ Len(c.outputs) = Len(Nodes(loads, c))
    OBVIOUS
  <2> HIDE DEF c
  <2> QED BY <1>1, <1>4, <2>1, EndKeeps
<1>6. r.of = i
  OBVIOUS
<1>7. calls' \in Seq(Range(calls')) /\ DOMAIN calls' = DOMAIN calls
  <2> HIDE DEF d
  <2> QED BY <1>2, <1>4, Touched
<1>8. \A j \in DOMAIN calls : calls'[j] = (IF j = i THEN d ELSE calls[j])
  <2> HIDE DEF d
  <2> QED BY <1>2
<1> HIDE DEF c, d, r
<1>9. ASSUME NEW j \in DOMAIN calls PROVE RecordOK(history', faults', j, calls'[j])
  <2>1. CASE j = i
    BY <1>3, <1>5, <1>8, <2>1
  <2>2. CASE j # i
    <3> DEFINE b == calls[j]
    <3>1. RecordOK(history, faults, j, b) /\ history \in Seq(Range(history))
      BY <1>4 DEF Good, HistoryInv
    <3>2. calls'[j] = b
      BY <1>8, <2>2
    <3> HIDE DEF b
    <3>3. RecordOK(Append(history, r), faults, j, b) /\ RecordOK(history, faults + 1, j, b)
      BY <1>4, <1>6, <2>2, <3>1, RecordElsewhere
    <3> QED BY <1>3, <3>2, <3>3
  <2> QED BY <2>1, <2>2
<1>10. ASSUME NEW j \in DOMAIN calls PROVE Good(j, calls[j])'
  <2>1. /\ CallOK(loads, phase, calls'[j]) /\ RunOK(loads, calls'[j])
        /\ ReplyOK(loads, calls'[j]) /\ RouteOK(loads, calls'[j])
    BY <1>4, <1>5, <1>8 DEF Good
  <2> QED BY <1>3, <1>9, <2>1 DEF Good
<1>11. HistoryInv'
  <2>1. CASE history' = history
    BY <1>4, <1>7, <2>1 DEF HistoryInv
  <2>2. CASE history' = Append(history, r)
    <3>1. /\ history' \in Seq(Range(history'))
          /\ \A n \in DOMAIN history : n \in DOMAIN history' /\ history'[n] = history[n]
          /\ \A n \in DOMAIN history' : n \in DOMAIN history \/ n = Len(history) + 1
          /\ history'[Len(history) + 1] = r
      BY <1>4, <2>2, Appended DEF HistoryInv
    <3>2. \A n \in DOMAIN history' : history'[n].of \in DOMAIN calls'
      BY <1>4, <1>6, <1>7, <3>1 DEF HistoryInv
    <3>3. \A m, n \in DOMAIN history' : history'[m].of = history'[n].of => m = n
      BY <1>4, <1>5, <1>6, <3>1 DEF HistoryInv
    <3> QED BY <3>1, <3>2, <3>3 DEF HistoryInv
  <2> QED BY <1>3, <2>1, <2>2
<1>12. LoadsInv' /\ faults' \in 0..MaxFaults /\ phase' \in {"down", "starting", "serving"}
  BY <1>3, <1>4 DEF LoadsInv, ServerInv
<1> QED BY <1>7, <1>10, <1>11, <1>12 DEF ServerInv

LEMMA FailKeeps ==
  ASSUME ServerInv, NEW i \in DOMAIN calls, Fail(i)
  PROVE  ServerInv'
<1>1. PICK acts \in {calls[i].acts, Acted(calls[i])} : End(i, acts, FALSE)
  BY DEF Fail
<1>2. Good(i, calls[i]) /\ LoadsInv /\ Unfinished(calls[i])
  BY DEF ServerInv, Fail, Awaits, NodeIs
<1>3. /\ calls[i].state = "running" /\ acts \subseteq ActNodes(Nodes(loads, calls[i]))
      /\ calls[i].via = "shadow" => acts = {}
  BY <1>1, <1>2, MayHaveActed
<1> QED BY <1>1, <1>3, EndStays

LEMMA FinishKeeps ==
  ASSUME ServerInv, NEW i \in DOMAIN calls, Finish(i)
  PROVE  ServerInv'
<1> DEFINE c == calls[i]
<1>1. c.state = "running" /\ ~Unfinished(c) /\ End(i, c.acts, TRUE)
  BY DEF Finish, Running
<1>2. CallOK(loads, phase, c) /\ RunOK(loads, c) /\ LoadsInv
  BY DEF ServerInv, Good
<1>3. Nodes(loads, c) \in Seq(Kinds) /\ c.outputs \in Seq(Range(c.outputs))
  BY <1>1, <1>2, NodesTyped DEF LoadsInv, CallOK, RunOK
<1>4. Body(c) = Nodes(loads, c)
  BY DEF Body, Store, Nodes
<1>5. Len(c.outputs) = Len(Nodes(loads, c))
  <2>1. ~(Len(c.outputs) + 1 <= Len(Nodes(loads, c)))
    BY <1>1, <1>4 DEF Unfinished, Running, Node
  <2>2. Len(c.outputs) <= Len(Nodes(loads, c))
    BY <1>1, <1>2 DEF RunOK
  <2> QED BY <1>3, <2>1, <2>2
<1>6. c.acts \subseteq ActNodes(Nodes(loads, c)) /\ (c.via = "shadow" => c.acts = {})
  BY <1>1, <1>2 DEF RunOK
<1> QED BY <1>1, <1>5, <1>6, EndStays

LEMMA ServerMoves == ServerInv /\ [Next]_vars => ServerInv'
<1> SUFFICES ASSUME ServerInv, [Next]_vars PROVE ServerInv'
  OBVIOUS
<1>1. CASE Launch \/ Bind \/ Stop
  BY <1>1, LaunchKeeps, BindStays, StopKeeps
<1>2. CASE \/ \E a \in Addresses : Webhook(a)
           \/ \E k \in Keys : Manual(k, "manual") \/ Manual(k, "shadow")
           \/ phase # "down" /\ \E s \in Scheduled(Loaded.store) : Fire(s)
  BY <1>2, AskedIsSane
<1>3. CASE \E i \in DOMAIN calls : Step(i) \/ Fail(i) \/ Finish(i) \/ HangUp(i)
  BY <1>3, StepStays, FailKeeps, FinishKeeps, HangUpKeeps
<1>4. CASE UNCHANGED vars
  BY <1>4 DEF vars, ServerInv, LoadsInv, HistoryInv, Good
<1> QED BY <1>1, <1>2, <1>3, <1>4 DEF Next

LEMMA ServerKeeps == Spec => []ServerInv
<1> QED BY ServerStarts, ServerMoves, PTL DEF Spec

----------------------------------------------------------------------------
(* What it promises *)

\* The service's types: only a process that is up has runs, which are no longer
\* than their workflow, and a caller hears of no run before it ends.
THEOREM ServerTyped == Spec => []TypeOK
<1>1. ASSUME ServerInv PROVE TypeOK
  <2>1. ASSUME NEW i \in DOMAIN calls
        PROVE  LET c == calls[i]
               IN  /\ c.load \in DOMAIN loads
                   /\ c.via \in {"webhook", "manual", "shadow", "schedule"}
                   /\ c.state \in States
                   /\ c.state # "none" =>
                        /\ c.key \in DOMAIN Store(c)
                        /\ Len(c.outputs) <= Len(Body(c))
                        /\ c.acts \subseteq DOMAIN Body(c)
                   /\ Running(c) => phase # "down" /\ c.load = Len(loads)
                   /\ c.state \in {"running", "cut"} => c.heard = Unheard
    <3> DEFINE c == calls[i]
    <3>1. CallOK(loads, phase, c) /\ RunOK(loads, c)
      BY <1>1 DEF ServerInv, Good
    <3>2. Body(c) = Nodes(loads, c) /\ Store(c) = loads[c.load].store
      BY DEF Body, Store, Nodes
    <3>3. ActNodes(Nodes(loads, c)) \subseteq DOMAIN Nodes(loads, c)
      BY DEF ActNodes
    <3> QED BY <3>1, <3>2, <3>3 DEF CallOK, RunOK, Running
  <2> QED BY <1>1, <2>1 DEF TypeOK, ServerInv, LoadsInv, HistoryInv
<1> QED BY <1>1, ServerKeeps, PTL

\* Over any edits of the export and any restarts: webhook sends a request to an
\* active workflow of what its process loaded, always to the same one, and says
\* "not found" only when there is none; and a schedule that --validate accepts
\* is one of Store::schedules.
THEOREM RequestsAlwaysReach == Spec => []RequestsReachTheirWorkflow
<1> SUFFICES ASSUME ServerInv PROVE RequestsReachTheirWorkflow
  BY ServerKeeps, PTL
<1>1. \A n \in DOMAIN loads : loads[n] \in Processes
  BY DEF ServerInv, LoadsInv
<1>2. \A n \in Webhooks : /\ n \in DOMAIN calls /\ calls[n].via = "webhook"
                          /\ calls[n].load \in DOMAIN loads /\ RouteOK(loads, calls[n])
  BY DEF Webhooks, ServerInv, Good, CallOK
<1>3. ASSUME NEW n \in Webhooks
      PROVE  LET c == calls[n]
                 e == loads[c.load].export
                 able == Able(e, c.address)
             IN  IF c.state = "none"
                 THEN able = {}
                 ELSE \E i \in able : Key(e, i) = c.key /\ c.trigger \in Answering(e[i], c.address)
  <2> DEFINE c == calls[n]
             l == loads[c.load]
             routes == RoutesTo(l.store, l.order, c.address)
  <2>1. /\ l \in Processes /\ c.address \in Addresses
        /\ IF routes = {}
           THEN c.state = "none" /\ c.key = NoId /\ c.trigger = NoId
           ELSE /\ c.state # "none" /\ c.key = l.order[First(routes)[1]]
                /\ c.trigger = TriggerOf(l.store, l.order, First(routes))
    BY <1>1, <1>2 DEF RouteOK
  <2>2. /\ routes = {} => Able(l.export, c.address) = {}
        /\ routes # {} => \E i \in Able(l.export, c.address) :
             /\ Key(l.export, i) = l.order[First(routes)[1]]
             /\ TriggerOf(l.store, l.order, First(routes)) \in Answering(l.export[i], c.address)
    BY <2>1, RoutesReach
  <2> QED BY <2>1, <2>2
<1>4. ASSUME NEW m \in Webhooks, NEW n \in Webhooks,
             calls[m].load = calls[n].load, calls[m].address = calls[n].address
      PROVE  calls[m].key = calls[n].key /\ calls[m].trigger = calls[n].trigger
  <2> DEFINE l == loads[calls[m].load]
             routes == RoutesTo(l.store, l.order, calls[m].address)
  <2>1. CASE routes = {}
    BY <1>2, <1>4, <2>1 DEF RouteOK
  <2>2. CASE routes # {}
    BY <1>2, <1>4, <2>2 DEF RouteOK
  <2> QED BY <2>1, <2>2
<1>5. ASSUME NEW n \in DOMAIN loads, Validates(loads[n].export),
             NEW i \in DOMAIN loads[n].export, loads[n].export[i].active,
             Kept(loads[n].export, i), NEW t \in Range(loads[n].export[i].triggers),
             t.kind = "schedule", ~t.disabled, t.intervals # <<>>
      PROVE  [key |-> Key(loads[n].export, i), trigger |-> t] \in Scheduled(loads[n].store)
  <2> DEFINE l == loads[n]
             e == l.export
             k == Key(e, i)
             s == [key |-> k, trigger |-> t]
  <2>1. e \in Exports /\ l.store = FromExport(e)
    BY <1>1, IsProcess
  <2>2. k \in DOMAIN l.store /\ l.store[k] = e[i]
    BY <1>5, <2>1, KeptIsHeld
  <2>3. PICK j \in DOMAIN e[i].triggers : t = e[i].triggers[j]
    BY DEF Range
  <2>4. s \in ScheduleTriggers(l.store)
    <3>1. k \in ActiveKeys(l.store) /\ j \in TriggersIn(l.store[k], "schedule")
      BY <1>5, <2>2, <2>3 DEF ActiveKeys, TriggersIn, Enabled
    <3>2. s = [key |-> k, trigger |-> l.store[k].triggers[j]]
      BY <2>2, <2>3
    <3> HIDE DEF s, k, l, e
    <3> QED BY <3>1, <3>2 DEF ScheduleTriggers
  <2>5. Parses(t)
    BY <1>5, <2>1, <2>4 DEF Validates, Broken
  <2> QED BY <1>5, <2>4, <2>5 DEF Scheduled
<1> QED BY <1>3, <1>4, <1>5 DEF RequestsReachTheirWorkflow, Able

\* Over hang-ups, crashes and failed appends: record_of is appended once at most,
\* with the way the run ended; a rehearsal is recorded as one and changed nothing;
\* what changed something is recorded unless it was cut; and who was told that
\* it worked was told so of a run that did all it was to do, with its own reply.
THEOREM RecordsAlwaysAgree == Spec => []RecordsAndAnswersAgree
<1> SUFFICES ASSUME ServerInv PROVE RecordsAndAnswersAgree
  BY ServerKeeps, PTL
<1>1. ASSUME NEW i \in DOMAIN calls
      PROVE  LET c == calls[i]
                 recorded == RecordsOf(i) # {}
             IN  /\ Cardinality(RecordsOf(i)) <= 1
                 /\ \A n \in RecordsOf(i) :
                      /\ c.state = (IF history[n].ok THEN "ok" ELSE "failed")
                      /\ Rehearsal(c) <=> history[n].trigger = "shadow"
                 /\ Rehearsal(c) => c.acts = {}
                 /\ c.acts # {} /\ ~Running(c) => recorded \/ c.state = "cut" \/ faults > 0
                 /\ c.via = "schedule" /\ c.state = "cut" => phase = "down" \/ c.load < Len(loads)
                 /\ c.state = "ok" /\ ~Rehearsal(c) => c.acts = ActsOf(c)
                 /\ c.heard.code \in {"ok", "failed"} =>
                      c.state = c.heard.code /\ (recorded \/ faults > 0)
                 /\ c.via = "webhook" /\ c.heard.code = "ok" => ReplyIsTheNodes(c)
  <2> DEFINE c == calls[i]
             body == Nodes(loads, c)
  <2>1. /\ CallOK(loads, phase, c) /\ RunOK(loads, c) /\ ReplyOK(loads, c)
        /\ RecordOK(history, faults, i, c) /\ HistoryInv /\ LoadsInv
    BY DEF ServerInv, Good
  <2>2. Body(c) = body
    BY DEF Body, Store, Nodes
  <2>3. Cardinality(RecordsOf(i)) <= 1
    <3>1. \A m, n \in RecordsOf(i) : m = n
      BY <2>1 DEF HistoryInv, RecordsOf
    <3>2. CASE RecordsOf(i) = {}
      BY <3>2, FS_EmptySet
    <3>3. CASE RecordsOf(i) # {}
      <4>1. PICK m \in RecordsOf(i) : RecordsOf(i) = {m}
        BY <3>1, <3>3
      <4> QED BY <4>1, FS_Singleton
    <3> QED BY <3>2, <3>3
  <2>4. \A n \in RecordsOf(i) :
          /\ c.state = (IF history[n].ok THEN "ok" ELSE "failed")
          /\ Rehearsal(c) <=> history[n].trigger = "shadow"
    BY <2>1 DEF RecordsOf, RecordOK, Rehearsal
  <2>5. c.state \in {"ok", "failed"} => RecordsOf(i) # {} \/ faults > 0
    BY <2>1 DEF RecordsOf, RecordOK
  <2>6. Rehearsal(c) => c.acts = {}
    BY <2>1 DEF RunOK, Rehearsal
  <2>7. c.acts # {} /\ ~Running(c) => RecordsOf(i) # {} \/ c.state = "cut" \/ faults > 0
    BY <2>1, <2>5 DEF RunOK, CallOK, States, Running
  <2>8. c.state = "ok" /\ ~Rehearsal(c) => c.acts = ActsOf(c)
    <3> SUFFICES ASSUME c.state = "ok", ~Rehearsal(c) PROVE c.acts = ActsOf(c)
      OBVIOUS
    <3>1. body \in Seq(Kinds)
      BY <2>1, NodesTyped DEF LoadsInv, CallOK
    <3>2. c.acts = {n \in ActNodes(body) : n <= Len(body)}
      BY <2>1 DEF RunOK, Rehearsal
    <3> HIDE DEF body
    <3>3. Len(body) \in Nat /\ DOMAIN body = 1..Len(body)
      BY <3>1
    <3>4. ActsOf(c) = ActNodes(body)
      BY <2>2 DEF ActsOf, ActNodes
    <3> QED BY <3>2, <3>3, <3>4 DEF ActNodes
  <2>9. c.heard.code \in {"ok", "failed"} =>
          c.state = c.heard.code /\ (RecordsOf(i) # {} \/ faults > 0)
    BY <2>1, <2>5 DEF CallOK
  <2>10. c.via = "webhook" /\ c.heard.code = "ok" => ReplyIsTheNodes(c)
    <3> SUFFICES ASSUME c.via = "webhook", c.heard.code = "ok" PROVE ReplyIsTheNodes(c)
      OBVIOUS
    <3>1. c.trigger.mode \in Modes
      BY <2>1 DEF CallOK
    <3>2. \A n : Responds(c, n) <=> Speaks(body, n)
      BY <2>2 DEF Responds, Speaks
    <3>3. CASE c.trigger.mode = "immediately"
      BY <2>1, <3>3 DEF ReplyOK, ReplyIsTheNodes
    <3>4. CASE c.trigger.mode = "lastNode"
      BY <2>1, <2>2, <3>4 DEF ReplyOK, ReplyIsTheNodes
    <3>5. CASE c.trigger.mode = "responseNode"
      BY <2>1, <2>2, <3>2, <3>5 DEF ReplyOK, ReplyIsTheNodes
    <3> QED BY <3>1, <3>3, <3>4, <3>5 DEF Modes
  <2>11. c.via = "schedule" /\ c.state = "cut" => phase = "down" \/ c.load < Len(loads)
    BY <2>1 DEF CallOK
  <2> QED BY <2>3, <2>4, <2>6, <2>7, <2>8, <2>9, <2>10, <2>11
<1> QED BY <1>1 DEF RecordsAndAnswersAgree
=============================================================================
