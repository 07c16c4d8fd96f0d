-------------------------- MODULE AutoReplyProofs --------------------------
(***************************************************************************)
(* What callers of hajime-wa are told, what histories tell, and the order  *)
(* of the replies: for any number of messages and callers, any changes of  *)
(* the session and any number of faults.                                   *)
(***************************************************************************)
EXTENDS AutoReply, TLAPS

\* Whatever WhatsApp took was posted, and "not connected" was said before
\* anything was.
HonestInv ==
  \A r \in Sends :
    /\ Contains(delivered, r) => serving[r] # "none"
    /\ answer[r] = "conflict" => serving[r] = "none"
    /\ answer[r] = "created" => Contains(delivered, r)
    /\ log[r] = "success" => answer[r] = "created"
    /\ log[r] = "failure" => answer[r] # "created"

\* A run waits for its reply, and is cut only for a message written off.
RunInv ==
  \A m \in Messages :
    /\ InFlight(m) => run[m] \in {"waiting", "cut"}
    /\ run[m] = "over" => asked[m] \in {"answered", "gone"}
    /\ run[m] = "cut" => forward[m] = "failed"

\* A message is posted when every earlier one was answered or given up.
Past(m) == forward[m] \in {"answered", "failed"}

OrderInv ==
  /\ IsInjective(arrived)
  /\ \A m, n \in Messages :
       /\ Contains(arrived, m)
       /\ forward[n] = "posting" \/ Past(n)
       /\ Came(m) < Came(n)
       => Past(m)

IInv == TypeOK /\ HonestInv /\ RunInv /\ OrderInv /\ ConfirmedInOrder

----------------------------------------------------------------------------
(* The two processes of hajime-wa *)

\* What a step of the whole system is to hajime-wa and its bridge.
WaNext ==
  \/ WaStep
  \/ BridgeCrash
  \/ \E r \in Sends : Ask(r) \/ (HangUp(r) /\ (NoFault \/ Fault))
  \/ (NoFault \/ Fault) /\ UNCHANGED <<session, asked, answer, serving, delivered, log>>
  \/ UNCHANGED waVars

\* Every step of the system is one of these.
LEMMA StepsOfWhatsApp == [Next]_vars => WaNext
<1>a. ASSUME NEW r \in Sends, Ask(r) \/ Leave(r) PROVE WaNext
  BY <1>a DEF WaNext, Leave
<1> USE AutoReplyAssumption DEF WaNext
<1>1. ASSUME NEW m \in Messages,
             \/ Arrive(m) \/ Post(m) \/ GiveUp(m) \/ NodePosts(m) \/ Cut(m) \/ Dropped(m)
      PROVE  WaNext
  <2>1. m \in Sends
    OBVIOUS
  <2>2. Ask(m) \/ Leave(m) \/ UNCHANGED waVars
    BY <1>1 DEF Arrive, Post, GiveUp, NodePosts, Cut, Dropped
  <2> HIDE DEF WaNext
  <2>3. CASE Ask(m) \/ Leave(m)
    BY <1>a, <2>1, <2>3
  <2>4. CASE UNCHANGED waVars
    BY <2>4 DEF WaNext
  <2> QED BY <2>2, <2>3, <2>4
<1>2. ASSUME NEW m \in Messages, PostFails(m) \/ NodeDone(m) \/ NodeFails(m) \/ NodeTimeout(m)
      PROVE  WaNext
  BY <1>2 DEF PostFails, NodeDone, NodeFails, NodeTimeout, EndRun
<1>3. ASSUME NEW r \in Direct, Other(r) PROVE WaNext
  BY <1>3, <1>a DEF Other, Direct
<1>4. CASE (WaStep /\ UNCHANGED arVars) \/ BridgeDown \/ WorkflowCrash \/ UNCHANGED vars
  BY <1>4 DEF BridgeDown, WorkflowCrash, vars
<1> HIDE DEF WaNext
<1> QED BY <1>1, <1>2, <1>3, <1>4 DEF Next

\* A message more in a sequence, and what it then contains.
LEMMA Appending ==
  ASSUME NEW S, NEW s \in Seq(S), NEW e \in S
  PROVE  /\ Append(s, e) \in Seq(S)
         /\ \A d : Contains(Append(s, e), d) <=> Contains(s, d) \/ d = e
<1>1. /\ Append(s, e) \in Seq(S)
      /\ Len(Append(s, e)) = Len(s) + 1
      /\ \A i \in 1 .. Len(s) : Append(s, e)[i] = s[i]
      /\ Append(s, e)[Len(s) + 1] = e
      /\ Len(s) \in Nat
  OBVIOUS
<1>2. \A i \in 1 .. Len(s) + 1 : i \in 1 .. Len(s) \/ i = Len(s) + 1
  BY <1>1
<1>3. ASSUME NEW d PROVE Contains(Append(s, e), d) <=> Contains(s, d) \/ d = e
  <2>1. Contains(s, d) => Contains(Append(s, e), d)
    BY <1>1 DEF Contains
  <2>2. Contains(Append(s, e), e)
    BY <1>1 DEF Contains
  <2>3. Contains(Append(s, e), d) => Contains(s, d) \/ d = e
    BY <1>1, <1>2 DEF Contains
  <2> QED BY <2>1, <2>2, <2>3
<1> QED BY <1>1, <1>3

\* hajime-wa and the bridge agree on how far a send is, whoever gives up.
LEMMA WaTypes ==
  ASSUME WaTypeOK, WaNext
  PROVE  WaTypeOK'
<1> USE DEF WaTypeOK, session
<1>1. CASE GoesOnline
  BY <1>1 DEF GoesOnline, Change, Events
<1>2. CASE GoesOffline
  <2>1. /\ online /\ ~online'
        /\ paired' = paired \/ paired' = FALSE
        /\ UNCHANGED <<running, qr>>
    BY <1>2, Zenon DEF GoesOffline
  <2>2. online' \in BOOLEAN
    BY <1>2 DEF GoesOffline
  <2>3. paired' \in BOOLEAN
    <3>1. CASE paired' = paired
      BY <3>1
    <3>2. CASE paired' = FALSE
      BY <3>2
    <3> QED BY <2>1, <3>1, <3>2
  <2>4. qr' => running' /\ ~paired'
    BY <2>1, Zenon
  <2>5. /\ raised' = raised \cup {"Disconnected"} \/ raised' = raised \cup {"LoggedOut"}
        /\ changes' = changes + 1
        /\ UNCHANGED <<status, asked, answer, serving, delivered, log, faults>>
    BY <1>2, Zenon DEF GoesOffline, Change
  <2>6. raised' \subseteq Events
    <3>1. raised \subseteq Events
      OBVIOUS
    <3> HIDE DEF WaTypeOK
    <3> QED BY <2>5, <3>1 DEF Events
  <2>7. changes' \in Nat
    BY <2>5
  <2> QED BY <2>1, <2>2, <2>3, <2>4, <2>5, <2>6, <2>7
<1>3. CASE Scan
  <2>1. ~online /\ ~qr' /\ paired' \in BOOLEAN /\ qr' \in BOOLEAN
    BY <1>3, Zenon DEF Scan
  <2>2. UNCHANGED <<running, online, raised, asked, answer, serving, delivered, log, faults>>
    BY <1>3 DEF Scan, Change
  <2>3. changes' \in Nat /\ status' \in Statuses
    BY <1>3 DEF Scan, Change, Statuses
  <2> QED BY <2>1, <2>2, <2>3
<1>4. ASSUME NEW e \in Events, Handle(e) PROVE WaTypeOK'
  BY <1>4 DEF Handle, NoFault, Events, Statuses
<1>5. ASSUME NEW r \in Sends, Ask(r) PROVE WaTypeOK'
  BY <1>5 DEF Ask, NoFault
<1>6. ASSUME NEW r \in Sends, Look(r) PROVE WaTypeOK'
  BY <1>6 DEF Look, Answer, NoFault, Fault
<1>7. ASSUME NEW r \in Sends, Accept(r) PROVE WaTypeOK'
  BY <1>7 DEF Accept, Back, Answer, NoAnswer, NoFault, Fault
<1>8. ASSUME NEW r \in Sends, Transmit(r) PROVE WaTypeOK'
  <2>1. delivered' \in Seq(Sends)
    BY <1>8, Appending DEF Transmit
  <2> QED BY <1>8, <2>1 DEF Transmit, NoFault
<1>9. ASSUME NEW r \in Sends, Ack(r) PROVE WaTypeOK'
  BY <1>9, SMTT(30) DEF Ack, Back, Answer, NoAnswer, NoFault, Fault
<1>10. ASSUME NEW r \in Sends, SendFails(r) PROVE WaTypeOK'
  BY <1>10 DEF SendFails, Back, Answer, NoAnswer, NoFault, Fault
<1>11. ASSUME NEW r \in Sends, Timeout(r) PROVE WaTypeOK'
  BY <1>11 DEF Timeout, InFlight, Answer, NoFault, Fault
<1>12. ASSUME NEW r \in Sends, Unreachable(r) PROVE WaTypeOK'
  BY <1>12 DEF Unreachable, Answer, NoFault, Fault
<1>13. ASSUME NEW r \in Sends, HangUp(r), NoFault \/ Fault PROVE WaTypeOK'
  BY <1>13 DEF HangUp, InFlight, NoFault, Fault
<1>14. ASSUME NEW r \in Sends, Notice(r) PROVE WaTypeOK'
  BY <1>14 DEF Notice, NoFault
<1>15. CASE GatewayCrash
  BY <1>15 DEF GatewayCrash, InFlight, Fault
<1>16. CASE BridgeCrash
  <2>1. /\ online' = FALSE /\ qr' = FALSE /\ running' = FALSE /\ raised' = {}
        /\ UNCHANGED <<paired, status, delivered, changes>>
        /\ faults' \in Nat
    BY <1>16 DEF BridgeCrash, Fault
  <2>2. /\ asked' \in [Sends -> {"idle", "looking", "posting", "answered", "gone"}]
        /\ answer' \in [Sends -> {"none", "created", "conflict", "unavailable", "rejected", "other"}]
        /\ serving' \in [Sends -> {"none", "posted", "sending", "over"}]
        /\ log' \in [Sends -> {"none", "success", "failure", "lost"}]
    BY <1>16 DEF BridgeCrash
  <2>3. ASSUME NEW r \in Sends
        PROVE  /\ serving'[r] # "none" => asked'[r] \in {"posting", "answered", "gone"}
               /\ serving'[r] \notin {"posted", "sending"}
               /\ asked'[r] # "posting"
               /\ asked'[r] = "answered" <=> answer'[r] # "none"
               /\ answer'[r] # "none" <=> log'[r] # "none"
    BY <1>16 DEF BridgeCrash
  <2> QED BY <2>1, <2>2, <2>3
<1>17. CASE BridgeStart
  BY <1>17 DEF BridgeStart, NoFault, Statuses
<1>18. CASE (NoFault \/ Fault) /\ UNCHANGED <<session, asked, answer, serving, delivered, log>>
  BY <1>18 DEF NoFault, Fault
<1>19. CASE UNCHANGED waVars
  BY <1>19 DEF waVars
<1> QED
  BY <1>1, <1>2, <1>3, <1>4, <1>5, <1>6, <1>7, <1>8, <1>9, <1>10, <1>11, <1>12, <1>13, <1>14,
     <1>15, <1>16, <1>17, <1>18, <1>19 DEF WaNext, WaStep

\* An answer is given once, to a send that is still under way, and a send is
\* posted once, by one that has no answer.
LEMMA Honesty ==
  ASSUME WaTypeOK, HonestInv, WaNext
  PROVE  HonestInv'
<1> DEFINE Goal(r) == /\ Contains(delivered', r) => serving'[r] # "none"
                      /\ answer'[r] = "conflict" => serving'[r] = "none"
                      /\ answer'[r] = "created" => Contains(delivered', r)
                      /\ log'[r] = "success" => answer'[r] = "created"
                      /\ log'[r] = "failure" => answer'[r] # "created"
<1> SUFFICES ASSUME NEW r \in Sends PROVE Goal(r)
  BY DEF HonestInv
<1>a. /\ Contains(delivered, r) => serving[r] # "none"
      /\ answer[r] = "conflict" => serving[r] = "none"
      /\ answer[r] = "created" => Contains(delivered, r)
      /\ log[r] = "success" => answer[r] = "created"
      /\ log[r] = "failure" => answer[r] # "created"
  BY DEF HonestInv
<1>b. /\ asked \in [Sends -> {"idle", "looking", "posting", "answered", "gone"}]
      /\ answer \in [Sends -> {"none", "created", "conflict", "unavailable", "rejected", "other"}]
      /\ serving \in [Sends -> {"none", "posted", "sending", "over"}]
      /\ log \in [Sends -> {"none", "success", "failure", "lost"}]
      /\ serving[r] # "none" => asked[r] \in {"posting", "answered", "gone"}
      /\ asked[r] = "posting" => serving[r] \in {"posted", "sending"}
      /\ asked[r] = "answered" <=> answer[r] # "none"
      /\ answer[r] # "none" <=> log[r] # "none"
  BY DEF WaTypeOK
<1>1. ASSUME UNCHANGED <<answer, serving, delivered, log>> PROVE Goal(r)
  BY <1>1, <1>a
<1>2. ASSUME NEW q \in Sends, Ask(q) PROVE Goal(r)
  BY <1>2, <1>a, <1>b DEF Ask
<1>3. ASSUME NEW q \in Sends, Look(q) PROVE Goal(r)
  BY <1>3, <1>a, <1>b DEF Look, Answer
<1>4. ASSUME NEW q \in Sends, Accept(q) PROVE Goal(r)
  BY <1>4, <1>a, <1>b DEF Accept, Back, Answer, NoAnswer
<1>5. ASSUME NEW q \in Sends, Transmit(q) PROVE Goal(r)
  <2>1. delivered' = Append(delivered, q) /\ serving[q] = "sending" /\ delivered \in Seq(Sends)
        /\ UNCHANGED <<answer, serving, log>>
    BY <1>5 DEF Transmit, WaTypeOK
  <2>2. Contains(delivered', r) <=> Contains(delivered, r) \/ r = q
    BY <2>1, Appending
  <2> QED BY <2>1, <2>2, <1>a, <1>b
<1>6. ASSUME NEW q \in Sends, Ack(q) PROVE Goal(r)
  BY <1>6, <1>a, <1>b DEF Ack, Back, Answer, NoAnswer
<1>7. ASSUME NEW q \in Sends, SendFails(q) PROVE Goal(r)
  BY <1>7, <1>a, <1>b DEF SendFails, Back, Answer, NoAnswer
<1>8. ASSUME NEW q \in Sends, Timeout(q) PROVE Goal(r)
  BY <1>8, <1>a, <1>b DEF Timeout, InFlight, Answer
<1>9. ASSUME NEW q \in Sends, Unreachable(q) PROVE Goal(r)
  BY <1>9, <1>a, <1>b DEF Unreachable, Answer
<1>10. ASSUME NEW q \in Sends, HangUp(q) PROVE Goal(r)
  BY <1>10, <1>a, <1>b DEF HangUp
<1>11. ASSUME NEW q \in Sends, Notice(q) PROVE Goal(r)
  BY <1>11, <1>a, <1>b DEF Notice
<1>12. CASE BridgeCrash
  BY <1>12, <1>a, <1>b DEF BridgeCrash
<1>13. CASE GoesOnline \/ GoesOffline \/ Scan \/ GatewayCrash \/ BridgeStart
  BY <1>13, <1>1 DEF GoesOnline, GoesOffline, Scan, GatewayCrash, BridgeStart
<1>14. ASSUME NEW e \in Events, Handle(e) PROVE Goal(r)
  BY <1>14, <1>1 DEF Handle
<1>15. CASE (NoFault \/ Fault) /\ UNCHANGED <<session, asked, answer, serving, delivered, log>>
  BY <1>15, <1>1
<1>16. CASE UNCHANGED waVars
  BY <1>16, <1>1 DEF waVars
<1> HIDE DEF Goal
<1> QED
  BY <1>2, <1>3, <1>4, <1>5, <1>6, <1>7, <1>8, <1>9, <1>10, <1>11, <1>12, <1>13, <1>14, <1>15,
     <1>16 DEF WaNext, WaStep

\* Only a caller wakes a send, and what was answered or given up stays so.
Settles ==
  \A r \in Sends :
    /\ asked'[r] = "idle" <=> asked[r] = "idle"
    /\ asked[r] \in {"answered", "gone"} => asked'[r] = asked[r] /\ answer'[r] = answer[r]

\* The two processes by themselves wake no send and change no answer given.
LEMMA Settling ==
  ASSUME WaTypeOK, WaStep \/ BridgeCrash \/ UNCHANGED <<asked, answer>>
  PROVE  Settles
<1> DEFINE Goal(r) == /\ asked'[r] = "idle" <=> asked[r] = "idle"
                      /\ asked[r] \in {"answered", "gone"} => asked'[r] = asked[r] /\ answer'[r] = answer[r]
<1> SUFFICES ASSUME NEW r \in Sends PROVE Goal(r)
  BY DEF Settles
<1>a. /\ asked \in [Sends -> {"idle", "looking", "posting", "answered", "gone"}]
      /\ answer \in [Sends -> {"none", "created", "conflict", "unavailable", "rejected", "other"}]
  BY DEF WaTypeOK
<1>1. ASSUME UNCHANGED <<asked, answer>> PROVE Goal(r)
  BY <1>1
<1>2. ASSUME NEW q \in Sends, Look(q) PROVE Goal(r)
  BY <1>2, <1>a DEF Look, Answer
<1>3. ASSUME NEW q \in Sends, Accept(q) PROVE Goal(r)
  BY <1>3, <1>a DEF Accept, Back, Answer, NoAnswer
<1>4. ASSUME NEW q \in Sends, Transmit(q) PROVE Goal(r)
  BY <1>4, <1>1 DEF Transmit
<1>5. ASSUME NEW q \in Sends, Ack(q) PROVE Goal(r)
  BY <1>5, <1>a DEF Ack, Back, Answer, NoAnswer
<1>6. ASSUME NEW q \in Sends, SendFails(q) PROVE Goal(r)
  BY <1>6, <1>a DEF SendFails, Back, Answer, NoAnswer
<1>7. ASSUME NEW q \in Sends, Timeout(q) PROVE Goal(r)
  BY <1>7, <1>a DEF Timeout, InFlight, Answer
<1>8. ASSUME NEW q \in Sends, Unreachable(q) PROVE Goal(r)
  BY <1>8, <1>a DEF Unreachable, Answer
<1>9. ASSUME NEW q \in Sends, Notice(q) PROVE Goal(r)
  BY <1>9, <1>1 DEF Notice
<1>10. CASE GatewayCrash
  BY <1>10, <1>a DEF GatewayCrash, InFlight
<1>11. CASE BridgeCrash
  BY <1>11, <1>a DEF BridgeCrash
<1>12. CASE GoesOnline \/ GoesOffline \/ Scan \/ BridgeStart
  BY <1>12, <1>1 DEF GoesOnline, GoesOffline, Scan, BridgeStart
<1>13. ASSUME NEW e \in Events, Handle(e) PROVE Goal(r)
  BY <1>13, <1>1 DEF Handle
<1> HIDE DEF Goal
<1> QED
  BY <1>1, <1>2, <1>3, <1>4, <1>5, <1>6, <1>7, <1>8, <1>9, <1>10, <1>11, <1>12, <1>13 DEF WaStep

----------------------------------------------------------------------------
(* Runs *)

\* The same with the forwarder and the runs.
LEMMA Types ==
  ASSUME TypeOK, [Next]_vars
  PROVE  TypeOK'
<1>1. WaTypeOK'
  BY StepsOfWhatsApp, WaTypes DEF TypeOK
<1> USE AutoReplyAssumption
<1>a. asked \in [Sends -> {"idle", "looking", "posting", "answered", "gone"}]
  BY DEF TypeOK, WaTypeOK
<1>2. CASE WaStep /\ UNCHANGED arVars
  <2>1. Settles
    BY <1>2, Settling DEF TypeOK
  <2> QED BY <1>1, <1>2, <2>1 DEF TypeOK, arVars, Settles
<1>3. CASE BridgeDown
  <2>1. Settles
    BY <1>3, Settling DEF TypeOK, BridgeDown
  <2> QED BY <1>1, <1>3, <2>1 DEF TypeOK, BridgeDown, Settles
<1>4. ASSUME NEW r \in Direct, Other(r) PROVE TypeOK'
  BY <1>1, <1>4, <1>a DEF TypeOK, Other, Direct, Ask, Leave, HangUp, arVars
<1>5. ASSUME NEW m \in Messages, Arrive(m) PROVE TypeOK'
  <2>1. /\ arrived' \in Seq(Messages)
        /\ \A n : Contains(arrived', n) <=> Contains(arrived, n) \/ n = m
    BY <1>5, Appending DEF Arrive, TypeOK
  <2> QED BY <1>1, <1>5, <2>1 DEF TypeOK, Arrive, waVars
<1>6. ASSUME NEW m \in Messages, Post(m) PROVE TypeOK'
  BY <1>1, <1>6 DEF TypeOK, Post, NextToPost, waVars
<1>7. ASSUME NEW m \in Messages, PostFails(m) PROVE TypeOK'
  BY <1>1, <1>7 DEF TypeOK, PostFails, NextToPost
<1>8. ASSUME NEW m \in Messages, GiveUp(m) PROVE TypeOK'
  BY <1>1, <1>8 DEF TypeOK, GiveUp, waVars
<1>9. ASSUME NEW m \in Messages, NodePosts(m) PROVE TypeOK'
  BY <1>1, <1>9, <1>a DEF TypeOK, NodePosts, Ask
<1>10. ASSUME NEW m \in Messages, NodeDone(m) PROVE TypeOK'
  BY <1>1, <1>10 DEF TypeOK, NodeDone, EndRun, waVars
<1>11. ASSUME NEW m \in Messages, NodeFails(m) PROVE TypeOK'
  BY <1>1, <1>11 DEF TypeOK, NodeFails, EndRun, waVars
<1>12. ASSUME NEW m \in Messages, NodeTimeout(m) PROVE TypeOK'
  BY <1>1, <1>12, <1>a DEF TypeOK, NodeTimeout, EndRun, Leave, HangUp
<1>13. ASSUME NEW m \in Messages, Cut(m) PROVE TypeOK'
  BY <1>1, <1>13 DEF TypeOK, Cut, waVars
<1>14. ASSUME NEW m \in Messages, Dropped(m) PROVE TypeOK'
  BY <1>1, <1>14, <1>a DEF TypeOK, Dropped, Leave, HangUp, arVars
<1>15. CASE WorkflowCrash
  BY <1>1, <1>15 DEF TypeOK, WorkflowCrash
<1>16. CASE UNCHANGED vars
  BY <1>1, <1>16 DEF TypeOK, vars, waVars, arVars
<1> QED
  BY <1>2, <1>3, <1>4, <1>5, <1>6, <1>7, <1>8, <1>9, <1>10, <1>11, <1>12, <1>13, <1>14, <1>15,
     <1>16 DEF Next

\* A run that waits has a reply under way, and the other way round.
LEMMA Runs ==
  ASSUME TypeOK, RunInv, [Next]_vars
  PROVE  RunInv'
<1> USE AutoReplyAssumption
<1>a. /\ asked \in [Sends -> {"idle", "looking", "posting", "answered", "gone"}]
      /\ run \in [Messages -> {"none", "begun", "waiting", "over", "cut"}]
      /\ wlog \in [Messages -> {"none", "success", "failure", "lost"}]
      /\ \A m \in Messages : asked[m] # "idle" => run[m] \in {"waiting", "over", "cut"}
      /\ \A m \in Messages : wlog[m] # "none" <=> run[m] = "over"
  BY DEF TypeOK, WaTypeOK
<1>b. asked' \in [Sends -> {"idle", "looking", "posting", "answered", "gone"}]
  BY Types DEF TypeOK, WaTypeOK
<1>c. /\ forward \in [Messages -> {"none", "waiting", "posting", "answered", "failed"}]
      /\ \A m \in Messages : run[m] # "none" => forward[m] \in {"posting", "answered", "failed"}
      /\ \A m \in Messages : forward[m] = "answered" => run[m] = "over"
  BY DEF TypeOK
<1> USE DEF RunInv, InFlight
<1>1. ASSUME UNCHANGED run, Settles, \A m \in Messages : forward[m] = "failed" => forward'[m] = "failed"
      PROVE  RunInv'
  BY <1>1, <1>a, <1>b DEF Settles
<1>2. CASE WaStep /\ UNCHANGED arVars
  BY <1>2, <1>1, Settling DEF TypeOK, arVars
<1>3. CASE BridgeDown
  <2>1. UNCHANGED run /\ \A m \in Messages : forward[m] = "failed" => forward'[m] = "failed"
    BY <1>3 DEF BridgeDown
  <2> QED BY <1>3, <1>1, <2>1, Settling DEF TypeOK, BridgeDown
<1>4. ASSUME NEW r \in Direct, Other(r) PROVE RunInv'
  BY <1>4, <1>a DEF Other, Direct, Ask, Leave, HangUp, arVars
<1>5. ASSUME NEW m \in Messages, Arrive(m) PROVE RunInv'
  <2>1. forward[m] = "none" /\ run[m] = "none"
    BY <1>5, <1>c DEF Arrive, TypeOK
  <2> QED BY <1>5, <1>c, <2>1 DEF Arrive, waVars
<1>6. ASSUME NEW m \in Messages, Post(m) PROVE RunInv'
  <2>1. run[m] = "none"
    BY <1>6 DEF Post, NextToPost, TypeOK
  <2> QED BY <1>6, <1>a, <2>1 DEF Post, waVars
<1>7. ASSUME NEW m \in Messages, PostFails(m) \/ GiveUp(m) PROVE RunInv'
  BY <1>7, <1>a, <1>c DEF PostFails, GiveUp, waVars
<1>8. ASSUME NEW m \in Messages, NodePosts(m) PROVE RunInv'
  BY <1>8, <1>a DEF NodePosts, Ask
<1>9. ASSUME NEW m \in Messages, NodeDone(m) PROVE RunInv'
  BY <1>9, <1>a DEF NodeDone, EndRun, waVars
<1>10. ASSUME NEW m \in Messages, NodeFails(m) PROVE RunInv'
  BY <1>10, <1>a DEF NodeFails, EndRun, waVars
<1>11. ASSUME NEW m \in Messages, NodeTimeout(m) PROVE RunInv'
  BY <1>11, <1>a DEF NodeTimeout, EndRun, Leave, HangUp
<1>12. ASSUME NEW m \in Messages, Cut(m) PROVE RunInv'
  BY <1>12, <1>a DEF Cut, waVars
<1>13. ASSUME NEW m \in Messages, Dropped(m) PROVE RunInv'
  BY <1>13, <1>a DEF Dropped, Leave, HangUp, arVars
<1>14. CASE WorkflowCrash
  BY <1>14, <1>a, <1>c DEF WorkflowCrash
<1>15. CASE UNCHANGED vars
  BY <1>15 DEF vars, waVars, arVars
<1> QED
  BY <1>2, <1>3, <1>4, <1>5, <1>6, <1>7, <1>8, <1>9, <1>10, <1>11, <1>12, <1>13, <1>14, <1>15
  DEF Next

----------------------------------------------------------------------------
(* Order *)

\* Where a message is in the sequence of those that came, and stays.
LEMMA Coming ==
  ASSUME TypeOK, IsInjective(arrived)
  PROVE  \A m \in Messages :
           /\ Contains(arrived, m) => Came(m) \in 1 .. Len(arrived) /\ arrived[Came(m)] = m
           /\ \A i \in 1 .. Len(arrived) : arrived[i] = m => Came(m) = i
<1>1. arrived \in Seq(Messages) /\ DOMAIN arrived = 1 .. Len(arrived)
  BY DEF TypeOK
<1> QED BY <1>1 DEF Came, Contains, IsInjective

\* A message that comes in is behind all that came.
LEMMA Arrivals ==
  ASSUME TypeOK, TypeOK', IsInjective(arrived), NEW k \in Messages, Arrive(k)
  PROVE  /\ IsInjective(arrived)'
         /\ Came(k)' \in Nat
         /\ \A m \in Messages : Contains(arrived, m) => Came(m)' = Came(m) /\ Came(m)' < Came(k)'
<1>1. /\ arrived' = Append(arrived, k)
      /\ ~Contains(arrived, k)
      /\ arrived \in Seq(Messages)
  BY DEF Arrive, TypeOK
<1>2. /\ DOMAIN arrived = 1 .. Len(arrived) /\ Len(arrived) \in Nat
      /\ DOMAIN arrived' = 1 .. Len(arrived) + 1 /\ Len(arrived') = Len(arrived) + 1
      /\ \A i \in 1 .. Len(arrived) : arrived'[i] = arrived[i] /\ arrived[i] # k
      /\ arrived'[Len(arrived) + 1] = k
  BY <1>1 DEF Contains
<1>3. IsInjective(arrived)'
  BY <1>2 DEF IsInjective
<1>4. \A m \in Messages : \A i \in 1 .. Len(arrived') : arrived'[i] = m => Came(m)' = i
  BY <1>2, <1>3 DEF IsInjective, Came
<1>5. Came(k)' = Len(arrived) + 1
  BY <1>2, <1>4
<1>6. ASSUME NEW m \in Messages, Contains(arrived, m)
      PROVE  Came(m)' = Came(m) /\ Came(m)' < Came(k)'
  <2>1. Came(m) \in 1 .. Len(arrived) /\ arrived[Came(m)] = m
    BY <1>6, Coming
  <2>2. Came(m) \in 1 .. Len(arrived') /\ arrived'[Came(m)] = m
    BY <1>2, <2>1
  <2>3. Came(m)' = Came(m)
    BY <1>4, <2>2
  <2> QED BY <1>2, <1>5, <2>1, <2>3
<1> QED BY <1>2, <1>3, <1>5, <1>6

\* The forwarder never goes back to a message.
LEMMA Forwarding ==
  ASSUME TypeOK, [Next]_vars
  PROVE  \A m \in Messages : Past(m) => forward'[m] = forward[m]
<1> USE DEF Past, TypeOK
<1>1. ASSUME NEW k \in Messages, Arrive(k) \/ Post(k) \/ PostFails(k) \/ GiveUp(k)
      PROVE  \A m \in Messages : Past(m) => forward'[m] = forward[m]
  BY <1>1 DEF Arrive, Post, PostFails, NextToPost, GiveUp
<1>2. ASSUME NEW k \in Messages, NodeDone(k) \/ NodeFails(k) \/ NodeTimeout(k)
      PROVE  \A m \in Messages : Past(m) => forward'[m] = forward[m]
  BY <1>2 DEF NodeDone, NodeFails, NodeTimeout, EndRun
<1>3. CASE BridgeDown \/ WorkflowCrash
  BY <1>3, ZenonT(60) DEF BridgeDown, WorkflowCrash
<1>4. ASSUME UNCHANGED forward
      PROVE  \A m \in Messages : Past(m) => forward'[m] = forward[m]
  BY <1>4
<1>5. ASSUME NEW k \in Messages, NodePosts(k) \/ Cut(k) \/ Dropped(k) PROVE UNCHANGED forward
  BY <1>5 DEF NodePosts, Cut, Dropped, arVars
<1>6. CASE WaStep /\ UNCHANGED arVars
  BY <1>4, <1>6 DEF arVars
<1>7. ASSUME NEW q \in Direct, Other(q) PROVE UNCHANGED forward
  BY <1>7 DEF Other, arVars
<1>8. CASE UNCHANGED vars
  BY <1>4, <1>8 DEF vars, arVars
<1> HIDE DEF Past, TypeOK
<1> QED BY <1>1, <1>2, <1>3, <1>4, <1>5, <1>6, <1>7, <1>8 DEF Next

\* A message is posted in its turn, whatever the fate of the ones before it.
LEMMA Orders ==
  ASSUME TypeOK, TypeOK', OrderInv, [Next]_vars
  PROVE  OrderInv'
<1> DEFINE Posted(n) == forward[n] = "posting" \/ Past(n)
<1>a. /\ IsInjective(arrived)
      /\ \A m, n \in Messages : Contains(arrived, m) /\ Posted(n) /\ Came(m) < Came(n) => Past(m)
  BY DEF OrderInv
<1>b. \A m \in Messages : Past(m) => Past(m)'
  BY Forwarding DEF Past
\* Steps that post nothing and let nothing in.
<1>1. ASSUME UNCHANGED arrived, \A n \in Messages : Posted(n)' => Posted(n)
      PROVE  OrderInv'
  <2>1. \A m \in Messages : Came(m)' = Came(m) /\ (Contains(arrived, m)' <=> Contains(arrived, m))
    BY <1>1 DEF Came
  <2> QED BY <1>1, <1>a, <1>b, <2>1 DEF OrderInv
<1>2. ASSUME NEW k \in Messages, Arrive(k) PROVE OrderInv'
  <2>1. /\ IsInjective(arrived)'
        /\ Came(k)' \in Nat
        /\ \A m \in Messages : Contains(arrived, m) => Came(m)' = Came(m) /\ Came(m)' < Came(k)'
    BY <1>2, <1>a, Arrivals
  <2>2. /\ \A m \in Messages : Contains(arrived, m)' <=> Contains(arrived, m) \/ m = k
        /\ ~Contains(arrived, k)
    BY <1>2, Appending DEF Arrive, TypeOK
  <2>3. forward'[k] = "waiting" /\ \A m \in Messages \ {k} : forward'[m] = forward[m]
    BY <1>2 DEF Arrive, TypeOK
  <2>4. ASSUME NEW m \in Messages, NEW n \in Messages,
               Contains(arrived, m)', Posted(n)', Came(m)' < Came(n)'
        PROVE  Past(m)'
    <3>1. n # k /\ Posted(n)
      BY <2>3, <2>4 DEF Past
    <3>2. Contains(arrived, n)
      BY <3>1 DEF Past, TypeOK
    <3>3. Came(n)' = Came(n) /\ Came(n)' < Came(k)' /\ Came(n) \in Nat
      BY <2>1, <3>2, <1>a, Coming
    <3>4. m # k
      BY <2>1, <2>4, <3>3
    <3>5. Contains(arrived, m) /\ Came(m)' = Came(m)
      BY <2>1, <2>2, <2>4, <3>4
    <3>6. Past(m)
      BY <1>a, <2>4, <3>1, <3>3, <3>5
    <3> QED BY <3>6, <1>b
  <2> QED BY <2>1, <2>4 DEF OrderInv
<1>3. ASSUME NEW k \in Messages, Post(k) \/ PostFails(k) PROVE OrderInv'
  <2>1. /\ UNCHANGED arrived
        /\ \A n \in Messages \ {k} : forward'[n] = forward[n]
        /\ forward[k] = "waiting"
        /\ \A n \in Messages : /\ forward[n] # "posting"
                               /\ forward[n] = "waiting" => Came(k) <= Came(n)
    BY <1>3 DEF Post, PostFails, NextToPost, TypeOK
  <2>2. \A m \in Messages : Came(m)' = Came(m) /\ (Contains(arrived, m)' <=> Contains(arrived, m))
    BY <2>1 DEF Came
  <2>3. ASSUME NEW m \in Messages, NEW n \in Messages,
               Contains(arrived, m), Posted(n)', Came(m) < Came(n)
        PROVE  Past(m)
    <3>1. CASE n = k
      <4>1. Contains(arrived, k)
        BY <2>1 DEF TypeOK
      <4>2. Came(m) \in Nat /\ Came(k) \in Nat
        BY <1>a, <2>3, <4>1, Coming
      <4>3. forward[m] # "waiting" /\ forward[m] # "posting" /\ forward[m] # "none"
        BY <2>1, <2>3, <3>1, <4>2 DEF TypeOK
      <4> QED BY <4>3 DEF Past, TypeOK
    <3>2. CASE n # k
      <4>1. Posted(n)
        BY <2>1, <2>3, <3>2 DEF Past
      <4> QED BY <1>a, <2>3, <4>1
    <3> QED BY <3>1, <3>2
  <2> QED BY <1>a, <1>b, <2>1, <2>2, <2>3 DEF OrderInv
<1>4. ASSUME NEW k \in Messages, GiveUp(k) \/ NodeDone(k) \/ NodeFails(k) \/ NodeTimeout(k)
      PROVE  OrderInv'
  <2>1. UNCHANGED arrived
    BY <1>4 DEF GiveUp, NodeDone, NodeFails, NodeTimeout, EndRun
  <2>2. \A n \in Messages : forward'[n] = forward[n] \/ forward[n] = "posting"
    BY <1>4 DEF GiveUp, NodeDone, NodeFails, NodeTimeout, EndRun, TypeOK
  <2> QED BY <1>1, <2>1, <2>2 DEF Past
<1>5. CASE WorkflowCrash
  <2>1. UNCHANGED arrived /\ \A n \in Messages : forward'[n] = forward[n] \/ forward[n] = "posting"
    BY <1>5 DEF WorkflowCrash
  <2> QED BY <1>1, <2>1 DEF Past
<1>6. CASE BridgeDown
  <2>1. UNCHANGED arrived /\ \A m \in Messages : Contains(arrived, m) => Past(m)'
    BY <1>6 DEF BridgeDown, TypeOK, Past
  <2> QED BY <1>a, <2>1 DEF OrderInv
<1>7. ASSUME UNCHANGED <<arrived, forward>> PROVE OrderInv'
  BY <1>1, <1>7 DEF Past
<1>8. ASSUME NEW k \in Messages, NodePosts(k) \/ Cut(k) \/ Dropped(k)
      PROVE  UNCHANGED <<arrived, forward>>
  BY <1>8 DEF NodePosts, Cut, Dropped, arVars
<1>9. ASSUME NEW q \in Direct, Other(q) PROVE UNCHANGED <<arrived, forward>>
  BY <1>9 DEF Other, arVars
<1>10. CASE WaStep /\ UNCHANGED arVars
  BY <1>7, <1>10 DEF arVars
<1>11. CASE UNCHANGED vars
  BY <1>7, <1>11 DEF vars, arVars
<1> QED
  BY <1>2, <1>3, <1>4, <1>5, <1>6, <1>7, <1>8, <1>9, <1>10, <1>11 DEF Next

\* A message that has a reply came in and was posted.
LEMMA RepliesFollow ==
  ASSUME TypeOK, HonestInv, NEW m \in Messages, Contains(delivered, m)
  PROVE  Contains(arrived, m) /\ (forward[m] = "posting" \/ Past(m))
<1>1. serving[m] # "none" /\ asked[m] # "idle"
  BY AutoReplyAssumption DEF HonestInv, TypeOK, WaTypeOK
<1>2. forward[m] \in {"posting", "answered", "failed"}
  BY <1>1 DEF TypeOK
<1> QED BY <1>2 DEF TypeOK, Past

\* A send that is answered, or gone, keeps its answer.
LEMMA Answered ==
  ASSUME TypeOK, [Next]_vars
  PROVE  \A r \in Sends : asked[r] \in {"answered", "gone"} => answer'[r] = answer[r]
<1>1. CASE WaStep \/ BridgeDown
  BY <1>1, Settling DEF TypeOK, Settles, BridgeDown
<1>2. ASSUME UNCHANGED answer
      PROVE  \A r \in Sends : asked[r] \in {"answered", "gone"} => answer'[r] = answer[r]
  BY <1>2
<1>3. ASSUME NEW m \in Messages,
             \/ Arrive(m) \/ Post(m) \/ PostFails(m) \/ GiveUp(m) \/ NodePosts(m) \/ NodeDone(m)
             \/ NodeFails(m) \/ NodeTimeout(m) \/ Cut(m) \/ Dropped(m)
      PROVE  UNCHANGED answer
  BY <1>3 DEF Arrive, Post, PostFails, GiveUp, NodePosts, NodeDone, NodeFails, NodeTimeout, Cut,
              Dropped, Ask, Leave, HangUp, waVars
<1>4. ASSUME NEW r \in Direct, Other(r) PROVE UNCHANGED answer
  BY <1>4 DEF Other, Ask, Leave, HangUp
<1>5. CASE WorkflowCrash \/ UNCHANGED vars
  BY <1>2, <1>5 DEF WorkflowCrash, vars, waVars
<1> QED BY <1>1, <1>2, <1>3, <1>4, <1>5 DEF Next

\* What a step does to the replies that are out: one more at most, of a send
\* that has no id yet.
LEMMA Deliveries ==
  ASSUME WaTypeOK, WaNext
  PROVE  \/ delivered' = delivered
         \/ \E r \in Sends : /\ delivered' = Append(delivered, r)
                             /\ ~Contains(delivered, r)
                             /\ UNCHANGED answer
<1>1. ASSUME NEW r \in Sends, Transmit(r)
      PROVE  delivered' = Append(delivered, r) /\ ~Contains(delivered, r) /\ UNCHANGED answer
  BY <1>1 DEF Transmit
<1>2. ASSUME NEW r \in Sends,
             \/ Ask(r) \/ HangUp(r) \/ Look(r) \/ Accept(r) \/ Ack(r) \/ SendFails(r)
             \/ Timeout(r) \/ Unreachable(r) \/ Notice(r)
      PROVE  delivered' = delivered
  BY <1>2 DEF Ask, HangUp, Look, Accept, Ack, SendFails, Timeout, Unreachable, Notice
<1>3. CASE \/ GoesOnline \/ GoesOffline \/ Scan \/ GatewayCrash \/ BridgeCrash \/ BridgeStart
           \/ (NoFault \/ Fault) /\ UNCHANGED <<session, asked, answer, serving, delivered, log>>
           \/ UNCHANGED waVars
  BY <1>3 DEF GoesOnline, GoesOffline, Scan, GatewayCrash, BridgeCrash, BridgeStart, waVars
<1>4. ASSUME NEW e \in Events, Handle(e) PROVE delivered' = delivered
  BY <1>4 DEF Handle
<1> QED BY <1>1, <1>2, <1>3, <1>4 DEF WaNext, WaStep

\* Nothing moves a message that has come.
LEMMA CameStays ==
  ASSUME TypeOK, TypeOK', OrderInv, [Next]_vars, NEW m \in Messages, Contains(arrived, m)
  PROVE  Came(m)' = Came(m)
<1>1. ASSUME NEW k \in Messages, Arrive(k) PROVE Came(m)' = Came(m)
  BY <1>1, Arrivals DEF OrderInv
<1>2. ASSUME UNCHANGED arrived PROVE Came(m)' = Came(m)
  BY <1>2 DEF Came
<1>3. ASSUME NEW k \in Messages,
             \/ Post(k) \/ PostFails(k) \/ GiveUp(k) \/ NodePosts(k) \/ NodeDone(k)
             \/ NodeFails(k) \/ NodeTimeout(k) \/ Cut(k) \/ Dropped(k)
      PROVE  UNCHANGED arrived
  BY <1>3 DEF Post, PostFails, GiveUp, NodePosts, NodeDone, NodeFails, NodeTimeout, EndRun, Cut,
              Dropped, arVars
<1>4. CASE \/ WaStep /\ UNCHANGED arVars
           \/ BridgeDown \/ WorkflowCrash
           \/ UNCHANGED vars
  BY <1>2, <1>4 DEF BridgeDown, WorkflowCrash, vars, arVars
<1>5. ASSUME NEW r \in Direct, Other(r) PROVE UNCHANGED arrived
  BY <1>5 DEF Other, arVars
<1> QED BY <1>1, <1>2, <1>3, <1>4, <1>5 DEF Next

\* No step makes a confirmed reply stand behind one to a later message.
LEMMA Confirmations ==
  ASSUME IInv, TypeOK', [Next]_vars
  PROVE  ConfirmedInOrder'
<1> USE DEF IInv
<1>a. /\ delivered \in Seq(Sends)
      /\ DOMAIN delivered = 1 .. Len(delivered) /\ Len(delivered) \in Nat
  BY DEF TypeOK, WaTypeOK
\* A pair of replies that were out before the step.
<1>1. ASSUME NEW i \in DOMAIN delivered, NEW j \in DOMAIN delivered, i < j,
             NEW a \in Messages, NEW b \in Messages, delivered[i] = a, delivered[j] = b,
             Came(b)' < Came(a)', forward'[b] = "answered", answer'[b] = "created"
      PROVE  FALSE
  <2>1. Contains(delivered, a) /\ Contains(delivered, b)
    BY <1>1, <1>a DEF Contains
  <2>2. /\ Contains(arrived, a) /\ (forward[a] = "posting" \/ Past(a))
        /\ Contains(arrived, b)
    BY <2>1, RepliesFollow
  <2>3. Came(a)' = Came(a) /\ Came(b)' = Came(b)
    BY <2>2, CameStays
  <2>4. Past(b)
    BY <1>1, <2>2, <2>3 DEF OrderInv
  <2>5. forward[b] = "answered"
    BY <1>1, <2>4, Forwarding
  <2>6. asked[b] \in {"answered", "gone"}
    BY <2>5 DEF TypeOK, RunInv
  <2>7. answer[b] = "created"
    BY <1>1, <2>6, Answered, AutoReplyAssumption
  <2> QED BY <1>1, <2>3, <2>5, <2>7 DEF ConfirmedInOrder
\* So it is enough that the step lets no confirmed reply out.
<1>2. ASSUME \A j \in DOMAIN delivered' :
               answer'[delivered'[j]] = "created" => j \in DOMAIN delivered,
             \A i \in DOMAIN delivered : delivered'[i] = delivered[i],
             DOMAIN delivered' \subseteq Nat
      PROVE  ConfirmedInOrder'
  <2> SUFFICES ASSUME NEW i \in DOMAIN delivered', NEW j \in DOMAIN delivered', i < j,
                      NEW a \in Messages, NEW b \in Messages, delivered'[i] = a, delivered'[j] = b,
                      Came(b)' < Came(a)', forward'[b] = "answered", answer'[b] = "created"
               PROVE  FALSE
    BY DEF ConfirmedInOrder
  <2>1. j \in DOMAIN delivered /\ i \in DOMAIN delivered
    BY <1>2, <1>a, SMTT(30)
  <2> QED BY <1>1, <1>2, <2>1
<1>3. CASE delivered' = delivered
  BY <1>2, <1>3, <1>a
<1>4. ASSUME NEW r \in Sends, delivered' = Append(delivered, r), ~Contains(delivered, r), UNCHANGED answer
      PROVE  ConfirmedInOrder'
  <2>1. /\ DOMAIN delivered' = 1 .. Len(delivered) + 1
        /\ \A i \in DOMAIN delivered : delivered'[i] = delivered[i]
        /\ delivered'[Len(delivered) + 1] = r
    BY <1>4, <1>a
  <2>2. answer'[r] # "created"
    BY <1>4 DEF HonestInv
  <2> QED BY <1>2, <1>a, <2>1, <2>2
<1> QED BY <1>3, <1>4, Deliveries, StepsOfWhatsApp DEF TypeOK

----------------------------------------------------------------------------
(* The invariant and its consequences *)

\* The start.
LEMMA Starting == Init => IInv
<1> SUFFICES ASSUME Init PROVE IInv
  OBVIOUS
<1>1. /\ arrived = <<>> /\ delivered = <<>>
      /\ \A e : ~Contains(arrived, e) /\ ~Contains(delivered, e)
  BY DEF Init, WaInit, Contains
<1>2. WaTypeOK
  <2>1. /\ running \in BOOLEAN /\ paired \in BOOLEAN /\ online \in BOOLEAN
        /\ running /\ ~online
    BY Zenon DEF Init, WaInit
  <2>2. qr \in BOOLEAN /\ (qr => ~paired)
    <3>1. CASE paired = TRUE
      BY <3>1, Zenon DEF Init, WaInit
    <3>2. CASE paired = FALSE
      BY <3>2, Zenon DEF Init, WaInit
    <3> QED BY <2>1, <3>1, <3>2
  <2>3. raised \subseteq Events
    BY DEF Init, WaInit
  <2>4. status \in Statuses
    BY DEF Init, WaInit, Statuses
  <2>5. /\ asked = [r \in Sends |-> "idle"] /\ answer = [r \in Sends |-> "none"]
        /\ serving = [r \in Sends |-> "none"] /\ log = [r \in Sends |-> "none"]
        /\ delivered = <<>> /\ changes = 0 /\ faults = 0
    BY DEF Init, WaInit
  <2> QED BY <2>1, <2>2, <2>3, <2>4, <2>5 DEF WaTypeOK
<1>3. TypeOK
  BY <1>1, <1>2, AutoReplyAssumption DEF Init, WaInit, TypeOK
<1>4. HonestInv /\ RunInv
  BY <1>1, AutoReplyAssumption DEF Init, WaInit, HonestInv, RunInv, InFlight
<1>5. OrderInv /\ ConfirmedInOrder
  BY <1>1 DEF OrderInv, IsInjective, ConfirmedInOrder
<1> QED BY <1>3, <1>4, <1>5 DEF IInv

\* And every step.
LEMMA Stepping == IInv /\ [Next]_vars => IInv'
<1> SUFFICES ASSUME IInv, [Next]_vars PROVE IInv'
  OBVIOUS
<1>1. TypeOK'
  BY Types DEF IInv
<1>2. HonestInv'
  BY Honesty, StepsOfWhatsApp DEF IInv, TypeOK
<1>3. RunInv'
  BY Runs DEF IInv
<1>4. OrderInv'
  BY <1>1, Orders DEF IInv
<1>5. ConfirmedInOrder'
  BY <1>1, Confirmations
<1> QED BY <1>1, <1>2, <1>3, <1>4, <1>5 DEF IInv

\* So it holds throughout.
LEMMA Invariance == Spec => []IInv
BY Starting, Stepping, PTL DEF Spec

\* At every point of every behaviour the variables have their types, both ends
\* of a send and of a run agree on how far it is, and one message at a time is
\* with the webhook.
THEOREM TypeCorrect == Spec => []TypeOK
<1>1. IInv => TypeOK
  BY DEF IInv
<1> QED BY <1>1, Invariance, PTL

\* Whatever is lost, late, dropped or restarted between hajime-wa, its bridge
\* and WhatsApp, a caller that was given an id had its message taken, and one
\* that was told "not connected" had nothing sent, then or later.
THEOREM HonestAnswers == Spec => []AnswersAreHonest
<1>1. IInv => AnswersAreHonest
  BY DEF IInv, HonestInv, AnswersAreHonest
<1> QED BY <1>1, Invariance, PTL

\* A message that went out is under way, or in hajime-wa's history, or hajime-wa
\* lost its caller or its record; and for a reply the workflow's history tells of
\* it as well, unless its record is lost too or its run was cut for a message that
\* the forwarder has written off.
THEOREM TraceIsLeft == Spec => []SentLeavesATrace
<1>1. ASSUME IInv, NEW r \in Sends, Contains(delivered, r), ~InFlight(r), ~Told(log[r])
      PROVE  asked[r] = "gone" \/ log[r] = "lost"
  <2>1. asked[r] \in {"answered", "gone"}
    BY <1>1 DEF IInv, HonestInv, InFlight, TypeOK, WaTypeOK
  <2> QED BY <1>1, <2>1 DEF IInv, Told, TypeOK, WaTypeOK
<1>2. ASSUME IInv, NEW r \in Messages, Contains(delivered, r), run[r] # "waiting", ~Told(wlog[r])
      PROVE  wlog[r] = "lost" \/ (run[r] = "cut" /\ forward[r] = "failed")
  <2>1. run[r] \in {"waiting", "over", "cut"}
    BY <1>2, AutoReplyAssumption DEF IInv, HonestInv, TypeOK, WaTypeOK
  <2> QED BY <1>2, <2>1 DEF IInv, RunInv, Told, TypeOK
<1>3. IInv => SentLeavesATrace
  BY <1>1, <1>2 DEF SentLeavesATrace
<1> QED BY <1>3, Invariance, PTL

\* However many messages come in and whoever gives up on which, a reply that
\* the forwarder was told is out went out before the reply to any later
\* message.
THEOREM RepliesKeepOrder == Spec => []ConfirmedInOrder
<1>1. IInv => ConfirmedInOrder
  BY DEF IInv
<1> QED BY <1>1, Invariance, PTL
=============================================================================
