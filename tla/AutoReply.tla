----------------------------- MODULE AutoReply -----------------------------
(***************************************************************************)
(* A message comes in and a reply goes out: the bridge posts the message   *)
(* to a webhook of hajime-workflow (forwardMessage in bridge/main.go), the *)
(* webhook runs a workflow (server.rs) whose httpRequest node posts the    *)
(* reply to hajime-wa (nodes/http_request.rs), and hajime-wa sends it      *)
(* through the same bridge (module WhatsApp).  Each waits for the next, so *)
(* that one hanging up is felt all the way down.  Nothing depends on the   *)
(* webhook's responseMode: server.rs awaits the run before it looks at it. *)
(*                                                                         *)
(* Other callers use hajime-wa at the same time.  The engine's own walk is *)
(* module Engine's: here a run is the one node that has an effect.         *)
(***************************************************************************)
EXTENDS WhatsApp

CONSTANT
  Messages   \* messages that come in; the reply to m is the send m

ASSUME AutoReplyAssumption == Messages \subseteq Sends

VARIABLES
  arrived,  \* messages in the order they came in
  forward,  \* [Messages -> where forwardMessage is with it]
  run,      \* [Messages -> where its run is]
  wlog      \* [Messages -> the workflow's history record of the run]

arVars == <<arrived, forward, run, wlog>>
vars == <<waVars, arVars>>

Direct == Sends \ Messages

\* When a message came in.
Came(m) == CHOOSE i \in DOMAIN arrived : arrived[i] = m

----------------------------------------------------------------------------
Init ==
  /\ WaInit
  /\ arrived = <<>>
  /\ forward = [m \in Messages |-> "none"]
  /\ run = [m \in Messages |-> "none"]
  /\ wlog = [m \in Messages |-> "none"]

(* The bridge's side *)

\* Which of them comes in next does not matter.
Arrive(m) ==
  /\ online
  /\ ~Contains(arrived, m)
  /\ arrived' = Append(arrived, m)
  /\ forward' = [forward EXCEPT ![m] = "waiting"]
  /\ UNCHANGED <<run, wlog, waVars>>

\* Every message in a goroutine of its own.
Post_Concurrent(m) ==
  /\ running
  /\ forward[m] = "waiting"
  /\ forward' = [forward EXCEPT ![m] = "posting"]
  /\ run' = [run EXCEPT ![m] = "begun"]
  /\ UNCHANGED <<arrived, wlog, waVars>>

\* whatsmeow hands over one message at a time, in the order they came.
NextToPost(m) ==
  /\ running
  /\ forward[m] = "waiting"
  /\ \A n \in Messages :
       /\ forward[n] # "posting"
       /\ forward[n] = "waiting" => Came(m) <= Came(n)

\* forwardMessage posts it; the webhook's route is found and the run begins.
Post(m) ==
  /\ NextToPost(m)
  /\ forward' = [forward EXCEPT ![m] = "posting"]
  /\ run' = [run EXCEPT ![m] = "begun"]
  /\ UNCHANGED <<arrived, wlog, waVars>>

\* hajime-workflow cannot be reached: logged, and on to the next.
PostFails(m) ==
  /\ NextToPost(m)
  /\ forward' = [forward EXCEPT ![m] = "failed"]
  /\ Fault
  /\ UNCHANGED <<arrived, run, wlog, session, asked, answer, serving, delivered, log>>

\* The post's 15 seconds are over: logged, and on to the next.
GiveUp(m) ==
  /\ running
  /\ forward[m] = "posting"
  /\ forward' = [forward EXCEPT ![m] = "failed"]
  /\ UNCHANGED <<arrived, run, wlog, waVars>>

----------------------------------------------------------------------------
(* The workflow's side *)

\* The node posts the reply.
NodePosts(m) ==
  /\ run[m] = "begun"
  /\ Ask(m)
  /\ run' = [run EXCEPT ![m] = "waiting"]
  /\ UNCHANGED <<arrived, forward, wlog>>

\* The run ends, its record is appended or lost, and the webhook is answered,
\* whatever its mode: no await lies in between.
EndRun(m, outcome) ==
  /\ run' = [run EXCEPT ![m] = "over"]
  /\ \/ wlog' = [wlog EXCEPT ![m] = outcome] /\ NoFault
     \/ wlog' = [wlog EXCEPT ![m] = "lost"] /\ Fault
  /\ forward' = [forward EXCEPT ![m] = IF @ = "posting" THEN "answered" ELSE @]
  /\ UNCHANGED arrived

\* Any HTTP answer will do for the node: request_once does not look at the
\* status.
NodeDone(m) ==
  /\ run[m] = "waiting"
  /\ asked[m] = "answered"
  /\ EndRun(m, "success")
  /\ UNCHANGED <<session, asked, answer, serving, delivered, log>>

\* The connection broke under the node: the run fails.
NodeFails(m) ==
  /\ run[m] = "waiting"
  /\ asked[m] = "gone"
  /\ EndRun(m, "failure")
  /\ UNCHANGED <<session, asked, answer, serving, delivered, log>>

\* The node's own 60 seconds are over, and it closes the request.
NodeTimeout(m) ==
  /\ run[m] = "waiting"
  /\ HangUp(m)
  /\ EndRun(m, "failure")

\* The webhook's caller is gone: the handler is dropped where it awaits the
\* run, and the run with it.  No record.
Cut(m) ==
  /\ run[m] \in {"begun", "waiting"}
  /\ forward[m] = "failed"
  /\ run' = [run EXCEPT ![m] = "cut"]
  /\ UNCHANGED <<arrived, forward, wlog, waVars>>

\* hajime-wa finds its caller gone.
Dropped(m) ==
  /\ run[m] = "cut"
  /\ Leave(m)
  /\ UNCHANGED arVars

\* hajime-workflow goes down and comes back.
WorkflowCrash ==
  /\ run' = [m \in Messages |-> IF run[m] \in {"begun", "waiting"} THEN "cut" ELSE run[m]]
  /\ forward' = [m \in Messages |-> IF forward[m] = "posting" THEN "failed" ELSE forward[m]]
  /\ Fault
  /\ UNCHANGED <<arrived, wlog, session, asked, answer, serving, delivered, log>>

----------------------------------------------------------------------------
\* Another caller of hajime-wa, who may hang up.
Other(r) == (Ask(r) \/ Leave(r)) /\ UNCHANGED arVars

\* What the bridge was forwarding is lost with it.
BridgeDown ==
  /\ BridgeCrash
  /\ forward' = [m \in Messages |-> IF forward[m] \in {"waiting", "posting"} THEN "failed" ELSE forward[m]]
  /\ UNCHANGED <<arrived, run, wlog>>

Next ==
  \/ WaStep /\ UNCHANGED arVars
  \/ BridgeDown
  \/ \E r \in Direct : Other(r)
  \/ \E m \in Messages :
       \/ Arrive(m) \/ Post(m) \/ PostFails(m) \/ GiveUp(m) \/ NodePosts(m) \/ NodeDone(m)
       \/ NodeFails(m) \/ NodeTimeout(m) \/ Cut(m) \/ Dropped(m)
  \/ WorkflowCrash

Spec == Init /\ [][Next]_vars

----------------------------------------------------------------------------
(* Properties *)

\* Types; a run is the run of a message that was posted, a record is one of a
\* finished run, and one message at a time is with the webhook.
TypeOK ==
  /\ WaTypeOK
  /\ arrived \in Seq(Messages)
  /\ forward \in [Messages -> {"none", "waiting", "posting", "answered", "failed"}]
  /\ run \in [Messages -> {"none", "begun", "waiting", "over", "cut"}]
  /\ wlog \in [Messages -> {"none", "success", "failure", "lost"}]
  /\ \A m \in Messages :
       /\ forward[m] # "none" <=> Contains(arrived, m)
       /\ run[m] # "none" => forward[m] \in {"posting", "answered", "failed"}
       /\ forward[m] = "answered" => run[m] = "over"
       /\ wlog[m] # "none" <=> run[m] = "over"
       /\ asked[m] # "idle" => run[m] \in {"waiting", "over", "cut"}
  /\ \A m, n \in Messages : forward[m] = "posting" /\ forward[n] = "posting" => m = n

Told(record) == record \in {"success", "failure"}

\* A send that WhatsApp took and nobody works at any more is in a history, but
\* for what each witness can miss: hajime-wa's, that its caller hung up, or
\* hajime-wa went down, before the answer, or its append failed; and for a
\* reply the workflow's as well, that the run was cut, which happens to none but
\* a message the forwarder has written off, or its append failed.  So it takes
\* two losses to make a reply go out of which no history tells ("a failed send
\* is recorded too", api.rs:163).
SentLeavesATrace ==
  \A r \in Sends :
    Contains(delivered, r) /\ ~InFlight(r) /\ ~Told(log[r]) =>
      /\ asked[r] = "gone" \/ log[r] = "lost"
      /\ r \in Messages /\ run[r] # "waiting" /\ ~Told(wlog[r]) =>
           wlog[r] = "lost" \/ (run[r] = "cut" /\ forward[r] = "failed")

\* A reply that the forwarder was told is out has gone out before the reply to
\* any later message: forwardMessage waits for the run before the next message
\* is posted (main.go:260), and the run for its send (server.rs:212).
ConfirmedInOrder ==
  \A i, j \in DOMAIN delivered :
    i < j /\ {delivered[i], delivered[j]} \subseteq Messages
      /\ Came(delivered[j]) < Came(delivered[i])
    => ~(forward[delivered[j]] = "answered" /\ answer[delivered[j]] = "created")
=============================================================================
