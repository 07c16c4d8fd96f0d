------------------------------ MODULE WhatsApp ------------------------------
(***************************************************************************)
(* hajime-wa's sendText (api.rs, bridge.rs) and the bridge behind it       *)
(* (bridge/main.go), two processes that talk HTTP on loopback, with        *)
(* WhatsApp itself as the third party: callers that hang up, timers at     *)
(* both ends, a session that comes and goes, and crashes of either.        *)
(*                                                                         *)
(* A send has two ends.  `asked` is its handler in hajime-wa, `serving`    *)
(* its handler in the bridge, which may outlive the other's interest.      *)
(* Timers are not ordered by their lengths: each process has its own, and  *)
(* any process may be held up.                                             *)
(***************************************************************************)
EXTENDS Naturals, Sequences, FiniteSets, SequencesExt

CONSTANTS
  Sends,       \* requests to /api/sendText
  MaxChanges,  \* bound: changes of the session on WhatsApp's side
  MaxFaults    \* bound: crashes, broken connections and lost records

ASSUME WhatsAppAssumption == MaxChanges \in Nat /\ MaxFaults \in Nat

VARIABLES
  running,   \* the bridge process is up
  paired,    \* the device store holds a device; it is on disk
  online,    \* whatsmeow is connected and logged in
  raised,    \* session events raised, their handlers not run yet
  qr,        \* a QR code is on the terminal
  status,    \* bridge.status
  asked,     \* [Sends -> where hajime-wa's handler is]
  answer,    \* [Sends -> what hajime-wa answered]
  serving,   \* [Sends -> where the bridge's handler is]
  delivered, \* sends WhatsApp took, in order
  log,       \* [Sends -> hajime-wa's history record of it]
  changes,   \* session changes so far
  faults     \* faults so far

session == <<running, paired, online, raised, qr, status>>
waVars == <<session, asked, answer, serving, delivered, log, changes, faults>>

Events == {"Connected", "Disconnected", "LoggedOut"}
Statuses == {"WORKING", "SCAN_QR_CODE", "STARTING", "FAILED"}

----------------------------------------------------------------------------
\* A start of the bridge: STARTING, and without a device a QR code.
WaInit ==
  /\ running = TRUE
  /\ paired \in BOOLEAN
  /\ online = FALSE
  /\ raised = {}
  /\ qr = ~paired
  /\ status = IF paired THEN "STARTING" ELSE "SCAN_QR_CODE"
  /\ asked = [r \in Sends |-> "idle"]
  /\ answer = [r \in Sends |-> "none"]
  /\ serving = [r \in Sends |-> "none"]
  /\ delivered = <<>>
  /\ log = [r \in Sends |-> "none"]
  /\ changes = 0
  /\ faults = 0

Change == changes < MaxChanges /\ changes' = changes + 1 /\ UNCHANGED faults
Fault == faults < MaxFaults /\ faults' = faults + 1 /\ UNCHANGED changes
NoFault == UNCHANGED <<changes, faults>>

----------------------------------------------------------------------------
(* The session *)

\* whatsmeow raises an event for what happens; every handler is called from a
\* goroutine of its own.
GoesOnline ==
  /\ running /\ paired /\ ~online
  /\ online' = TRUE
  /\ raised' = raised \cup {"Connected"}
  /\ Change
  /\ UNCHANGED <<running, paired, qr, status, asked, answer, serving, delivered, log>>

GoesOffline ==
  /\ online
  /\ online' = FALSE
  /\ \/ raised' = raised \cup {"Disconnected"} /\ paired' = paired
     \/ raised' = raised \cup {"LoggedOut"} /\ paired' = FALSE
  /\ Change
  /\ UNCHANGED <<running, qr, status, asked, answer, serving, delivered, log>>

\* Somebody scans the code, nobody does in time, or pairing ends in an error,
\* of which the switch says nothing.
Scan ==
  /\ qr
  /\ qr' = FALSE
  /\ \/ paired' = TRUE /\ status' = status
     \/ paired' = paired /\ status' \in {status, "FAILED"}
  /\ Change
  /\ UNCHANGED <<running, online, raised, asked, answer, serving, delivered, log>>

\* onEvent.
Handle(e) ==
  /\ e \in raised
  /\ raised' = raised \ {e}
  /\ status' = CASE e = "Connected" -> "WORKING"
                 [] e = "Disconnected" -> "STARTING"
                 [] e = "LoggedOut" -> "SCAN_QR_CODE"
  /\ NoFault
  /\ UNCHANGED <<running, paired, online, qr, asked, answer, serving, delivered, log>>

----------------------------------------------------------------------------
(* A send *)

InFlight(r) == asked[r] \in {"looking", "posting"}

\* The caller's request is in order, and bridge.send_text asks for the session.
Ask(r) ==
  /\ asked[r] = "idle"
  /\ asked' = [asked EXCEPT ![r] = "looking"]
  /\ NoFault
  /\ UNCHANGED <<session, answer, serving, delivered, log>>

\* send_text comes to an end: the record and the answer, nothing in between.
\* append says nothing of its own failure, and without HAJIME_WA_HISTORY every
\* record is lost.
Answer(r, code) ==
  /\ asked' = [asked EXCEPT ![r] = "answered"]
  /\ answer' = [answer EXCEPT ![r] = code]
  /\ \/ log' = [log EXCEPT ![r] = IF code = "created" THEN "success" ELSE "failure"] /\ NoFault
     \/ log' = [log EXCEPT ![r] = "lost"] /\ Fault

NoAnswer == UNCHANGED <<asked, answer, log>> /\ NoFault

\* The post leaves together with the question.
Look_Sends(r) ==
  /\ asked[r] = "looking"
  /\ running
  /\ serving' = [serving EXCEPT ![r] = "posted"]
  /\ IF status = "WORKING"
     THEN asked' = [asked EXCEPT ![r] = "posting"] /\ UNCHANGED <<answer, log>> /\ NoFault
     ELSE Answer(r, "conflict")
  /\ UNCHANGED <<session, delivered>>

\* The session's state comes back: NotConnected, or the post.
Look(r) ==
  /\ asked[r] = "looking"
  /\ running
  /\ IF status = "WORKING"
     THEN /\ asked' = [asked EXCEPT ![r] = "posting"]
          /\ serving' = [serving EXCEPT ![r] = "posted"]
          /\ UNCHANGED <<answer, log>>
          /\ NoFault
     ELSE Answer(r, "conflict") /\ UNCHANGED serving
  /\ UNCHANGED <<session, delivered>>

\* A bridge's answer reaches hajime-wa's handler, if there still is one.
Back(r, code) == IF asked[r] = "posting" THEN Answer(r, code) ELSE NoAnswer

\* handleSendText looks again, and begins to send or answers 409, which
\* hajime-wa calls Rejected.
Accept(r) ==
  /\ serving[r] = "posted"
  /\ IF status = "WORKING"
     THEN serving' = [serving EXCEPT ![r] = "sending"] /\ NoAnswer
     ELSE serving' = [serving EXCEPT ![r] = "over"] /\ Back(r, "rejected")
  /\ UNCHANGED <<session, delivered>>

\* SendMessage hands it to WhatsApp.
Transmit(r) ==
  /\ serving[r] = "sending"
  /\ online
  /\ ~Contains(delivered, r)
  /\ delivered' = Append(delivered, r)
  /\ NoFault
  /\ UNCHANGED <<session, asked, answer, serving, log>>

\* WhatsApp's receipt: the id goes back, or breaks off half-way.
Ack(r) ==
  /\ serving[r] = "sending"
  /\ online
  /\ Contains(delivered, r)
  /\ serving' = [serving EXCEPT ![r] = "over"]
  /\ Back(r, "created") \/ Back(r, "other")
  /\ UNCHANGED <<session, delivered>>

\* SendMessage fails, or its 30 seconds are over: nothing can be said of the
\* message.
SendFails(r) ==
  /\ serving[r] = "sending"
  /\ serving' = [serving EXCEPT ![r] = "over"]
  /\ Back(r, "rejected")
  /\ UNCHANGED <<session, delivered>>

\* A time-out that answers and keeps no record.
Timeout_Unrecorded(r) ==
  /\ InFlight(r)
  /\ asked' = [asked EXCEPT ![r] = "answered"]
  /\ answer' = [answer EXCEPT ![r] = "unavailable"]
  /\ NoFault
  /\ UNCHANGED <<session, serving, delivered, log>>

\* The client's 30 seconds are over, for either request: Unreachable.
Timeout(r) ==
  /\ InFlight(r)
  /\ Answer(r, "unavailable")
  /\ UNCHANGED <<session, serving, delivered>>

\* There is no bridge to reach.
Unreachable(r) ==
  /\ asked[r] = "looking"
  /\ ~running
  /\ Answer(r, "unavailable")
  /\ UNCHANGED <<session, serving, delivered>>

\* The caller hangs up: the handler is dropped where it awaits.
HangUp(r) ==
  /\ InFlight(r)
  /\ asked' = [asked EXCEPT ![r] = "gone"]
  /\ UNCHANGED <<session, answer, serving, delivered, log>>

Leave(r) == HangUp(r) /\ NoFault

\* The bridge notices that hajime-wa has closed the request (r.Context).
Notice(r) ==
  /\ serving[r] \in {"posted", "sending"}
  /\ asked[r] # "posting"
  /\ serving' = [serving EXCEPT ![r] = "over"]
  /\ NoFault
  /\ UNCHANGED <<session, asked, answer, delivered, log>>

----------------------------------------------------------------------------
(* Crashes *)

\* hajime-wa goes down and comes back: its handlers are gone.
GatewayCrash ==
  /\ asked' = [r \in Sends |-> IF InFlight(r) THEN "gone" ELSE asked[r]]
  /\ Fault
  /\ UNCHANGED <<session, answer, serving, delivered, log>>

\* The bridge goes down: whoever waits for its answer finds the connection
\* broken, and keeps its record or loses it.  An orderly stop first waits for its
\* handlers, 10 seconds at most, and takes no new requests, which looks to
\* hajime-wa like Timeout.
BridgeCrash ==
  /\ running
  /\ running' = FALSE
  /\ online' = FALSE
  /\ raised' = {}
  /\ qr' = FALSE
  /\ serving' = [r \in Sends |-> IF serving[r] = "none" THEN "none" ELSE "over"]
  /\ asked' = [r \in Sends |-> IF asked[r] = "posting" THEN "answered" ELSE asked[r]]
  /\ answer' = [r \in Sends |-> IF asked[r] = "posting" THEN "unavailable" ELSE answer[r]]
  /\ \E lost \in SUBSET {r \in Sends : asked[r] = "posting"} :
       log' = [r \in Sends |-> IF r \in lost THEN "lost"
                              ELSE IF asked[r] = "posting" THEN "failure" ELSE log[r]]
  /\ Fault
  /\ UNCHANGED <<paired, status, delivered>>

\* rc.d starts it again: the device is read back from the store.
BridgeStart ==
  /\ ~running
  /\ running' = TRUE
  /\ qr' = ~paired
  /\ status' = IF paired THEN "STARTING" ELSE "SCAN_QR_CODE"
  /\ NoFault
  /\ UNCHANGED <<paired, online, raised, asked, answer, serving, delivered, log>>

\* What happens without the callers' doing, and concerns nobody else.
WaStep ==
  \/ GoesOnline \/ GoesOffline \/ Scan
  \/ \E e \in Events : Handle(e)
  \/ \E r \in Sends : \/ Look(r) \/ Accept(r) \/ Transmit(r) \/ Ack(r)
                      \/ SendFails(r) \/ Timeout(r) \/ Unreachable(r) \/ Notice(r)
  \/ GatewayCrash \/ BridgeStart

----------------------------------------------------------------------------
(* Properties *)

\* Types; a send is at the bridge only once it was posted, an answer and a
\* record are made together, and a bridge that is down serves nobody.
WaTypeOK ==
  /\ running \in BOOLEAN /\ paired \in BOOLEAN /\ online \in BOOLEAN /\ qr \in BOOLEAN
  /\ raised \subseteq Events
  /\ status \in Statuses
  /\ asked \in [Sends -> {"idle", "looking", "posting", "answered", "gone"}]
  /\ answer \in [Sends -> {"none", "created", "conflict", "unavailable", "rejected", "other"}]
  /\ serving \in [Sends -> {"none", "posted", "sending", "over"}]
  /\ delivered \in Seq(Sends)
  /\ log \in [Sends -> {"none", "success", "failure", "lost"}]
  /\ changes \in Nat /\ faults \in Nat
  /\ online => running /\ paired
  /\ qr => running /\ ~paired
  /\ \A r \in Sends :
       /\ serving[r] # "none" => asked[r] \in {"posting", "answered", "gone"}
       /\ serving[r] \in {"posted", "sending"} => running
       /\ asked[r] = "posting" => serving[r] \in {"posted", "sending"}
       /\ asked[r] = "answered" <=> answer[r] # "none"
       /\ answer[r] # "none" <=> log[r] # "none"

\* "A caller that receives an id here has had a message accepted by the
\* bridge" (api.rs:12), and one that is told the session is not connected has
\* had nothing sent, then or later: "refuse before sending rather than
\* discovering afterwards" (bridge.rs:115).  A record that is kept says the
\* same.
AnswersAreHonest ==
  \A r \in Sends :
    /\ answer[r] = "created" => Contains(delivered, r)
    /\ answer[r] = "conflict" => ~Contains(delivered, r)
    /\ log[r] = "success" => answer[r] = "created"
    /\ log[r] = "failure" => answer[r] # "created"
=============================================================================
