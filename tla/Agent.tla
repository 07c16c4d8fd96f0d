------------------------------- MODULE Agent -------------------------------
(***************************************************************************)
(* The tools behind the gateway: posting to the platforms (hajime-social), *)
(* fetching a page (hajime-fetch) and running hajimectl (SystemTools), over *)
(* platforms and networks that refuse, answer late, or not at all.         *)
(*                                                                         *)
(* Each step is a step of Gateway with what the provider adds to it, so    *)
(* that where Gateway lets a provider answer anything (Settle), here the   *)
(* answer comes out of what happened.                                      *)
(***************************************************************************)
EXTENDS Gateway, FiniteSetsExt

CONSTANTS
  Secrets,    \* names of the files in the secrets directory
  Texts,      \* lengths of texts a caller may want posted; 0 is a blank text
  Hosts,      \* hosts that addresses may name
  Addresses,  \* [Hosts -> what looking a host up may answer: sets of kinds of
              \* address, {} if it resolves to none]
  Rounds,     \* how often the loop in Fetcher::get goes round: 5
  MaxAsked    \* bound: calls of all tools in a behaviour

----------------------------------------------------------------------------
(* The catalogue *)

\* Social::from_secrets: a platform is there when all its secrets are.
Social ==
  {t \in {"post_to_mastodon", "post_to_x", "post_to_bluesky", "post_to_linkedin"} :
     CASE t = "post_to_mastodon" -> "mastodon_token" \in Secrets
       [] t = "post_to_x" -> "x_token" \in Secrets
       [] t = "post_to_bluesky" -> {"bluesky_token", "bluesky_handle"} \subseteq Secrets
       [] t = "post_to_linkedin" -> {"linkedin_token", "linkedin_urn"} \subseteq Secrets}

\* Each Platform: the limit that check_length compares with, and what post makes
\* of a status.  Mastodon, X and LinkedIn take 401 for expired credentials,
\* Bluesky a 400 whose body says so; any other failure is Rejected.
Expires401(limit) ==
  [limit |-> limit,
   says |-> [success |-> "ok", unauthorized |-> "expired",
             expiredToken |-> "rejected", error |-> "rejected"]]

Mastodon == Expires401(500)
X == Expires401(280)
LinkedIn == Expires401(3000)
Bluesky ==
  [limit |-> 300,
   says |-> [success |-> "ok", unauthorized |-> "rejected",
             expiredToken |-> "expired", error |-> "rejected"]]

Platform(t) ==
  CASE t = "post_to_mastodon" -> Mastodon
    [] t = "post_to_x" -> X
    [] t = "post_to_bluesky" -> Bluesky
    [] t = "post_to_linkedin" -> LinkedIn

Fetching == {"fetch_page"}
System == {"system_status", "system_check", "system_explain",
           "system_start", "system_stop", "system_snapshot"}

\* Tools whose arguments name a service.
OfAService == {"system_explain", "system_start", "system_stop"}

\* system_stop listed as a tool that reads.
Label_StopReads(t) ==
  IF t \in Social \cup {"system_start", "system_snapshot"} THEN "external" ELSE "read"

\* What each provider's list() says of its tools: ToolSpec::read or ::external.
Label(t) ==
  IF t \in Social \cup {"system_start", "system_stop", "system_snapshot"}
  THEN "external" ELSE "read"

\* is_private: the kinds of address that are not on the internet.
NotPublic ==
  {"private", "loopback", "link local", "broadcast", "unspecified", "this network",
   "carrier", "unique local"}

\* Gateway::catalogue.
Catalogue == Social \cup Fetching \cup System

ASSUME AgentAssumption ==
  /\ Tools \subseteq Catalogue
  /\ Effect = [t \in Tools |-> Label(t)]
  /\ Texts \subseteq Nat
  /\ Addresses \in [Hosts -> SUBSET SUBSET (NotPublic \cup {"public"})]
  /\ \A host \in Hosts : Addresses[host] # {}
  /\ Hosts \cap {None, "relative", "malformed"} = {}
  /\ Rounds \in Nat /\ MaxAsked \in Nat

Posting == Social \cap Tools

VARIABLES
  work,      \* [Callers -> where the provider is with its call]
  posts,     \* [Posting -> posts that appeared]
  strays,    \* [Posting -> requests under way that nobody waits for]
  ran,       \* tools whose command has changed the machine
  \* history variable, read by the properties alone
  unsure     \* [Posting -> answers that leave it open whether the post is there]

agentVars == <<work, posts, strays, ran, unsure>>
allVars == <<vars, agentVars>>

\* No work; a post's request under way, or the platform's answer on its way
\* back; a fetch about to check an address, or waiting for its answer.
NoWork == [at |-> "none", host |-> None, requests |-> 0]
Statuses == {"success", "unauthorized", "expiredToken", "error"}
Works == {"none", "out", "check", "request"} \cup Statuses

AgentInit ==
  /\ Init
  /\ work = [c \in Callers |-> NoWork]
  /\ posts = [t \in Posting |-> 0]
  /\ strays = [t \in Posting |-> 0]
  /\ ran = {}
  /\ unsure = [t \in Posting |-> 0]

\* The provider answers o, and Gateway::call settles it.
Answered(c, o) ==
  /\ Settle(c)
  /\ outcome'[c] = o
  /\ work' = [work EXCEPT ![c] = NoWork]

Goes(c, at) == work' = [work EXCEPT ![c].at = at] /\ UNCHANGED vars

Idle(c, ts) == stage[c] = "sent" /\ tool[c] \in ts /\ work[c].at = "none"

----------------------------------------------------------------------------
(* Gateway::call around the provider, and begin_run *)

Calls ==
  /\ \E c \in Callers : \/ /\ MapThenSumSet(LAMBDA t : asked[t], Tools) < MaxAsked
                           /\ \E t \in Tools : Check(c, t)
                        \/ Count(c) \/ Rehearse(c) \/ Record(c)
  /\ UNCHANGED agentVars

\* chat_completions: the budgets start again with a conversation that goes to
\* the backend; a stream, an empty one and the older /api/chat leave them.
Converse ==
  /\ \E request \in {"stream", "empty", "/api/chat", "conversation"} :
       request = "conversation" /\ BeginRun
  /\ UNCHANGED agentVars

\* What a request that is given up may leave behind on the network.
Abandoned(c) ==
  strays' \in {strays} \cup (IF work[c].at = "out"
                             THEN {[strays EXCEPT ![tool[c]] = @ + 1]} ELSE {})

\* The caller goes away.  hajimectl is run without an await, so that no call of
\* it can be left.
Leave(c) ==
  /\ Drop(c)
  /\ tool[c] \notin System
  /\ work' = [work EXCEPT ![c] = NoWork]
  /\ Abandoned(c)
  /\ UNCHANGED <<posts, ran, unsure>>

----------------------------------------------------------------------------
(* hajime-social *)

\* Social::call and check_length: a text, not blank, that fits.
Publishable(t, text) == text > 0 /\ text <= Platform(t).limit

\* Social::call up to where the request leaves; what cannot be published is
\* answered here.
Post(c) ==
  /\ Idle(c, Posting)
  /\ \E text \in Texts :
       IF Publishable(tool[c], text) THEN Goes(c, "out") ELSE Answered(c, "failed")
  /\ UNCHANGED <<posts, strays, ran, unsure>>

\* The request arrives at the platform, which takes the post, refuses a token
\* that has expired by then in one of two ways, or answers with an error: of a
\* proxy before it, or of its own after the post was taken.
Arrive(c) ==
  /\ work[c].at = "out"
  /\ LET taken == [posts EXCEPT ![tool[c]] = @ + 1] IN
     \/ Goes(c, "success") /\ posts' = taken
     \/ (Goes(c, "unauthorized") \/ Goes(c, "expiredToken")) /\ UNCHANGED posts
     \/ Goes(c, "error") /\ posts' \in {posts, taken}
  /\ UNCHANGED <<strays, ran, unsure>>

Unsure(c, open) == unsure' = [unsure EXCEPT ![tool[c]] = @ + (IF open THEN 1 ELSE 0)]

\* Whatever comes back is a success.
Deliver_AnyStatus(c) ==
  /\ work[c].at \in Statuses
  /\ LET said == Platform(tool[c]).says[work[c].at] IN
     Answered(c, "ok") /\ Unsure(c, said = "rejected")
  /\ UNCHANGED <<posts, strays, ran>>

\* Platform::post reads the status, and Social::call answers: a success, whether
\* or not the body names the post, and otherwise a failure.
Deliver(c) ==
  /\ work[c].at \in Statuses
  /\ LET said == Platform(tool[c]).says[work[c].at] IN
     Answered(c, IF said = "ok" THEN "ok" ELSE "failed") /\ Unsure(c, said = "rejected")
  /\ UNCHANGED <<posts, strays, ran>>

\* Thirty seconds are over, or the connection breaks: Unreachable, wherever the
\* request or its answer was.
Lose(c) ==
  /\ work[c].at \in {"out"} \cup Statuses
  /\ Answered(c, "failed")
  /\ Abandoned(c)
  /\ Unsure(c, TRUE)
  /\ UNCHANGED <<posts, ran>>

\* A request nobody waits for arrives after all, or never will.
StrayEnds(t) ==
  /\ strays[t] > 0
  /\ strays' = [strays EXCEPT ![t] = @ - 1]
  /\ posts' \in {posts, [posts EXCEPT ![t] = @ + 1]}
  /\ UNCHANGED <<vars, work, ran, unsure>>

----------------------------------------------------------------------------
(* hajime-fetch *)

\* host_of: an address of another scheme, or without a host, names none.
HostOf(url) == IF url \in Hosts THEN url ELSE None

\* check_url: the verdicts that looking the host up may lead to.  No address it
\* resolves to may be private; a name that does not resolve passes, and fails at
\* the request.
CheckUrl(url) ==
  IF HostOf(url) = None THEN {FALSE}
  ELSE {answer \cap NotPublic = {} : answer \in Addresses[HostOf(url)]}

\* What a Location header may hold: an address, which may have no host, or a
\* path.
Locations == Hosts \cup {"malformed", "relative"}

\* extract_resolve: what does not begin with http is a path on the same host.
Resolved(base, location) == IF location = "relative" THEN base ELSE location

\* Fetch::call: an address is given or is not.
Fetch(c) ==
  /\ Idle(c, Fetching)
  /\ \/ Answered(c, "failed")
     \/ /\ \E url \in Hosts \cup {"malformed"} :
             work' = [work EXCEPT ![c] = [at |-> "check", host |-> url, requests |-> 0]]
        /\ UNCHANGED vars
  /\ UNCHANGED <<posts, strays, ran, unsure>>

\* The address is looked up, and requested if it will do and a round is left.
Round(c) ==
  /\ work[c].at = "check"
  /\ \E fits \in CheckUrl(work[c].host) :
       IF work[c].requests < Rounds /\ fits
       THEN /\ work' = [work EXCEPT ![c].at = "request", ![c].requests = @ + 1]
            /\ UNCHANGED vars
       ELSE Answered(c, "failed")
  /\ UNCHANGED <<posts, strays, ran, unsure>>

\* A redirect that is fetched as an address of its own, with rounds of its own.
Redirected_Anew(c) ==
  \E location \in Locations :
    work' = [work EXCEPT ![c] = [at |-> "check", host |-> Resolved(@.host, location),
                                 requests |-> 0]]

\* A redirect: round again with where it points.
Redirected(c) ==
  \E location \in Locations :
    work' = [work EXCEPT ![c].at = "check", ![c].host = Resolved(@, location)]

\* What the request brings, to an address that the client looks up for itself: a
\* page; a redirect; or an error, of the network, the status, the size, or a
\* redirect to nowhere.
Response(c) ==
  /\ work[c].at = "request"
  /\ \/ Answered(c, "failed")
     \/ /\ \E answer \in Addresses[work[c].host] : answer # {}
        /\ \/ Answered(c, "ok")
           \/ Redirected(c) /\ UNCHANGED vars
  /\ UNCHANGED <<posts, strays, ran, unsure>>

----------------------------------------------------------------------------
(* SystemTools *)

\* The tools whose command changes the machine.
Changing == {"system_start", "system_stop", "system_snapshot"}

\* SystemTools::call, to the end of the command.  A service the world model does
\* not know, or has no room for, is refused before it; explain runs nothing; and
\* hajimectl may be missing, or fail with or without having done something.
RunSystem(c) ==
  /\ Idle(c, System)
  /\ LET t == tool[c] IN
     \/ t \in OfAService /\ Answered(c, "failed") /\ UNCHANGED ran
     \/ t = "system_explain" /\ Answered(c, "ok") /\ UNCHANGED ran
     \/ /\ t # "system_explain"
        /\ \E o \in {"ok", "failed"} : Answered(c, o)
        /\ ran' \in {ran \cup ({t} \cap Changing)}
                   \cup (IF outcome'[c] = "failed" THEN {ran} ELSE {})
  /\ UNCHANGED <<posts, strays, unsure>>

AgentNext ==
  \/ Calls \/ Converse
  \/ \E c \in Callers :
       \/ Leave(c)
       \/ Post(c) \/ Arrive(c) \/ Deliver(c) \/ Lose(c)
       \/ Fetch(c) \/ Round(c) \/ Response(c)
       \/ RunSystem(c)
  \/ \E t \in Posting : StrayEnds(t)

\* What a call does of its own: the gateway's part of it, and its requests, each
\* of which the client gives thirty seconds.  That a request arrives or that a
\* command ends is not assumed: nothing limits the time of hajimectl.
Proceed(c) ==
  \/ (Count(c) \/ Rehearse(c) \/ Record(c)) /\ UNCHANGED agentVars
  \/ Post(c) \/ Deliver(c) \/ Lose(c)
  \/ Fetch(c) \/ Round(c) \/ Response(c)

Fairness == \A c \in Callers : WF_allVars(Proceed(c))

AgentSpec == AgentInit /\ [][AgentNext]_allVars /\ Fairness

----------------------------------------------------------------------------
(* Properties *)

\* Types; and a provider is at work only for a call that was sent to it.
AgentTypeOK ==
  /\ TypeOK
  /\ work \in [Callers -> [at : Works, host : Hosts \cup {"malformed", None}, requests : 0..Rounds]]
  /\ posts \in [Posting -> Nat] /\ strays \in [Posting -> Nat]
  /\ unsure \in [Posting -> Nat]
  /\ ran \subseteq System
  /\ \A c \in Callers : work[c].at # "none" => stage[c] = "sent"

\* Calls of t whose provider stands at one of these.
Working(ats, t) == {c \in Callers : tool[c] = t /\ work[c].at \in ats}

\* The audit log brackets what the world can see: a post that is recorded as
\* sent is there, and what is there was recorded as sent, or is a call whose
\* answer left it open (an error of the platform, no answer, a caller that went
\* away).  So a text that was refused, and expired credentials, never made a
\* post, and a caller that is told of either loses nothing by calling again.
AuditBracketsPosts ==
  \A t \in Posting :
    LET sent == audit[t]["ok"]
                + Cardinality({c \in At({"settled"}, t) : outcome[c] = "ok"})
                + Cardinality(Working({"success"}, t))
    IN /\ sent <= posts[t]
       /\ posts[t] + strays[t] <=
            sent + unsure[t] + dropped[t] + Cardinality(Working({"error"}, t))

\* In a dry run nothing leaves the machine and nothing on it is changed,
\* whichever tool is called and with whatever: the labels that list() gives its
\* tools cover everything their call() does.
DryRunIsDry ==
  dryRun => /\ ran = {}
            /\ \A t \in Posting : posts[t] = 0 /\ strays[t] = 0

\* A call that posts or fetches ends, with its entry in the audit log or left by
\* its caller, however hosts redirect to one another and resolve anew, and
\* whether or not a platform ever answers (the loop of Fetcher::get, the
\* time-outs of the two clients).
CallsEnd ==
  \A c \in Callers :
    stage[c] # "idle" /\ tool[c] \notin System ~> stage[c] = "idle"
=============================================================================
