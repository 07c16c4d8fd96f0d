------------------------------ MODULE MCServer ------------------------------
(* Exports of two workflows that compete for an id, an address or neither. *)
EXTENDS Server

Hook(address, mode, disabled) ==
  [name |-> "Webhook", kind |-> "webhook", disabled |-> disabled,
   address |-> address, mode |-> mode, intervals |-> <<>>]
Cron(intervals) ==
  [name |-> "Schedule", kind |-> "schedule", disabled |-> FALSE,
   address |-> NoAddress, mode |-> "none", intervals |-> intervals]
Workflow(id, active, triggers, body) ==
  [id |-> id, active |-> active, triggers |-> triggers, body |-> body]

Replier == Workflow("a", TRUE, <<Hook("x", "responseNode", FALSE)>>,
                    <<"act", "respond", "pass", "echo">>)
Nameless == Workflow(NoId, TRUE, <<Hook("x", "lastNode", FALSE)>>, <<"echo", "pass">>)
Clash == Workflow("wf-1", TRUE, <<Cron(<<"valid", "valid">>), Hook("y", "immediately", FALSE)>>,
                  <<"act", "act">>)
Asleep == Workflow("a", FALSE, <<Hook("y", "lastNode", FALSE)>>, <<"act">>)
Broke == Workflow("b", TRUE, <<Cron(<<"valid", "invalid">>), Hook("x", "lastNode", TRUE)>>,
                  <<"read", "respond">>)
Blank == Workflow("c", TRUE, <<Hook("x", "lastNode", TRUE)>>, <<>>)
Empty == Workflow("d", TRUE, <<Hook(NoAddress, "lastNode", FALSE), Cron(<<>>)>>,
                  <<"act", "respond">>)

MCGenerated == <<"wf-0", "wf-1">>
MCExports ==
  {<<Replier, Nameless>>, <<Clash, Nameless>>, <<Replier, Asleep>>,
   <<Broke, Clash>>, <<Empty, Blank>>}
=============================================================================
