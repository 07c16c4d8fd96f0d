\* Two callers, three calls of three tools, budgets of one and two, two renewals.
SPECIFICATION AgentSpec

CONSTANTS
  Callers = {c1, c2}
  Tools = {"fetch_page", "post_to_bluesky", "system_stop"}
  Effect <- MCEffect
  PerTool = 1
  PerRun = 2
  FailuresBeforeOpen = 1
  None = None
  MaxCalls = 4
  MaxRuns = 2
  Secrets = {"bluesky_token", "bluesky_handle", "x_token"}
  Texts = {0, 300, 301}
  Hosts = {"site", "moving"}
  Addresses <- MCAddresses
  Rounds = 2
  MaxAsked = 3

INVARIANTS
  OverrunBounded
  BreakerBounded
  ReceiptsMatch
  AuditBracketsPosts
  DryRunIsDry

PROPERTIES
  OpenStaysOpen
  CallsEnd

\* The bound on the calls ends every behaviour.
CHECK_DEADLOCK FALSE
