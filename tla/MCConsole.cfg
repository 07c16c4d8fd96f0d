\* Seven services and two records, with two changes or faults among them all.
SPECIFICATION ConsoleSpec

CONSTANTS
  Records = {r1, r2}
  NewLine = NewLine
  Faults = {"full", "kill", "power"}
  MaxFaults = 1
  None = None
  Tokens = {"t1", "t2"}
  Names = {"ai_token", "workflow_token", "console_token", "wa_api_key", ".swp"}
  Leftovers = {".swp"}
  StartOrder <- MCOrder
  Mb <- MCMb
  Essential = {"caddy", "cloudflared", "hajime_workflow"}
  Requirements <- MCRequirements
  Ported = {"caddy", "hajime_workflow", "hajime_console", "hajime_ai", "hajime_wa", "llamacpp"}
  Checked = {"hajime_workflow", "hajime_ai", "hajime_wa", "llamacpp"}
  Loading = {"llamacpp"}
  Environments <- MCEnvironments
  FirstDir <- MCDir
  Edits <- MCEdits
  MaxChanges = 2

SYMMETRY RecordSymmetry

INVARIANTS
  GoodNewsIsTrue
  BadNewsIsTrue
  PanelsAreHonest
  TokensHold
  ChatNamesTheCause

CHECK_DEADLOCK FALSE
