\* hajimectl stop, with nothing failing and nobody else at work.
SPECIFICATION Spec

CONSTANTS
  Rows = {"postgresql", "hajime_workflow", "hajime_ai", "llamacpp"}
  StartOrder <- MCStartOrder
  Mb <- MCMb
  Essential <- MCEssential
  Requirements <- MCRequirements
  Sessions = {s1}
  Targets = {"hajime_workflow", "hajime_ai"}
  Jails = {"ai"}
  None = "nothing"
  Available = 2740
  MaxCommands = 1
  MaxFaults = 0

INVARIANT StopsDependantsFirst

CHECK_DEADLOCK FALSE
