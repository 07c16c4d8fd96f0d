\* Two commands at once over two pairs of services, one fault, and memory for
\* all four but the last few megabytes.
SPECIFICATION Spec

CONSTANTS
  Rows = {"postgresql", "hajime_workflow", "hajime_ai", "llamacpp"}
  StartOrder <- MCStartOrder
  Mb <- MCMb
  Essential <- MCEssential
  Requirements <- MCRequirements
  Sessions = {s1, s2}
  Targets = {"hajime_ai"}
  Jails = {"ai"}
  None = "nothing"
  Available = 2740
  MaxCommands = 2
  MaxFaults = 1

SYMMETRY SessionSymmetry

INVARIANTS
  CommandsDoAsTheySay
  ExitCodeIsHonest
  VetoHolds
  OrderProtects

\* Every command ends.
CHECK_DEADLOCK FALSE
