\* The services of the repository, any of them running.  Memory: the default
\* budget, everything but a little, the essential tier and some, and too little.
SPECIFICATION RepairSpec

CONSTANTS
  StartOrder <- SERVICES
  Mb <- TypicalMb
  Essential <- EssentialTier
  Requirements <- REQUIREMENTS
  Budgets = {6144, 3400, 1150, 512}

INVARIANTS
  PlanCanBeFollowed
  VerdictIsExact

PROPERTIES
  Terminates

\* repair returns.
CHECK_DEADLOCK FALSE
