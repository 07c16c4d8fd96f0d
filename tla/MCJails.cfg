\* Two jails, two sessions, three commands: two snapshots and a rollback, or a
\* snapshot and two rollbacks.
SPECIFICATION Spec

CONSTANTS
  Jails = {web, db}
  Sessions = {s1, s2}
  Reasons = {"before"}
  None = None
  MaxCommands = 3
  MaxFaults = 1
  MaxSecond = 1
  MaxVersion = 1

SYMMETRY Symmetry

INVARIANTS
  ReceiptsAreTrue

PROPERTIES
  RollsBackOnlyStopped
  LossIsAnnounced

\* Commands are given only so often.
CHECK_DEADLOCK FALSE
