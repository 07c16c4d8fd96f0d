\* Three process starts, or two and a clock set back, and a clock of three minutes.
SPECIFICATION Spec

CONSTANTS
  Schedules = {"hourly", "daily"}
  Fires <- MCFires
  Catchups = {"Report", "RunOnce"}
  None = None
  MaxTime = 3
  MaxEras = 3

INVARIANTS
  NothingSilentlySkipped
  NothingRunsTwice

PROPERTIES
  KeepsLedger
  DueIsHandledWhileUp

\* The bounds on the clock and the starts end every behaviour.
CHECK_DEADLOCK FALSE
