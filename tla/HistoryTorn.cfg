\* Four records, any three of whose appends meet a fault.
SPECIFICATION Spec

CONSTANTS
  Records = {r1, r2, r3, r4}
  NewLine = NewLine
  Faults = {"kill"}
  MaxFaults = 1

INVARIANT CrashCostsOnlyTheRunInFlight

\* Every record is appended once.
CHECK_DEADLOCK FALSE
