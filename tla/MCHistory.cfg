\* Five records and up to three faults of any kind.
SPECIFICATION Spec

CONSTANTS
  Records = {r1, r2, r3, r4, r5}
  NewLine = NewLine
  Faults = {"full", "kill", "power"}
  MaxFaults = 3

SYMMETRY RecordSymmetry

INVARIANTS
  FaultHidesFew

PROPERTIES
  SeenStaysSeen

\* Every record is appended once.
CHECK_DEADLOCK FALSE
