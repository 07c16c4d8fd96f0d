\* Two runs of any kind, two processes, each with any export, one failed append.
SPECIFICATION Spec

CONSTANTS
  NoId = "none"
  NoAddress = "nowhere"
  Generated <- MCGenerated
  Exports <- MCExports
  Addresses = {"x", "y"}
  MaxLoads = 2
  MaxCalls = 2
  MaxFaults = 1

INVARIANTS
  RequestsReachTheirWorkflow
  RecordsAndAnswersAgree

\* The bounds end every behaviour.
CHECK_DEADLOCK FALSE
