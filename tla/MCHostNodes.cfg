\* Four names, up to three main wires; three rounds of the queue are enough
\* steps; two items, so that one can fail after another has been done.
SPECIFICATION HostSpec

CONSTANTS
  Names = {"T", "A", "B", "C"}
  Start = "T"
  Graphs <- MCGraphs
  MaxSteps = 9
  MaxWires = 3
  Cases <- MCCases
  Policies <- MCPolicies
  Roots <- MCRoots
  Paths <- MCPaths
  MaxItems = 2
  HostPairs = {"executeCommand", "ssh", "writeFile", "readFile", "httpPost", "rssFeedRead", "code"}

INVARIANTS
  RunsTheRunnable
  RehearsalIsHarmless
  TranscriptIsTrue
  NothingBehindTheRun

PROPERTIES
  IsDataflow
  Terminates

\* A run ends.
CHECK_DEADLOCK FALSE
