SPECIFICATION Spec
CONSTANTS
  Runs = {r1, r2}
  Conversations = {c1}
  ConvOf <- Shared
  Clients = {h1}
  Requests = {"cancel"}
  Nobody = nobody
  ToolPolicies = {"auto", "disabled"}
  MaxIterations = 1
  MaxCalls = 1
  MaxChunks = 1
  MaxShutdowns = 0
  MaxCrashes = 1
SYMMETRY AnyOrder
INVARIANTS OneActiveRun StartedOnce
PROPERTIES TerminalIsFinal ImplementsRunStatus
\* The bounded workload ends, and a run may wait for an answer nobody sends.
CHECK_DEADLOCK FALSE
