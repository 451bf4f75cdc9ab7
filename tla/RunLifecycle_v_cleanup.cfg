SPECIFICATION Spec
CONSTANTS
  Runs = {r1}
  Conversations = {c1}
  ConvOf <- Shared
  Clients = {h1}
  Requests = {"cancel"}
  Nobody = nobody
  ToolPolicies = {"confirm"}
  MaxIterations = 1
  MaxCalls = 1
  MaxChunks = 0
  MaxShutdowns = 0
  MaxCrashes = 0
INVARIANTS CleanupBeforeTerminal
\* The bounded workload ends, and a run may wait for an answer nobody sends.
CHECK_DEADLOCK FALSE
