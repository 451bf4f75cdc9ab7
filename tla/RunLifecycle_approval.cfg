SPECIFICATION Spec
CONSTANTS
  Runs = {r1}
  Conversations = {c1}
  ConvOf <- Shared
  Clients = {h1, h2}
  Requests = {"cancel", "resolve"}
  Nobody = nobody
  ToolPolicies = {"auto", "confirm", "disabled"}
  MaxIterations = 1
  MaxCalls = 2
  MaxChunks = 1
  MaxShutdowns = 1
  MaxCrashes = 1
SYMMETRY AnyOrder
INVARIANTS TypeOK ToolsNeedApproval  
  RecoveryDeniesPending NoOrphanRun
\* The bounded workload ends, and a run may wait for an answer nobody sends.
CHECK_DEADLOCK FALSE
