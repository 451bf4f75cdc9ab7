SPECIFICATION FairSpec
CONSTANTS
  Runs = {r1, r2}
  Conversations = {c1}
  ConvOf <- Shared
  Clients = {h1}
  Requests = {"cancel", "resolve"}
  Nobody = nobody
  ToolPolicies = {"auto", "confirm"}
  MaxIterations = 1
  MaxCalls = 1
  MaxChunks = 0
  MaxShutdowns = 1
  MaxCrashes = 0
PROPERTIES QueuedRunsEnd CancelledRunsStop AnswerReleasesRun
\* The bounded workload ends, and a run may wait for an answer nobody sends.
CHECK_DEADLOCK FALSE
