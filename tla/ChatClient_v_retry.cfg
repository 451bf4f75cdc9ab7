SPECIFICATION Spec
CONSTANTS
  Conversations = {c1}
  Initial = {c1}
  NoConversation = none
  MaxRuns = 2
  MaxSends = 1
  MaxChunks = 1
  Disturbances = {"cancel", "retry"}
  MaxDisturbances = 2
INVARIANTS CancelTargetsLive
CHECK_DEADLOCK FALSE
