SPECIFICATION FairSpec
CONSTANTS
  Conversations = {c1, c2}
  Initial = {c1}
  NoConversation = none
  MaxRuns = 2
  MaxSends = 1
  MaxChunks = 1
  Disturbances = {"select", "new", "cancel", "retry", "resolve", "gate", "slow", "reload", "tab"}
  MaxDisturbances = 2
INVARIANTS TypeOK TextIsExact  StatusIsLatest  KeysAreUnique
PROPERTIES Reconnects PermissionsSurface
\* The user may stop, and a run may wait for an answer nobody sends.
CHECK_DEADLOCK FALSE
