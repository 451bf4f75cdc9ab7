SPECIFICATION FairSpec
CONSTANTS
  Topic = "run"
  Streams = {s1, s2}
  NoStream = none
  QueueSize = 2
  ReapThreshold = 2
  MaxKeepAlives = 1
  MaxEvents = 4
  MaxLosses = 1
  MaxRestarts = 1
INVARIANTS TypeOK InOrder Accounted
PROPERTIES ImplementsEventFeed EventsArrive
