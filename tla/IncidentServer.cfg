\* Two streams and two runs of one incident.  A queue has room for one run's
\* events and not for two runs'.
CONSTANTS
  Clients = {c1, c2}
  QueueSize = 2
  StepsPerRun = 1
  MaxPosts = 2
SPECIFICATION FairServerSpec
INVARIANTS
  ServerTypeOK
  NothingMissed
  InOrder
  EndsComplete
PROPERTY EarlyStreamsEnd
CHECK_DEADLOCK FALSE
