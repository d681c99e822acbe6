\* Two services: a reset and a crash reach one in any phase of the other's
\* poll.  A failure stays longer than the bound.
CONSTANTS
  Services = {a, b}
  Types = {"latency"}
  Durations = {4}
  MaxDuration = 4
  Period = 2
  MaxDelay = 1
SPECIFICATION FairSpec
INVARIANTS
  TakesEffect
PROPERTY FailureClears
