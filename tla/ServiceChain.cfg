\* Ticks of 2.5 seconds: a latency of one tick, and one longer than the timeout.
CONSTANTS
  Timeout = 4
  Latencies = {1, 6}
SPECIFICATION Spec
INVARIANTS
  TypeOK
  AnswersInTime
  OrphansEnd
  TrueSuccess
CHECK_DEADLOCK FALSE
