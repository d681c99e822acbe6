\* Any number of runs and resumptions of one incident, two requests waiting.
CONSTANT MaxWaiting = 2
SPECIFICATION FairSpec
INVARIANTS
  TypeOK
  JoinComplete
  StatusTells
  SignalsTold
  StoredQualified
PROPERTIES
  NoRepeat
  RunsEnd
